SPECIFICATION Spec
CONSTANTS
  Bits = {"state_effects", "fx_temp", "fx_barber", "presets", "stage_effects", "config_io"}
  Effects = {"static", "gradient", "barber"}
  States = {"idle"}
  Slots = {"preparing"}
  Names = {"calm"}
  Parity = {0, 1}
  None = None
  Found <- MCFound
  Switches <- MCSwitches
  Posted <- MCPosted
  Listed <- MCListed
  Tabled <- MCTabled
  Files <- MCFiles
INVARIANTS TypeOK EffectRenderable StoredIsCurrent
PROPERTY TakenWhole
