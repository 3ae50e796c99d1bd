\* the cards, one at a time
SPECIFICATION Spec
CONSTANTS
  NoSerial = NoSerial
  Serials <- TwoSerials
  BindActs = 3
  BindEvents = 2
  BindRelinks = 1
  NoBuild = NoBuild
  ImageSlots = {"ok"}
  UploadActs = 3
  UploadFaults = 1
  NoNetwork = NoNetwork
  Networks <- TwoNetworks
  SavedNetwork = "n2"
  Names = {"a", "b"}
  Languages = {"en", "pl"}
  NetActs = 2
  NetEvents = 1
  LightTicks = 2
  LightActs = 3
  LightEvents = 2
INVARIANTS CardsAgree CardsHonest
PROPERTIES PageReloads CardsSettle
CHECK_DEADLOCK FALSE
