\* a pick from the list and the button beside it
SPECIFICATION Spec
CONSTANTS
  PrintChanges = 2
  PrintLosses = 2
  PrintTurns = 3
  NoVent = NoVent
  Vents = {"v1", "v2"}
  VentActs = 3
  VentFaults = 1
  VentOthers = 1
  LogLines = 2
  LogActs = 3
  LogFaults = 1
  RouteTurnings = 1
  Hues = {"red"}
  Levels = {10, 60}
  BlockIds = {"b0"}
  WheelThere = TRUE
  PickActs = 3
  PickEvents = 1
  Slots = {"t0"}
  Percents = {0, 20, 41}
  Tongues = {"en", "pl"}
  DegreeTop = 300
  TrayEvents = 2
  ChromeTongues = {"en", "pl"}
  CardIds = {"status", "logs"}
  ChromeActs = 5
INVARIANTS PickIsBound
CHECK_DEADLOCK FALSE
