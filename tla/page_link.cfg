\* the whole module, its liveness and the refinement
SPECIFICATION FairSpec
CONSTANTS
  None = None
  AskMax = 2
  MaxIn = 1
  MaxGiven = 1
  MaxDrops = 1
  SlowPage = FALSE
INVARIANTS TypeOK FreshCommands GateHonest CaughtUp
PROPERTIES MovedByReader KeepsSession SlowDeviceLands
CHECK_DEADLOCK FALSE
