SPECIFICATION Spec
CONSTANTS
  s1 = s1
  a1 = a1
  a2 = a2
  None = None
  Serials <- OneSerial
  Addrs <- TwoAddrs
  QueueSize = 2
  RebindAfterFails = 2
  Reports <- SomeReports
  ImportOn = TRUE
  MaxPosts = 2
  MaxMoves = 0
  MaxRestarts = 1
SYMMETRY Swap
INVARIANTS TypeOK ClientMatchesSettings StateMatchesClient
CHECK_DEADLOCK FALSE
