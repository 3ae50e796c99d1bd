SPECIFICATION Spec
CONSTANTS
  s1 = s1
  a1 = a1
  a2 = a2
  None = None
  Serials <- OneSerial
  Addrs <- TwoAddrs
  QueueSize = 2
  RebindAfterFails = 3
  Reports <- NoReports
  ImportOn = FALSE
  MaxPosts = 1
  MaxMoves = 0
  MaxRestarts = 1
INVARIANTS UnbindSticks
CHECK_DEADLOCK FALSE
