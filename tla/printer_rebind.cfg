SPECIFICATION FairSpec
CONSTANTS
  s1 = s1
  a1 = a1
  a2 = a2
  None = None
  Serials <- OneSerial
  Addrs <- TwoAddrs
  QueueSize = 2
  RebindAfterFails = 2
  Reports <- NoReports
  ImportOn = FALSE
  MaxPosts = 1
  MaxMoves = 1
  MaxRestarts = 0
PROPERTIES ScanEnds MovedPrinterFound
CHECK_DEADLOCK FALSE
