\* a moved vent is found, and a copy ends
SPECIFICATION Ends
CONSTANTS
  v1 = v1
  a1 = a1
  a2 = a2
  None = None
  Vents <- OneVent
  Addrs <- TwoAddrs
  QueueSize = 2
  MaxCodes = 1
  MaxPosts = 1
  MaxReads = 0
  MaxFaults = 1
  MaxRestarts = 0
  idle = idle
  printing = printing
  NoAnswer = NoAnswer
  States <- BarStates
  MaxAsks = 3
  MaxDrops = 1
INVARIANTS EndsTypeOK AnswerOfTheAsk
PROPERTIES VentFound CopyEnds
CHECK_DEADLOCK FALSE
