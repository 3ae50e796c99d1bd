\* the binding of two vents, and the pairing of one
SPECIFICATION Plans
CONSTANTS
  v1 = v1
  v2 = v2
  a1 = a1
  a2 = a2
  None = None
  Vents <- TwoVents
  Addrs <- TwoAddrs
  QueueSize = 2
  MaxCodes = 2
  MaxPosts = 3
  MaxReads = 1
  MaxFaults = 1
  MaxRestarts = 1
INVARIANTS TokenOfBoundVent PairedAtBothEnds
PROPERTIES IdentityKept WaitStands
CHECK_DEADLOCK FALSE
