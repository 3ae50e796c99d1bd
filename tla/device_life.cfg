SPECIFICATION FairSpec
CONSTANTS
  Windows = 3
  QueueSize = 3
  QuietLimit = 2
  MaxUploads = 3
  MaxFaults = 3
INVARIANTS TypeOK WayBack
PROPERTIES ComesBack GuardSparesUpload StuckRestarts
