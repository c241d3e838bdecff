SPECIFICATION FairSpec
CONSTANTS
  Inputs = {1, 2}
  Keys = {1}
  Size = 2
  MaxRecords = 2
  MaxTime = 4
  MaxSkew = 1
  QueueCapacity = 1
  Stops = TRUE
INVARIANTS TypeOK CountedOnce
PROPERTY EverythingWritten
CHECK_DEADLOCK FALSE
