SPECIFICATION FairSpec
CONSTANTS
  s1 = s1
  s2 = s2
  Sources = {s1}
  MaxRecords = 8
  QueueCapacity = 2
  BatchSize = 2
  WireCapacity = 1
  InputCapacity = 1
  Finite = TRUE
  Faults = TRUE
INVARIANT EndMeansComplete
PROPERTIES ChannelsDeliver BrokenInputSurfaces CloseReturns
CHECK_DEADLOCK FALSE
