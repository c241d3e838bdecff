SPECIFICATION Spec
CONSTANTS
  Inputs = {1}
  Keys = {1}
  Size = 2
  MaxRecords = 2
  MaxTime = 4
  MaxSkew = 0
  QueueCapacity = 1
  Stops = FALSE
INVARIANT OneRowPerWindow
CHECK_DEADLOCK FALSE
