SPECIFICATION Spec
CONSTANTS
  s1 = s1
  s2 = s2
  Sources = {s1}
  MaxRecords = 2
  QueueCapacity = 1
  BatchSize = 2
  WireCapacity = 2
  InputCapacity = 1
  Finite = FALSE
  Faults = FALSE
INVARIANT StoppingIsNotFailing
CHECK_DEADLOCK FALSE
