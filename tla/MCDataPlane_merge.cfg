SPECIFICATION Spec
CONSTANTS
  s1 = s1
  s2 = s2
  Sources = {s1, s2}
  MaxRecords = 1
  QueueCapacity = 1
  BatchSize = 1
  WireCapacity = 2
  InputCapacity = 1
  Finite = TRUE
  Faults = TRUE
SYMMETRY Symmetry
INVARIANTS TypeOK CompletesOnlyWhole
PROPERTY WiresAreFrameLinks
CHECK_DEADLOCK FALSE
