SPECIFICATION FairSpec
CONSTANTS
Subtasks = {s1, s2}
Partitions = {p1, p2}
Log <- MCLog
Routes = {1, 2}
None = None
MaxRebalances = 2
p1 = p1
p2 = p2
INVARIANTS CommittedWasAccepted ResendsOneAtMost
PROPERTY GoodRecordsAreSent
CHECK_DEADLOCK FALSE
