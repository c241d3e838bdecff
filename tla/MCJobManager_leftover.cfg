SPECIFICATION Spec
CONSTANTS
NoTask = NoTask
NoWorker = NoWorker
NoJob = NoJob
j1 = j1
j2 = j2
a1 = a1
a2 = a2
a3 = a3
b1 = b1
Jobs = {j1}
Tasks = {a1, a2}
Workers = {w1, w2}
JobOf <- OneJobOf
TaskOrder <- OneTaskOrder
DeployOrder <- OneDeployOrder
MaxSlots = 2
SlotCounts = {1}
OtherReports = {}
Lossy = FALSE
MaxCrashes = 0
INVARIANT FailedJobsLeaveNothing
