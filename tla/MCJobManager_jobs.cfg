SPECIFICATION FairSpec
CONSTANTS
NoTask = NoTask
NoWorker = NoWorker
NoJob = NoJob
j1 = j1
j2 = j2
a1 = a1
a2 = a2
a3 = a3
b1 = b1
Jobs = {j1, j2}
Tasks = {a1, a2, b1}
Workers = {w1}
JobOf <- TwoJobOf
TaskOrder <- TwoTaskOrder
DeployOrder <- TwoDeployOrder
MaxSlots = 3
SlotCounts = {3}
OtherReports = {"RUNNING"}
Lossy = FALSE
MaxCrashes = 1
INVARIANT SettledJobsHoldNoSlots
PROPERTIES ImplementsSlotLease DeadWorkersFailJobs JobsSettle
