SPECIFICATION Spec
CONSTANTS
NoTask = NoTask
NoWorker = NoWorker
NoJob = NoJob
j1 = j1
j2 = j2
a1 = a1
a2 = a2
a3 = a3
b1 = b1
Jobs = {j1}
Tasks = {a1, a2, a3}
Workers = {w1, w2}
JobOf <- WideJobOf
TaskOrder <- WideTaskOrder
DeployOrder <- WideDeployOrder
MaxSlots = 2
SlotCounts = {1, 2}
OtherReports = {}
Lossy = TRUE
MaxCrashes = 1
INVARIANTS TypeOK RunningJobsAreWhole DownstreamFirst OneStopPerTask CancelledJobsAreGone SlotBooksAgree
PROPERTY NoDeployOnceSettled
