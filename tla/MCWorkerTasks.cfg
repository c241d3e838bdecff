SPECIFICATION FairSpec
CONSTANTS
a1 = a1
a2 = a2
r1 = r1
r2 = r2
r3 = r3
j1 = j1
v1 = v1
v2 = v2
v3 = v3
Names <- MCNames
EntryPoint = "job.yaml"
Contents = {v1, v2, v3}
Length <- MCLength
MaxFiles = 2
MaxFileSize = 2
MaxTotalSize = 2
Absent = Absent
Jobs = {j1}
MaxEdits = 1
Directories <- MCDirectories
Requests = {r1, r2, r3}
TaskOf <- MCTaskOf
JobOf <- MCJobOf
SourceTasks = {a2}
SinkTasks = {a1}
NoRequest = NoRequest
MaxCrashes = 1
INVARIANTS DiskIsWhole OneRuntimePerTask FailedDeployLeavesConsumerAtMost StopMeansClean
PROPERTIES AcceptedBundlesDeploy DeploysAnswered
CHECK_DEADLOCK FALSE
