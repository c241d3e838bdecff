--------------------------- MODULE MCWorkerTasks ---------------------------
(* An instance of WorkerTasks for TLC: a task with input channels that is deployed *)
(* twice, a source task; a job of two files, contents of equal and other length.   *)
EXTENDS WorkerTasks, TLC

CONSTANTS a1, a2, r1, r2, r3, j1, v1, v2, v3

MCNames == {"job.yaml", "udf.py"}
MCLength == (v1 :> 1) @@ (v2 :> 1) @@ (v3 :> 2)
MCTaskOf == (r1 :> a1) @@ (r2 :> a1) @@ (r3 :> a2)
MCDirectories == {[n \in MCNames |-> v1], [n \in MCNames |-> IF n = "job.yaml" THEN Absent ELSE v1]}
MCJobOf == (a1 :> j1) @@ (a2 :> j1)
=============================================================================
