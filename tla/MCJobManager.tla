---------------------------- MODULE MCJobManager ----------------------------
(* Instances of JobManager for TLC. *)
EXTENDS JobManager, TLC

CONSTANTS j1, j2, a1, a2, a3, b1

\* One job of two tasks: source a1, sink a2.
OneJobOf == (a1 :> j1) @@ (a2 :> j1)
OneTaskOrder == (j1 :> <<a1, a2>>)
OneDeployOrder == (j1 :> <<a2, a1>>)

\* One job: source a1 and a sink of parallelism 2, a2 and a3.
WideJobOf == (a1 :> j1) @@ (a2 :> j1) @@ (a3 :> j1)
WideTaskOrder == (j1 :> <<a1, a2, a3>>)
WideDeployOrder == (j1 :> <<a2, a3, a1>>)

\* Two jobs: a1 -> a2, and b1.
TwoJobOf == (a1 :> j1) @@ (a2 :> j1) @@ (b1 :> j2)
TwoTaskOrder == (j1 :> <<a1, a2>>) @@ (j2 :> <<b1>>)
TwoDeployOrder == (j1 :> <<a2, a1>>) @@ (j2 :> <<b1>>)
=============================================================================
