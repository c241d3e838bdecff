----------------------------- MODULE Placement -----------------------------
(***************************************************************************)
(* What SlotScheduler.schedule promises of the slots it picks for a job.   *)
(* order is the job's tasks in the order of ExecutionGraph.tasks, free the *)
(* free slots of every healthy worker.                                     *)
(***************************************************************************)
EXTENDS Integers, Sequences, FiniteSets

PlacedOn(free) ==
  {<<w, i>> : w \in DOMAIN free, i \in UNION {free[w] : w \in DOMAIN free}}

\* Every task gets a free slot of a healthy worker, two tasks never the same one,
\* the lowest slots of a worker first, and the first two tasks of the job get
\* different workers where two have room.
KeepsPromise(p, order, free) ==
  LET tasks == {order[i] : i \in 1..Len(order)} IN
  /\ \A t \in tasks : p[t][2] \in free[p[t][1]]
  /\ \A t, u \in tasks : p[t] = p[u] => t = u
  /\ \A t \in tasks : \A i \in free[p[t][1]] :
       i < p[t][2] => \E u \in tasks : p[u] = <<p[t][1], i>>
  /\ \/ Len(order) = 1
     \/ Cardinality({w \in DOMAIN free : free[w] # {}}) = 1
     \/ p[order[1]][1] # p[order[2]][1]

Placements(order, free) ==
  {p \in [{order[i] : i \in 1..Len(order)} -> PlacedOn(free)] : KeepsPromise(p, order, free)}
=============================================================================
