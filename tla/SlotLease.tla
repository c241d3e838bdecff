------------------------------ MODULE SlotLease ------------------------------
(***************************************************************************)
(* What the control plane promises about slots, whatever coroutines run:   *)
(* a job gets a slot of its own for every task in one step, gives all of   *)
(* them back in one step, and never gets slots again.                      *)
(***************************************************************************)
CONSTANTS Jobs, Tasks, Slots, JobOf, NoSlot

VARIABLES lease, phase

TasksOf(j) == {t \in Tasks : JobOf[t] = j}

Init ==
  /\ lease = [t \in Tasks |-> NoSlot]
  /\ phase = [j \in Jobs |-> "waiting"]

Grant(j) ==
  /\ phase[j] = "waiting"
  /\ phase' = [phase EXCEPT ![j] = "holding"]
  /\ lease' \in [Tasks -> Slots \cup {NoSlot}]
  /\ \A t \in Tasks \ TasksOf(j) : lease'[t] = lease[t]
  /\ \A t \in TasksOf(j) :
       /\ lease'[t] \in Slots
       /\ \A u \in Tasks : lease'[u] = lease'[t] => u = t

Refuse(j) ==
  /\ phase[j] = "waiting"
  /\ phase' = [phase EXCEPT ![j] = "over"]
  /\ UNCHANGED lease

GiveBack(j) ==
  /\ phase[j] = "holding"
  /\ phase' = [phase EXCEPT ![j] = "over"]
  /\ lease' = [t \in Tasks |-> IF t \in TasksOf(j) THEN NoSlot ELSE lease[t]]

Next == \E j \in Jobs : Grant(j) \/ Refuse(j) \/ GiveBack(j)

Spec == Init /\ [][Next]_<<lease, phase>>
=============================================================================
