---------------------------- MODULE SourceGroup ----------------------------
(***************************************************************************)
(* The subtasks of a Kafka source as members of one consumer group: each   *)
(* polls a record, decodes it, puts it into the queue of every route of    *)
(* its task and commits, while the group hands partitions over at any      *)
(* moment.  KafkaJsonSource and the run loop of TaskRuntime are the code;  *)
(* the group is external.                                                  *)
(***************************************************************************)
EXTENDS Integers, Sequences, FiniteSets

CONSTANTS
  Subtasks, Partitions,
  Log,             \* [Partitions -> Seq(BOOLEAN)]: is the record a good one?
  Routes,          \* 1..n, the output routes of the source task
  None,
  MaxRebalances    \* bound on rebalances that no member's coming or going causes

ASSUME GroupAssumption ==
  /\ Log \in [Partitions -> Seq(BOOLEAN)]
  /\ IsFiniteSet(Routes) /\ Routes # {} /\ Routes = 1..Cardinality(Routes)
  /\ None \notin Subtasks \cup Partitions \cup Nat /\ MaxRebalances \in Nat

VARIABLES
  policy,      \* bad_record_policy
  phase,       \* of a source task: new, polling, sending, committing, closed
  holding,     \* the record a task has in hand: partition, offset, routes it is put on
  assigned,    \* [Partitions -> Subtasks \cup {None}], the group's assignment
  position,    \* next offset of each partition, at its consumer
  committed,   \* the group's committed offsets
  accepted,    \* offsets of each partition put into the queue of each route
  rebalances

vars == <<policy, phase, holding, assigned, position, committed, accepted, rebalances>>

Nothing == [partition |-> None, offset |-> 0, routes |-> {}]

Init ==
  /\ policy \in {"skip", "fail"}
  /\ phase = [s \in Subtasks |-> "new"]
  /\ holding = [s \in Subtasks |-> Nothing]
  /\ assigned = [p \in Partitions |-> None]
  /\ position = [p \in Partitions |-> None]
  /\ committed = [p \in Partitions |-> None]
  /\ accepted = [p \in Partitions |-> [r \in Routes |-> {}]]
  /\ rebalances = 0

Running == {"polling", "sending", "committing"}
Members == {s \in Subtasks : phase[s] \in Running}

-----------------------------------------------------------------------------
(* The group *)

\* Mutant: a group without an offset starts at the end of its partitions.
StartAtEnd(p) == IF committed[p] = None THEN Len(Log[p]) + 1 ELSE committed[p]

\* auto_offset_reset = earliest.
Start(p) == IF committed[p] = None THEN 1 ELSE committed[p]

\* Every partition gets a member; consumers go on at the committed offsets, with
\* what they had read but not committed forgotten.
Reassign(members) ==
  /\ assigned' \in [Partitions -> members]
  /\ position' = [p \in Partitions |-> Start(p)]

\* A member is gone or went silent, or the coordinator asks everybody to rejoin.
Rebalance ==
  /\ Members # {}
  /\ IF \E p \in Partitions : assigned[p] \notin Members
     THEN UNCHANGED rebalances
     ELSE rebalances < MaxRebalances /\ rebalances' = rebalances + 1
  /\ Reassign(Members)
  /\ UNCHANGED <<policy, phase, holding, committed, accepted>>

-----------------------------------------------------------------------------
(* A source task *)

\* TaskRuntime.start opens the source, which joins the group without auto-commit.
Open(s) ==
  /\ phase[s] = "new"
  /\ phase' = [phase EXCEPT ![s] = "polling"]
  /\ Reassign(Members \cup {s})
  /\ UNCHANGED <<policy, holding, committed, accepted, rebalances>>

\* consumer.start fails.
OpenFails(s) ==
  /\ phase[s] = "new"
  /\ phase' = [phase EXCEPT ![s] = "closed"]
  /\ UNCHANGED <<policy, holding, assigned, position, committed, accepted, rebalances>>

HasNext(s, p) == assigned[p] = s /\ position[p] <= Len(Log[p])

\* Mutant: the offset is committed when the record is read.
PollCommitted(s) ==
  /\ phase[s] = "polling"
  /\ \E p \in Partitions :
       /\ HasNext(s, p) /\ Log[p][position[p]]
       /\ position' = [position EXCEPT ![p] = @ + 1]
       /\ committed' = [committed EXCEPT ![p] = position[p] + 1]
       /\ phase' = [phase EXCEPT ![s] = "sending"]
       /\ holding' = [holding EXCEPT ![s] = [partition |-> p, offset |-> position[p], routes |-> {}]]
  /\ UNCHANGED <<policy, assigned, accepted, rebalances>>

\* records() yields the next good record.
Poll(s) ==
  /\ phase[s] = "polling"
  /\ \E p \in Partitions :
       /\ HasNext(s, p) /\ Log[p][position[p]]
       /\ position' = [position EXCEPT ![p] = @ + 1]
       /\ phase' = [phase EXCEPT ![s] = "sending"]
       /\ holding' = [holding EXCEPT ![s] = [partition |-> p, offset |-> position[p], routes |-> {}]]
  /\ UNCHANGED <<policy, assigned, committed, accepted, rebalances>>

\* A bad record is passed over, or fails the task, which closes its source.
PollBad(s) ==
  /\ phase[s] = "polling"
  /\ \E p \in Partitions :
       /\ HasNext(s, p) /\ ~Log[p][position[p]]
       /\ position' = [position EXCEPT ![p] = @ + 1]
  /\ phase' = [phase EXCEPT ![s] = IF policy = "skip" THEN "polling" ELSE "closed"]
  /\ UNCHANGED <<policy, holding, assigned, committed, accepted, rebalances>>

NextRoute(s) == Cardinality(holding[s].routes) + 1

Accepted(s) ==
  [accepted EXCEPT ![holding[s].partition][NextRoute(s)] = @ \cup {holding[s].offset}]

\* _emit: one route after the other, each as soon as its queue has room.
Put(s) ==
  /\ phase[s] = "sending"
  /\ accepted' = Accepted(s)
  /\ holding' = [holding EXCEPT ![s].routes = @ \cup {NextRoute(s)}]
  /\ phase' = [phase EXCEPT ![s] = IF NextRoute(s) = Cardinality(Routes) THEN "committing" ELSE "sending"]
  /\ UNCHANGED <<policy, assigned, position, committed, rebalances>>

\* Mutant: no commit (the Kafka client commits by itself or not at all).
CommitNever(s) ==
  /\ phase[s] = "committing"
  /\ phase' = [phase EXCEPT ![s] = "polling"]
  /\ holding' = [holding EXCEPT ![s] = Nothing]
  /\ UNCHANGED <<policy, assigned, position, committed, accepted, rebalances>>

\* consumer.commit() takes the positions of all partitions it is assigned now; that
\* of the record in hand may be none of them.
Commit(s) ==
  /\ phase[s] = "committing"
  /\ committed' = [p \in Partitions |-> IF assigned[p] = s THEN position[p] ELSE committed[p]]
  /\ phase' = [phase EXCEPT ![s] = "polling"]
  /\ holding' = [holding EXCEPT ![s] = Nothing]
  /\ UNCHANGED <<policy, assigned, position, accepted, rebalances>>

\* A channel or a commit fails, the task is stopped, its worker dies.  What waits in
\* a put may be put all the same.
Close(s) ==
  /\ phase[s] \in Running
  /\ phase' = [phase EXCEPT ![s] = "closed"]
  /\ holding' = [holding EXCEPT ![s] = Nothing]
  /\ \/ UNCHANGED accepted
     \/ phase[s] = "sending" /\ accepted' = Accepted(s)
  /\ UNCHANGED <<policy, assigned, position, committed, rebalances>>

Next ==
  \/ Rebalance
  \/ \E s \in Subtasks :
       \/ Open(s) \/ OpenFails(s) \/ Poll(s) \/ PollBad(s) \/ Put(s) \/ Commit(s) \/ Close(s)

Spec == Init /\ [][Next]_vars

\* The run loop goes on, channels have room again and again, the coordinator gives
\* the partitions of a member that is gone to another one.
Fairness ==
  /\ WF_vars(Rebalance /\ \E p \in Partitions : assigned[p] \notin Members)
  /\ \A s \in Subtasks : WF_vars(Poll(s) \/ PollBad(s) \/ Put(s) \/ Commit(s))

FairSpec == Spec /\ Fairness

-----------------------------------------------------------------------------
(* Properties *)

Good(p) == {o \in 1..Len(Log[p]) : Log[p][o]}

Before(p, o) == committed[p] # None /\ o < committed[p]

\* A committed offset never passes a record that is not in the queue of every route,
\* nor a bad one that must fail the job: whoever gets the partition next does not
\* leave it out.  Commits cover all partitions of a consumer, not the record in hand.
CommittedWasAccepted ==
  \A p \in Partitions : \A o \in 1..Len(Log[p]) :
    Before(p, o) => IF Log[p][o] THEN \A r \in Routes : o \in accepted[p][r]
                                 ELSE policy = "skip"

\* What a hand-over of a partition makes its next owner send again is one record at
\* most: the duplicates the acceptance report found were unbounded.
ResendsOneAtMost ==
  \A p \in Partitions :
    Cardinality({o \in Good(p) : ~Before(p, o) /\ \E r \in Routes : o \in accepted[p][r]}) <= 1

\* As long as a member is left, every good record reaches every route, whoever stops,
\* fails or loses its partitions in the middle of one. Rebalances end (MaxRebalances):
\* a group that is rebalanced for ever may never get as far as a commit.
GoodRecordsAreSent ==
  \A p \in Partitions : \A o \in Good(p) : \A r \in Routes :
    <>(o \in accepted[p][r]) \/ <>[](Members = {})
=============================================================================
