--------------------------- MODULE SlotScheduler ---------------------------
(***************************************************************************)
(* SlotScheduler.schedule and release over the slots of the registry: the  *)
(* tasks of a job are planned one by one onto the least loaded healthy     *)
(* worker, the first two onto different workers where possible; then every *)
(* worker reserves its lowest free slots.  JobManager takes any placement  *)
(* that Placements allows; here that is a property of the algorithm.       *)
(***************************************************************************)
EXTENDS Integers, Sequences, FiniteSets, Functions, Placement

CONSTANTS
  Workers,     \* numbers, ordered as the worker ids are
  SlotsOf,     \* [Workers -> Nat \ {0}], total_slots
  Jobs,
  NoTask

ASSUME WorkerAssumption == Workers \subseteq Nat /\ SlotsOf \in [Workers -> Nat \ {0}]

VARIABLES
  owner,       \* WorkerSlot.task_id
  place,       \* TaskInstance.worker_id and slot_index of the tasks of placed jobs
  healthy      \* workers whose heartbeat is recent

slotVars == <<owner, place, healthy>>

SlotIds(w) == 0..(SlotsOf[w] - 1)
NoPlaces == << >>

SlotInit ==
  /\ owner = [w \in Workers |-> [i \in SlotIds(w) |-> NoTask]]
  /\ place = [j \in Jobs |-> NoPlaces]
  /\ healthy = {}

-----------------------------------------------------------------------------
FreeSlots(w) == {i \in SlotIds(w) : owner[w][i] = NoTask}

Used(w) == SlotsOf[w] - Cardinality(FreeSlots(w))

\* How many tasks of the job the plan so far puts on w.
Planned(w, plan) == Cardinality({k \in 1..Len(plan) : plan[k] = w})

\* The sort key: occupied fraction, then occupied slots, then id.
Before(w, u, plan) ==
  LET load(x) == Used(x) + Planned(x, plan)
      share(x, y) == load(x) * SlotsOf[y]    \* load(x) / SlotsOf[x], scaled
  IN \/ share(w, u) < share(u, w)
     \/ share(w, u) = share(u, w) /\ load(w) < load(u)
     \/ share(w, u) = share(u, w) /\ load(w) = load(u) /\ w < u

\* Mutant: the first two tasks are not spread.
CandidatesUnspread(workers, plan, spread) ==
  {w \in workers : Planned(w, plan) < Cardinality(FreeSlots(w))}

Candidates(workers, plan, spread) ==
  {w \in workers : /\ Planned(w, plan) < Cardinality(FreeSlots(w))
                   /\ Len(plan) < spread => Planned(w, plan) = 0}

LeastLoaded(C, plan) == CHOOSE w \in C : \A u \in C \ {w} : Before(w, u, plan)

Available == {w \in healthy : FreeSlots(w) # {}}

SpreadTarget(n) ==
  CHOOSE m \in {2, n, Cardinality(Available)} :
    \A k \in {2, n, Cardinality(Available)} : m <= k

\* The worker of each of the first n tasks, in the order of the tasks.
PlanOf(n) ==
  LET upTo[k \in 0..n] ==
        IF k = 0 THEN << >>
        ELSE LET plan == upTo[k - 1] IN
             Append(plan, LeastLoaded(Candidates(Available, plan, SpreadTarget(n)), plan))
  IN upTo[n]

\* reserve: the lowest slot of w still free when its r-th planned task comes.
ReservedSlot(w, r) ==
  CHOOSE i \in FreeSlots(w) : Cardinality({m \in FreeSlots(w) : m <= i}) = r

FreeTotal == Cardinality(UNION {{w} \X FreeSlots(w) : w \in Available})

\* tasks: the tasks of the job in the order of ExecutionGraph.tasks.
Schedule(j, tasks) ==
  LET plan == PlanOf(Len(tasks)) IN
  /\ place[j] = NoPlaces
  /\ FreeTotal >= Len(tasks)
  /\ place' = [place EXCEPT ![j] =
       [t \in Range(tasks) |->
          LET k == CHOOSE i \in DOMAIN tasks : tasks[i] = t IN
          <<plan[k], ReservedSlot(plan[k], Planned(plan[k], SubSeq(plan, 1, k)))>>]]
  /\ owner' = [w \in Workers |-> [i \in SlotIds(w) |->
       IF \E t \in Range(tasks) : place'[j][t] = <<w, i>>
       THEN CHOOSE t \in Range(tasks) : place'[j][t] = <<w, i>>
       ELSE owner[w][i]]]
  /\ UNCHANGED healthy

\* Mutant: slots on a worker that stopped sending heartbeats are not released.
ReleaseHealthy(j) ==
  /\ place[j] # NoPlaces
  /\ owner' = [w \in Workers |-> [i \in SlotIds(w) |->
       IF owner[w][i] \in DOMAIN place[j] /\ w \in healthy THEN NoTask ELSE owner[w][i]]]
  /\ place' = [place EXCEPT ![j] = NoPlaces]
  /\ UNCHANGED healthy

Release(j) ==
  /\ place[j] # NoPlaces
  /\ owner' = [w \in Workers |-> [i \in SlotIds(w) |->
       IF owner[w][i] \in DOMAIN place[j] THEN NoTask ELSE owner[w][i]]]
  /\ place' = [place EXCEPT ![j] = NoPlaces]
  /\ UNCHANGED healthy

\* A heartbeat arrives, or stays away for longer than the timeout.
HealthChanges(w) ==
  /\ healthy' = IF w \in healthy THEN healthy \ {w} ELSE healthy \cup {w}
  /\ UNCHANGED <<owner, place>>

-----------------------------------------------------------------------------
(* Properties; Order(j) is the order in which the tasks of a job are listed. *)

\* Every placement the algorithm computes is one JobManager relies on: a free slot
\* of a healthy worker for each task, no slot twice, lowest slots first, and the
\* first two tasks apart where two workers have room.
PlacesAsPromised(j, order) ==
  LET free == [w \in healthy |-> FreeSlots(w)] IN
  /\ DOMAIN place'[j] = Range(order)
  /\ \A t \in Range(order) : place'[j][t] \in PlacedOn(free)
  /\ KeepsPromise(place'[j], order, free)

\* The greedy plan is balanced by occupied fraction: a worker that got a task
\* beyond the two that are spread was, before its last one, no fuller than any
\* healthy worker with room left is afterwards.
PlacesBalanced(j, order) ==
  \A w \in Workers, u \in healthy :
    (\E k \in DOMAIN order : k > 2 /\ place'[j][order[k]][1] = w) /\ FreeSlots(u)' # {}
      => (Used(w)' - 1) * SlotsOf[u] <= Used(u)' * SlotsOf[w]

\* No slot is lost or held for nobody: the slots carry exactly the tasks of the
\* jobs that are placed, each where its assignment says, after any history of
\* schedules and releases.
SlotsMatchAssignments ==
  \A w \in Workers : \A i \in SlotIds(w) :
    LET holders == {t \in UNION {DOMAIN place[j] : j \in Jobs} :
                      \E j \in Jobs : t \in DOMAIN place[j] /\ place[j][t] = <<w, i>>}
    IN holders = IF owner[w][i] = NoTask THEN {} ELSE {owner[w][i]}
=============================================================================
