-------------------------- MODULE JobManagerProofs --------------------------
(***************************************************************************)
(* Proofs about JobManager for every set of jobs, tasks and workers.       *)
(***************************************************************************)
EXTENDS JobManager, TLAPS

-----------------------------------------------------------------------------
(* The physical graph and the coroutines *)

\* Every position of a deployment order holds a task of its job, and the order
\* has at least one position.
LEMMA DeployOrderType ==
  ASSUME NEW j \in Jobs
  PROVE  /\ Len(DeployOrder[j]) \in Nat \ {0}
         /\ \A i \in 1..Len(DeployOrder[j]) :
              DeployOrder[j][i] \in TasksOf(j) /\ DeployOrder[j][i] \in Tasks
<1>1. Enumerates(DeployOrder[j], TasksOf(j)) /\ TasksOf(j) # {}
  BY GraphAssumption
<1>2. DeployOrder[j] \in Seq(Tasks)
  BY <1>1 DEF Enumerates
<1>3. {DeployOrder[j][i] : i \in 1..Len(DeployOrder[j])} = TasksOf(j)
  BY <1>1 DEF Enumerates
<1>4. Len(DeployOrder[j]) \in Nat
  BY <1>2
<1>5. Len(DeployOrder[j]) # 0
  BY <1>1, <1>3, <1>4
<1> QED
  BY <1>3, <1>4, <1>5 DEF TasksOf

\* The order of the tasks, as the reconcile loop walks it, holds tasks of the job.
LEMMA TaskOrderType ==
  ASSUME NEW j \in Jobs
  PROVE  \A i \in 1..Len(TaskOrder[j]) : TaskOrder[j][i] \in TasksOf(j)
BY GraphAssumption DEF Enumerates

\* A placement gives every task of the job a slot of its own that is free on a
\* worker of the registry.
LEMMA ValidPlacementsType ==
  ASSUME fresh \subseteq Workers, total \in [Workers -> 0..MaxSlots],
         NEW j \in Jobs, NEW p \in ValidPlacements(j)
  PROVE  /\ p \in [TasksOf(j) -> Places]
         /\ \A t, u \in TasksOf(j) : p[t] = p[u] => t = u
         /\ \A t \in TasksOf(j) : p[t][2] \in FreeSlots(p[t][1])
<1> DEFINE free == [w \in fresh |-> FreeSlots(w)]
<1>1. {TaskOrder[j][i] : i \in 1..Len(TaskOrder[j])} = TasksOf(j)
  BY GraphAssumption DEF Enumerates
<1>2. p \in Placements(TaskOrder[j], free)
  BY DEF ValidPlacements
<1>3. /\ p \in [TasksOf(j) -> PlacedOn(free)]
      /\ \A t, u \in TasksOf(j) : p[t] = p[u] => t = u
      /\ \A t \in TasksOf(j) : p[t][2] \in free[p[t][1]]
  <2> HIDE DEF free
  <2> QED
    BY <1>1, <1>2 DEF Placements, KeepsPromise
<1>4. \A w \in fresh : FreeSlots(w) \subseteq SlotIds
  BY SlotAssumption DEF FreeSlots, SlotIds
<1>5. PlacedOn(free) \subseteq {q \in Places : q[1] \in fresh}
  BY <1>4 DEF PlacedOn, Places
<1>6. \A t \in TasksOf(j) : p[t][1] \in fresh /\ p[t] \in Places
  BY <1>3, <1>5
<1>7. \A t \in TasksOf(j) : p[t][2] \in FreeSlots(p[t][1])
  BY <1>3, <1>6
<1> QED
  BY <1>3, <1>6, <1>7

\* The four kinds of coroutine are coroutines.
LEMMA CoroutineNames ==
  /\ \A j \in Jobs : Submit(j) \in Coroutines /\ Cancel(j) \in Coroutines
  /\ \A t \in Tasks : Report(t) \in Coroutines
  /\ Reconcile \in Coroutines
BY DEF Coroutines

\* Coroutines of different requests are different.
LEMMA CoroutinesDiffer ==
  /\ \A j, k \in Jobs : Submit(j) = Submit(k) => j = k
  /\ \A j, k \in Jobs : Submit(j) # Cancel(k)
  /\ \A j \in Jobs, t \in Tasks : Submit(j) # Report(t) /\ Cancel(j) # Report(t)
  /\ \A j \in Jobs : Submit(j) # Reconcile /\ Cancel(j) # Reconcile
BY DEF Submit, Cancel, Report, Reconcile

\* NoPlace is on no worker.
LEMMA NoPlaceIsNoPlace == NoPlace \notin Places /\ \A p \in Places : p[1] # NoWorker
BY MarkerAssumption DEF Places, NoPlace

-----------------------------------------------------------------------------
(* Type correctness *)

\* What a frame must satisfy for the coroutine's next step to make sense.
FrameOK(fr) ==
  /\ fr \in Frames
  /\ fr.pc \in {"deploy", "stop"} =>
       fr.job \in Jobs /\ fr.at \in 1..Len(DeployOrder[fr.job])

\* The frames of a finished coroutine and of the sweep between two jobs.
LEMMA RestFrames ==
  /\ FrameOK(Idle) /\ Idle.pc = "idle"
  /\ FrameOK(Sweeping) /\ Sweeping.pc = "sweep"
BY DEF FrameOK, Frames, Idle, Sweeping, FrameOf

\* The frame of submit_job awaiting the deployment of task number k.
LEMMA DeployFrameShape ==
  ASSUME NEW j \in Jobs, NEW w \in Workers, NEW k \in 1..Len(DeployOrder[j])
  PROVE  /\ FrameOK(DeployFrame(j, k, w))
         /\ DeployFrame(j, k, w).pc = "deploy" /\ DeployFrame(j, k, w).job = j
         /\ DeployFrame(j, k, w).at = k /\ ~DeployFrame(j, k, w).reached
<1>1. k \in Nat
  BY DeployOrderType
<1> QED
  BY <1>1 DEF DeployFrame, FrameOf, FrameOK, Frames

\* The part of TypeOK that stopping tasks can disturb.
StopTyped ==
  /\ job \in [Jobs -> JobStatus]
  /\ task \in [Tasks -> TaskStatus]
  /\ place \in [Tasks -> Places \cup {NoPlace}]
  /\ owner \in [Workers -> [SlotIds -> Tasks \cup {NoTask}]]
  /\ frame \in [Coroutines -> Frames]
  /\ \A c \in Coroutines : FrameOK(frame[c])
  /\ \A j \in Jobs : frame[Submit(j)].pc = "deploy" => frame[Submit(j)].job = j

LEMMA TypeOKStopTyped == TypeOK => StopTyped
BY DEF TypeOK, StopTyped, FrameOK

\* Putting a well-formed frame in place of another keeps the frames well-formed.
LEMMA FrameReplaced ==
  ASSUME StopTyped, NEW c \in Coroutines, NEW fr, FrameOK(fr),
         fr.pc = "deploy" => \A j \in Jobs : c = Submit(j) => fr.job = j,
         frame' = [frame EXCEPT ![c] = fr]
  PROVE  /\ frame' \in [Coroutines -> Frames]
         /\ \A d \in Coroutines : FrameOK(frame'[d])
         /\ \A j \in Jobs : frame'[Submit(j)].pc = "deploy" => frame'[Submit(j)].job = j
<1>1. \A d \in Coroutines : frame'[d] = IF d = c THEN fr ELSE frame[d]
  BY DEF StopTyped
<1>2. fr \in Frames
  BY DEF FrameOK
<1> QED
  BY <1>1, <1>2, CoroutineNames DEF StopTyped

\* Releasing a job's slots keeps both books well-formed.
LEMMA ReleaseTyped ==
  ASSUME StopTyped, NEW j \in Jobs
  PROVE  /\ ReleasedSlots(j) \in [Workers -> [SlotIds -> Tasks \cup {NoTask}]]
         /\ ReleasedPlaces(j) \in [Tasks -> Places \cup {NoPlace}]
BY DEF StopTyped, ReleasedSlots, ReleasedPlaces

\* The end of a cleanup keeps the types.
LEMMA FinishStopsTyped ==
  ASSUME StopTyped, NEW c \in Coroutines, NEW j \in Jobs, NEW f,
         NEW js \in [Jobs -> JobStatus], NEW st \in [Tasks -> TaskStatus],
         NEW errors \in BOOLEAN, FinishStops(c, j, f, js, st, errors)
  PROVE  StopTyped'
<1>1. task' \in [Tasks -> TaskStatus]
  BY DEF FinishStops, TaskStatus
<1>2. job' \in [Jobs -> JobStatus]
  BY DEF FinishStops, JobStatus, AfterCancel, AfterFailRun
<1>3. /\ owner' \in [Workers -> [SlotIds -> Tasks \cup {NoTask}]]
      /\ place' \in [Tasks -> Places \cup {NoPlace}]
  BY ReleaseTyped DEF FinishStops
<1>4. PICK fr : /\ fr \in {Idle, Sweeping}
                /\ frame' = [frame EXCEPT ![c] = fr]
  BY DEF FinishStops
<1>5. FrameOK(fr) /\ fr.pc # "deploy"
  BY <1>4, RestFrames
<1> QED
  BY <1>1, <1>2, <1>3, <1>4, <1>5, FrameReplaced DEF StopTyped

\* _stop_tasks up to its next await keeps the types.
LEMMA StopTasksTyped ==
  ASSUME StopTyped, NEW c \in Coroutines, NEW j \in Jobs,
         NEW f \in Tasks \cup {NoTask},
         NEW js \in [Jobs -> JobStatus], NEW st \in [Tasks -> TaskStatus],
         NEW k \in 0..Len(DeployOrder[j]), NEW errors \in BOOLEAN,
         StopTasks(c, j, f, js, st, k, errors)
  PROVE  StopTyped'
<1> DEFINE D == DeployOrder[j]
           due == {i \in 1..k : D[i] # f /\ st[D[i]] \in Stoppable}
           reachable == {i \in due : place[D[i]] # NoPlace}
           unreachable(n) == {D[i] : i \in {m \in due : m > n}}
           Stopped(n) == [t \in Tasks |-> IF t \in unreachable(n) THEN "FAILED" ELSE st[t]]
<1>1. \A n : Stopped(n) \in [Tasks -> TaskStatus]
  BY DEF TaskStatus
<1>2. CASE reachable = {} /\ FinishStops(c, j, f, js, Stopped(0), errors \/ unreachable(0) # {})
  <2>1. Stopped(0) \in [Tasks -> TaskStatus]
    BY <1>1
  <2>2. (errors \/ unreachable(0) # {}) \in BOOLEAN
    OBVIOUS
  <2> HIDE DEF Stopped, unreachable
  <2> QED
    BY <1>2, <2>1, <2>2, FinishStopsTyped
<1>3. ASSUME NEW i \in reachable,
             task' = [Stopped(i) EXCEPT ![D[i]] = "CANCELLING"],
             frame' = [frame EXCEPT ![c] = StopFrame(j, i, place[D[i]][1], f,
                                                     errors \/ unreachable(i) # {})],
             job' = js, UNCHANGED <<place, owner>>
      PROVE  StopTyped'
  <2>1. i \in 1..Len(D) /\ D[i] \in Tasks /\ place[D[i]] # NoPlace
    BY DeployOrderType
  <2>2. place[D[i]][1] \in Workers
    BY <2>1 DEF StopTyped, Places
  <2>3. task' \in [Tasks -> TaskStatus]
    BY <1>1, <1>3 DEF TaskStatus
  <2>4. PICK e \in BOOLEAN :
          frame' = [frame EXCEPT ![c] = StopFrame(j, i, place[D[i]][1], f, e)]
    BY <1>3
  <2>5. PICK w \in Workers :
          frame' = [frame EXCEPT ![c] = StopFrame(j, i, w, f, e)]
    BY <2>2, <2>4
  <2>6. /\ FrameOK(StopFrame(j, i, w, f, e))
        /\ StopFrame(j, i, w, f, e).pc = "stop"
    BY <2>1, DeployOrderType DEF StopFrame, FrameOf, FrameOK, Frames
  <2> QED
    BY <1>3, <2>3, <2>5, <2>6, FrameReplaced DEF StopTyped
<1> QED
  BY <1>2, <1>3 DEF StopTasks

\* _fail_run up to its next await keeps the types.
LEMMA FailRunTyped ==
  ASSUME StopTyped, NEW c \in Coroutines, NEW j \in Jobs, NEW f \in Tasks,
         NEW st \in [Tasks -> TaskStatus], NEW k \in 0..Len(DeployOrder[j]),
         FailRun(c, j, f, st, k)
  PROVE  StopTyped'
<1> DEFINE js == [job EXCEPT ![j] = IF @ \in {"DEPLOYING", "RUNNING", "CANCELLING"}
                                    THEN "FAILING" ELSE @]
           failed == [st EXCEPT ![f] = IF @ \in {"FAILED", "CANCELLED"}
                                       THEN @ ELSE "FAILED"]
<1>1. js \in [Jobs -> JobStatus]
  BY DEF StopTyped, JobStatus
<1>2. failed \in [Tasks -> TaskStatus]
  BY DEF TaskStatus
<1>3. StopTasks(c, j, f, js, failed, k, FALSE)
  BY DEF FailRun, DuringFailRun
<1> HIDE DEF js, failed
<1> QED
  BY <1>1, <1>2, <1>3, StopTasksTyped

\* TypeOK is StopTyped and the typing of the variables cleanups leave alone.
RestTyped ==
  /\ total \in [Workers -> 0..MaxSlots]
  /\ fresh \subseteq Workers
  /\ runs \in Seq(Jobs)
  /\ deployed \in [Jobs -> Nat]
  /\ \A j \in Jobs : deployed[j] \in 0..Len(DeployOrder[j])
  /\ sweep \in [next : Nat \ {0}, size : Nat, healthy : SUBSET Workers]
  /\ alive \subseteq Workers
  /\ host \in [Tasks -> Workers \cup {NoWorker}]
  /\ pending \subseteq Tasks
  /\ crashes \in 0..MaxCrashes

LEMMA TypeOKSplit == TypeOK <=> StopTyped /\ RestTyped
BY DEF TypeOK, StopTyped, RestTyped, FrameOK

LEMMA TypeOKSplitNext == TypeOK' <=> StopTyped' /\ RestTyped'
BY DEF TypeOK, StopTyped, RestTyped, FrameOK

\* What a suspended coroutine awaits is a task of the job it works for.
LEMMA AwaitedType ==
  ASSUME StopTyped, NEW c \in Coroutines, frame[c].pc \in {"deploy", "stop"}
  PROVE  /\ frame[c].job \in Jobs /\ frame[c].at \in 1..Len(DeployOrder[frame[c].job])
         /\ Awaited(c) \in Tasks /\ Awaited(c) \in TasksOf(frame[c].job)
         /\ frame[c].failed \in Tasks \cup {NoTask} /\ frame[c].worker \in Workers \cup {NoWorker}
         /\ frame[c].errors \in BOOLEAN
<1>1. frame[c].job \in Jobs /\ frame[c].at \in 1..Len(DeployOrder[frame[c].job])
  BY DEF StopTyped, FrameOK
<1> QED
  BY <1>1, DeployOrderType DEF StopTyped, Awaited, Frames

LEMMA InitTyped == Init => TypeOK
<1> SUFFICES ASSUME Init PROVE TypeOK
  OBVIOUS
<1>1. StopTyped
  <2>1. \A c \in Coroutines : frame[c] = Idle
    BY DEF Init
  <2>2. \A c \in Coroutines : FrameOK(frame[c]) /\ frame[c].pc = "idle"
    BY <2>1, RestFrames
  <2>3. Idle \in Frames
    BY RestFrames DEF FrameOK
  <2>4. /\ job \in [Jobs -> JobStatus]
        /\ task \in [Tasks -> TaskStatus]
        /\ place \in [Tasks -> Places \cup {NoPlace}]
        /\ owner \in [Workers -> [SlotIds -> Tasks \cup {NoTask}]]
    BY DEF Init, JobStatus, TaskStatus
  <2>5. frame \in [Coroutines -> Frames]
    BY <2>3 DEF Init
  <2> QED
    BY <2>2, <2>4, <2>5, CoroutineNames DEF StopTyped
<1>2. RestTyped
  BY DeployOrderType, SlotAssumption, EnvironmentAssumption
  DEF Init, RestTyped, NoSweep
<1> QED
  BY <1>1, <1>2, TypeOKSplit

\* Actions of the registry and of the workers: no coroutine of a job moves.
LEMMA WorldTyped ==
  ASSUME TypeOK,
         \/ \E w \in Workers : \/ Heartbeat(w) \/ HeartbeatExpires(w) \/ WorkerCrashes(w)
                               \/ \E n \in SlotCounts : RegisterWorker(w, n)
         \/ \E t \in Tasks : TaskFails(t) \/ ReportLost(t)
         \/ \E j \in Jobs : DeployReaches(j)
  PROVE  TypeOK'
<1>0. StopTyped /\ RestTyped
  BY TypeOKSplit
<1>1. ASSUME NEW w \in Workers, Heartbeat(w) \/ HeartbeatExpires(w) \/ WorkerCrashes(w)
      PROVE  TypeOK'
  <2>1. StopTyped'
    BY <1>0, <1>1 DEF Heartbeat, HeartbeatExpires, WorkerCrashes, StopTyped
  <2>2. CASE Heartbeat(w) \/ HeartbeatExpires(w)
    <3>1. RestTyped'
      BY <1>0, <2>2 DEF Heartbeat, HeartbeatExpires, RestTyped, worldVars
    <3> QED
      BY <2>1, <3>1, TypeOKSplitNext
  <2>3. CASE WorkerCrashes(w)
    <3>1. crashes' \in 0..MaxCrashes
      BY <1>0, <2>3, EnvironmentAssumption DEF WorkerCrashes, RestTyped
    <3>2. host' \in [Tasks -> Workers \cup {NoWorker}]
      BY <1>0, <2>3 DEF WorkerCrashes, RestTyped
    <3>3. RestTyped'
      BY <1>0, <2>3, <3>1, <3>2 DEF WorkerCrashes, RestTyped, registryVars
    <3> QED
      BY <2>1, <3>3, TypeOKSplitNext
  <2> QED
    BY <1>1, <2>2, <2>3
<1>2. ASSUME NEW w \in Workers, NEW n \in SlotCounts, RegisterWorker(w, n)
      PROVE  TypeOK'
  <2>1. RegisteredSlots(w) \in [SlotIds -> Tasks \cup {NoTask}]
    BY <1>0 DEF RegisteredSlots, StopTyped
  <2>2. StopTyped'
    BY <1>0, <1>2, <2>1 DEF RegisterWorker, StopTyped
  <2>3. n \in 0..MaxSlots
    BY SlotAssumption
  <2>4. RestTyped'
    BY <1>0, <1>2, <2>3 DEF RegisterWorker, RestTyped
  <2> QED
    BY <2>2, <2>4, TypeOKSplitNext
<1>3. ASSUME NEW t \in Tasks, TaskFails(t) \/ ReportLost(t)
      PROVE  TypeOK'
  <2>1. StopTyped'
    BY <1>0, <1>3 DEF TaskFails, ReportLost, StopTyped
  <2>2. RestTyped'
    BY <1>0, <1>3 DEF TaskFails, ReportLost, RestTyped, registryVars
  <2> QED
    BY <2>1, <2>2, TypeOKSplitNext
<1>4. ASSUME NEW j \in Jobs, DeployReaches(j)
      PROVE  TypeOK'
  <2> DEFINE c == Submit(j)
             fr == [frame[c] EXCEPT !.reached = TRUE]
  <2>1. c \in Coroutines /\ frame[c].pc = "deploy" /\ frame[c] \in Frames
    BY <1>0, <1>4, CoroutineNames DEF DeployReaches, StopTyped
  <2>2. fr \in Frames /\ fr.pc = frame[c].pc /\ fr.job = frame[c].job /\ fr.at = frame[c].at
    BY <2>1 DEF Frames
  <2>3. FrameOK(fr)
    BY <1>0, <2>1, <2>2 DEF FrameOK, StopTyped
  <2>4. \A i \in Jobs : c = Submit(i) => fr.job = i
    BY <1>0, <2>1, <2>2 DEF StopTyped
  <2>5. frame' = [frame EXCEPT ![c] = fr]
    BY <1>4 DEF DeployReaches
  <2> HIDE DEF fr
  <2>6. StopTyped'
    BY <1>0, <1>4, <2>1, <2>3, <2>4, <2>5, FrameReplaced DEF DeployReaches, StopTyped
  <2>7. frame[c].worker \in Workers \cup {NoWorker}
    BY <2>1 DEF Frames
  <2>8. RestTyped'
    BY <1>0, <1>4, <2>7 DEF DeployReaches, RestTyped, registryVars
  <2> QED
    BY <2>6, <2>8, TypeOKSplitNext
<1> QED
  BY <1>1, <1>2, <1>3, <1>4

\* submit_job up to its first await, and its rejection.
LEMMA SubmitTyped ==
  ASSUME TypeOK, NEW j \in Jobs, SubmitJob(j) \/ RejectJob(j)
  PROVE  TypeOK'
<1>0. StopTyped /\ RestTyped
  BY TypeOKSplit
<1>1. RestTyped'
  <2>1. runs \in Seq(Jobs) /\ runs' = Append(runs, j)
    BY <1>0 DEF RestTyped, SubmitJob, RejectJob
  <2>2. runs' \in Seq(Jobs)
    BY <2>1
  <2>3. UNCHANGED <<total, fresh, deployed, sweep, alive, host, pending, crashes>>
    BY DEF SubmitJob, RejectJob, registryVars, worldVars
  <2> QED
    BY <1>0, <2>2, <2>3 DEF RestTyped
<1>2. CASE RejectJob(j)
  BY <1>0, <1>1, <1>2, TypeOKSplitNext DEF RejectJob, StopTyped, JobStatus
<1>3. CASE SubmitJob(j)
  <2> DEFINE t == DeployOrder[j][1]
  <2>1. PICK p \in ValidPlacements(j) :
          /\ place' = [u \in Tasks |-> IF u \in TasksOf(j) THEN p[u] ELSE place[u]]
          /\ owner' = Reserved(j, p)
          /\ task' = [u \in Tasks |-> IF u = t THEN "DEPLOYING"
                                      ELSE IF u \in TasksOf(j) THEN "SCHEDULED"
                                      ELSE task[u]]
          /\ frame' = [frame EXCEPT ![Submit(j)] = DeployFrame(j, 1, p[t][1])]
    BY <1>3 DEF SubmitJob
  <2>2. p \in [TasksOf(j) -> Places]
    BY <1>0, <2>1, ValidPlacementsType DEF RestTyped
  <2>3. t \in TasksOf(j) /\ 1 \in 1..Len(DeployOrder[j])
    BY DeployOrderType
  <2>4. p[t][1] \in Workers
    BY <2>2, <2>3 DEF Places
  <2>5. place' \in [Tasks -> Places \cup {NoPlace}]
    BY <1>0, <2>1, <2>2 DEF StopTyped
  <2>6. owner' \in [Workers -> [SlotIds -> Tasks \cup {NoTask}]]
    BY <1>0, <2>1 DEF StopTyped, Reserved, TasksOf
  <2>7. task' \in [Tasks -> TaskStatus]
    BY <1>0, <2>1 DEF StopTyped, TaskStatus
  <2>8. job' \in [Jobs -> JobStatus]
    BY <1>0, <1>3 DEF SubmitJob, StopTyped, JobStatus
  <2> DEFINE fr == DeployFrame(j, 1, p[t][1])
  <2>9. FrameOK(fr) /\ fr.job = j
    BY <2>3, <2>4, DeployFrameShape
  <2>10. frame' = [frame EXCEPT ![Submit(j)] = fr]
    BY <2>1
  <2>11. \A i \in Jobs : Submit(j) = Submit(i) => fr.job = i
    BY <2>9, CoroutinesDiffer
  <2> HIDE DEF fr
  <2>12. StopTyped'
    BY <1>0, <2>5, <2>6, <2>7, <2>8, <2>9, <2>10, <2>11, FrameReplaced, CoroutineNames
    DEF StopTyped
  <2> QED
    BY <1>1, <2>12, TypeOKSplitNext
<1> QED
  BY <1>2, <1>3

\* The answers of deploy_task.
LEMMA DeployAnsweredTyped ==
  ASSUME TypeOK, NEW j \in Jobs, DeployAnswered(j)
  PROVE  TypeOK'
<1> DEFINE c == Submit(j)
<1>0. StopTyped /\ RestTyped
  BY TypeOKSplit
<1>1. c \in Coroutines /\ frame[c].pc = "deploy" /\ frame[c].job = j
  BY <1>0, CoroutineNames
  DEF DeployAnswered, DeployedTooLate, DeployedNext, DeployedLast, DeployFails, StopTyped
<1>2. /\ Awaited(c) \in Tasks
      /\ frame[c].at \in 1..Len(DeployOrder[j]) /\ frame[c].at \in 0..Len(DeployOrder[j])
  BY <1>0, <1>1, AwaitedType, DeployOrderType
<1>3. deployed[j] \in 0..Len(DeployOrder[j]) /\ task \in [Tasks -> TaskStatus]
  BY <1>0 DEF RestTyped, StopTyped
<1>4. CASE DeployedTooLate(j) \/ DeployFails(j)
  <2>1. StopTyped'
    BY <1>0, <1>1, <1>2, <1>3, <1>4, FailRunTyped DEF DeployedTooLate, DeployFails
  <2>2. RestTyped'
    BY <1>0, <1>4 DEF DeployedTooLate, DeployFails, RestTyped, registryVars, worldVars
  <2> QED
    BY <2>1, <2>2, TypeOKSplitNext
<1>5. CASE DeployedNext(j)
  <2> DEFINE k == frame[c].at
             next == DeployOrder[j][k + 1]
             st == [task EXCEPT ![Awaited(c)] = "RUNNING"]
  <2>1. k + 1 \in 1..Len(DeployOrder[j])
    <3>1. k < Len(DeployOrder[j])
      BY <1>5 DEF DeployedNext
    <3>2. Len(DeployOrder[j]) \in Nat
      BY DeployOrderType
    <3> QED
      BY <1>2, <3>1, <3>2
  <2>2. next \in Tasks
    BY <2>1, DeployOrderType
  <2>3. st \in [Tasks -> TaskStatus]
    BY <1>2, <1>3 DEF TaskStatus
  <2>4. RestTyped'
    <3>1. deployed' = [deployed EXCEPT ![j] = k] /\ UNCHANGED <<registryVars, runs, sweep, worldVars>>
      BY <1>5 DEF DeployedNext
    <3>2. deployed' \in [Jobs -> Nat] /\ \A i \in Jobs : deployed'[i] \in 0..Len(DeployOrder[i])
      BY <1>0, <1>2, <3>1, DeployOrderType DEF RestTyped
    <3> QED
      BY <1>0, <3>1, <3>2 DEF RestTyped, registryVars, worldVars
  <2>5. CASE FailRun(c, j, next, st, k)
    <3> HIDE DEF st, next
    <3>1. StopTyped'
      BY <1>0, <1>1, <1>2, <2>2, <2>3, <2>5, FailRunTyped
    <3> QED
      BY <2>4, <3>1, TypeOKSplitNext
  <2>6. CASE /\ st[next] = "SCHEDULED" /\ place[next] # NoPlace
             /\ task' = [st EXCEPT ![next] = "DEPLOYING"]
             /\ frame' = [frame EXCEPT ![c] = DeployFrame(j, k + 1, place[next][1])]
             /\ UNCHANGED <<job, place, owner>>
    <3>1. place[next][1] \in Workers
      BY <1>0, <2>2, <2>6 DEF StopTyped, Places
    <3>2. task' \in [Tasks -> TaskStatus]
      BY <2>3, <2>6 DEF TaskStatus
    <3> DEFINE fr == DeployFrame(j, k + 1, place[next][1])
    <3>3. FrameOK(fr) /\ fr.job = j
      BY <2>1, <3>1, DeployFrameShape
    <3>4. frame' = [frame EXCEPT ![c] = fr]
      BY <2>6
    <3>5. \A i \in Jobs : c = Submit(i) => fr.job = i
      BY <3>3, CoroutinesDiffer
    <3> HIDE DEF fr
    <3>6. StopTyped'
      BY <1>0, <1>1, <2>6, <3>2, <3>3, <3>4, <3>5, FrameReplaced DEF StopTyped
    <3> QED
      BY <2>4, <3>6, TypeOKSplitNext
  <2> QED
    BY <1>5, <2>5, <2>6 DEF DeployedNext
<1>6. CASE DeployedLast(j)
  <2>1. task' \in [Tasks -> TaskStatus] /\ job' \in [Jobs -> JobStatus]
    BY <1>0, <1>6 DEF DeployedLast, StopTyped, TaskStatus, JobStatus
  <2>2. frame' = [frame EXCEPT ![c] = Idle] /\ FrameOK(Idle) /\ Idle.pc # "deploy"
    BY <1>6, RestFrames DEF DeployedLast
  <2>3. StopTyped'
    BY <1>0, <1>1, <1>6, <2>1, <2>2, FrameReplaced DEF DeployedLast, StopTyped
  <2>4. RestTyped'
    BY <1>0, <1>2, <1>6 DEF DeployedLast, RestTyped, registryVars, worldVars
  <2> QED
    BY <2>3, <2>4, TypeOKSplitNext
<1> QED
  BY <1>4, <1>5, <1>6 DEF DeployAnswered

\* Cancelling, reports and the answers of stop_task.
LEMMA StopActionsTyped ==
  ASSUME TypeOK,
         \/ \E j \in Jobs : CancelJob(j)
         \/ \E t \in Tasks : \/ ReportArrives(t)
                             \/ \E s \in OtherReports : ReportOther(t, s)
         \/ \E c \in Coroutines : StopAnswered(c)
  PROVE  TypeOK'
<1>0. StopTyped /\ RestTyped
  BY TypeOKSplit
<1>1. ASSUME NEW j \in Jobs, CancelJob(j)
      PROVE  TypeOK'
  <2> DEFINE js == [job EXCEPT ![j] = "CANCELLING"]
  <2>1. js \in [Jobs -> JobStatus]
    BY <1>0 DEF StopTyped, JobStatus
  <2>2. StopTasks(Cancel(j), j, NoTask, js, task, deployed[j], FALSE)
    BY <1>1 DEF CancelJob
  <2>3. deployed[j] \in 0..Len(DeployOrder[j]) /\ task \in [Tasks -> TaskStatus]
    BY <1>0 DEF RestTyped, StopTyped
  <2> HIDE DEF js
  <2>4. StopTyped'
    BY <1>0, <2>1, <2>2, <2>3, CoroutineNames, StopTasksTyped
  <2>5. RestTyped'
    BY <1>0, <1>1 DEF CancelJob, RestTyped, registryVars, worldVars
  <2> QED
    BY <2>4, <2>5, TypeOKSplitNext
<1>2. ASSUME NEW t \in Tasks, ReportArrives(t)
      PROVE  TypeOK'
  <2>1. RestTyped'
    BY <1>0, <1>2 DEF ReportArrives, RestTyped, registryVars
  <2>2. CASE UNCHANGED <<job, task, place, owner, frame>>
    BY <1>0, <2>1, <2>2, TypeOKSplitNext DEF StopTyped
  <2>3. CASE FailRun(Report(t), JobOf[t], t, task, deployed[JobOf[t]])
    <3>1. JobOf[t] \in Jobs
      BY GraphAssumption
    <3>2. deployed[JobOf[t]] \in 0..Len(DeployOrder[JobOf[t]]) /\ task \in [Tasks -> TaskStatus]
      BY <1>0, <3>1 DEF RestTyped, StopTyped
    <3>3. StopTyped'
      BY <1>0, <2>3, <3>1, <3>2, CoroutineNames, FailRunTyped
    <3> QED
      BY <2>1, <3>3, TypeOKSplitNext
  <2> QED
    BY <1>2, <2>2, <2>3 DEF ReportArrives
<1>3. ASSUME NEW t \in Tasks, NEW s \in OtherReports, ReportOther(t, s)
      PROVE  TypeOK'
  <2>1. s \in TaskStatus
    BY ReportAssumption DEF TaskStatus
  <2>2. StopTyped'
    BY <1>0, <1>3, <2>1 DEF ReportOther, StopTyped, JobStatus
  <2>3. RestTyped'
    BY <1>0, <1>3 DEF ReportOther, RestTyped, registryVars, worldVars
  <2> QED
    BY <2>2, <2>3, TypeOKSplitNext
<1>4. ASSUME NEW c \in Coroutines, StopAnswered(c)
      PROVE  TypeOK'
  <2> DEFINE j == frame[c].job
             k == frame[c].at - 1
  <2>1. PICK s \in {"CANCELLED", "FAILED"} : StopReturns(c, s)
    BY <1>4 DEF StopAnswered, StopSucceeds, StopFails
  <2>2. frame[c].pc = "stop"
    BY <1>4 DEF StopAnswered, StopSucceeds, StopFails
  <2>3. /\ j \in Jobs /\ frame[c].at \in 1..Len(DeployOrder[j])
        /\ Awaited(c) \in Tasks /\ frame[c].failed \in Tasks \cup {NoTask}
        /\ frame[c].errors \in BOOLEAN
    BY <1>0, <2>2, AwaitedType
  <2>4. k \in 0..Len(DeployOrder[j])
    BY <2>3, DeployOrderType
  <2>5. RestTyped'
    <3>1. host' \in [Tasks -> Workers \cup {NoWorker}]
      BY <1>0, <1>4 DEF StopAnswered, StopSucceeds, StopFails, RestTyped
    <3>2. UNCHANGED <<total, fresh, runs, deployed, sweep, alive, pending, crashes>>
      BY <1>4 DEF StopAnswered, StopSucceeds, StopFails, registryVars
    <3> QED
      BY <1>0, <3>1, <3>2 DEF RestTyped
  <2>6. StopTyped'
    <3>1. CASE task[Awaited(c)] = "CANCELLING"
      <4> DEFINE st == [task EXCEPT ![Awaited(c)] = s]
                 e == frame[c].errors \/ s = "FAILED"
      <4>1. st \in [Tasks -> TaskStatus]
        BY <1>0 DEF StopTyped, TaskStatus
      <4>2. PICK b \in BOOLEAN : StopTasks(c, j, frame[c].failed, job, st, k, b)
        BY <2>1, <3>1 DEF StopReturns
      <4>3. job \in [Jobs -> JobStatus]
        BY <1>0 DEF StopTyped
      <4> HIDE DEF st
      <4> QED
        BY <1>0, <2>3, <2>4, <4>1, <4>2, <4>3, StopTasksTyped
    <3>2. CASE task[Awaited(c)] # "CANCELLING"
      <4>1. frame' = [frame EXCEPT ![c] = Idle] /\ UNCHANGED <<job, task, place, owner>>
        BY <2>1, <3>2 DEF StopReturns
      <4>2. FrameOK(Idle) /\ Idle.pc # "deploy"
        BY RestFrames
      <4> QED
        BY <1>0, <4>1, <4>2, FrameReplaced DEF StopTyped
    <3> QED
      BY <3>1, <3>2
  <2> QED
    BY <2>5, <2>6, TypeOKSplitNext
<1> QED
  BY <1>1, <1>2, <1>3, <1>4

\* The loop of reconcile_worker_health from entry n on.
LEMMA SweepTyped ==
  ASSUME TypeOK, NEW n \in Nat \ {0}, NEW healthy \in SUBSET Workers, Sweep(n, healthy),
         UNCHANGED <<registryVars, runs, deployed, worldVars>>
  PROVE  TypeOK'
<1>0. StopTyped /\ RestTyped
  BY TypeOKSplit
<1>1. runs \in Seq(Jobs) /\ Len(runs) \in Nat
  BY <1>0 DEF RestTyped
<1>2. CASE /\ frame' = [frame EXCEPT ![Reconcile] = Idle] /\ sweep' = NoSweep
           /\ UNCHANGED <<job, task, place, owner>>
  <2>1. FrameOK(Idle) /\ Idle.pc # "deploy"
    BY RestFrames
  <2>2. StopTyped'
    BY <1>0, <1>2, <2>1, FrameReplaced, CoroutineNames DEF StopTyped
  <2>3. RestTyped'
    BY <1>0, <1>2 DEF RestTyped, NoSweep, registryVars, worldVars
  <2> QED
    BY <2>2, <2>3, TypeOKSplitNext
<1>3. ASSUME NEW m \in n..Len(runs), NEW i \in Suspects(runs[m], healthy),
             FailRun(Reconcile, runs[m], TaskOrder[runs[m]][i], task, deployed[runs[m]]),
             sweep' = [next |-> m + 1, size |-> Len(runs), healthy |-> healthy]
      PROVE  TypeOK'
  <2>1. m \in Nat \ {0} /\ runs[m] \in Jobs
    BY <1>1
  <2>2. TaskOrder[runs[m]][i] \in Tasks
    BY <2>1, TaskOrderType DEF Suspects, TasksOf
  <2>3. deployed[runs[m]] \in 0..Len(DeployOrder[runs[m]]) /\ task \in [Tasks -> TaskStatus]
    BY <1>0, <2>1 DEF RestTyped, StopTyped
  <2>4. StopTyped'
    BY <1>0, <1>3, <2>1, <2>2, <2>3, CoroutineNames, FailRunTyped
  <2>5. sweep' \in [next : Nat \ {0}, size : Nat, healthy : SUBSET Workers]
    BY <1>1, <1>3, <2>1
  <2>6. RestTyped'
    BY <1>0, <2>5 DEF RestTyped, registryVars, worldVars
  <2> QED
    BY <2>4, <2>6, TypeOKSplitNext
<1> QED
  BY <1>2, <1>3 DEF Sweep

\* The health sweep, from its start and between two jobs.
LEMMA ReconcileTyped ==
  ASSUME TypeOK, SweepStarts \/ SweepResumes
  PROVE  TypeOK'
<1>0. StopTyped /\ RestTyped
  BY TypeOKSplit
<1>1. UNCHANGED <<registryVars, runs, deployed, worldVars>>
  BY DEF SweepStarts, SweepResumes
<1>2. sweep.next \in Nat \ {0} /\ sweep.healthy \in SUBSET Workers /\ fresh \in SUBSET Workers
  BY <1>0 DEF RestTyped
<1>3. CASE Sweep(1, fresh) \/ Sweep(sweep.next, sweep.healthy)
  BY <1>1, <1>2, <1>3, SweepTyped
<1>4. CASE /\ frame' = [frame EXCEPT ![Reconcile] = Idle] /\ sweep' = NoSweep
           /\ UNCHANGED <<job, task, place, owner>>
  <2>1. FrameOK(Idle) /\ Idle.pc # "deploy"
    BY RestFrames
  <2>2. StopTyped'
    BY <1>0, <1>4, <2>1, FrameReplaced, CoroutineNames DEF StopTyped
  <2>3. RestTyped'
    BY <1>0, <1>1, <1>4 DEF RestTyped, NoSweep, registryVars, worldVars
  <2> QED
    BY <2>2, <2>3, TypeOKSplitNext
<1> QED
  BY <1>3, <1>4 DEF SweepStarts, SweepResumes

\* Every step keeps the types.
LEMMA NextTyped == TypeOK /\ [Next]_vars => TypeOK'
<1> SUFFICES ASSUME TypeOK, [Next]_vars PROVE TypeOK'
  OBVIOUS
<1>1. CASE UNCHANGED vars
  BY <1>1 DEF vars, TypeOK
<1>2. CASE Next
  BY <1>2, WorldTyped, SubmitTyped, DeployAnsweredTyped, StopActionsTyped, ReconcileTyped
  DEF Next
<1> QED
  BY <1>1, <1>2

\* Every state the control plane reaches is well-typed, whatever the graph, the
\* workers, the failures and the order in which coroutines resume.
THEOREM TypeCorrect == Spec => []TypeOK
BY InitTyped, NextTyped, PTL DEF Spec

-----------------------------------------------------------------------------
(***************************************************************************)
(* Slots.  As far as slots go a step is one of four kinds: it takes slots  *)
(* for a job that has none, it turns a job away, it releases a job, or it  *)
(* leaves both books and the set of settled jobs alone.                    *)
(***************************************************************************)

Takes(j, p) ==
  /\ job[j] = "NONE"
  /\ p \in ValidPlacements(j)
  /\ job' = [job EXCEPT ![j] = "DEPLOYING"]
  /\ place' = [u \in Tasks |-> IF u \in TasksOf(j) THEN p[u] ELSE place[u]]
  /\ owner' = Reserved(j, p)

TurnsAway(j) ==
  /\ job[j] = "NONE"
  /\ job' = [job EXCEPT ![j] = "REJECTED"]
  /\ UNCHANGED <<place, owner>>

Releases(j) ==
  /\ place' = ReleasedPlaces(j)
  /\ owner' = ReleasedSlots(j)
  /\ \A k \in Jobs \ {j} : job'[k] = job[k]
  /\ job'[j] = "NONE" <=> job[j] = "NONE"

KeepsSlots ==
  /\ UNCHANGED <<place, owner>>
  /\ \A j \in Jobs : job'[j] # job[j] =>
       job[j] # "NONE" /\ job'[j] \notin Settled \cup {"NONE"}

SlotStep ==
  \/ \E j \in Jobs : \/ TurnsAway(j) \/ Releases(j)
                     \/ \E p \in ValidPlacements(j) : Takes(j, p)
  \/ KeepsSlots

\* Stopping tasks of job j either keeps the slots or releases the job.
LEMMA StopTasksSlots ==
  ASSUME StopTyped, NEW c \in Coroutines, NEW j \in Jobs, NEW f,
         NEW js \in [Jobs -> JobStatus], NEW st, NEW k, NEW errors,
         \A i \in Jobs \ {j} : js[i] = job[i],
         js[j] # job[j] => job[j] # "NONE" /\ js[j] \notin Settled \cup {"NONE"},
         StopTasks(c, j, f, js, st, k, errors)
  PROVE  SlotStep
<1>1. CASE job' = js /\ UNCHANGED <<place, owner>>
  <2>1. KeepsSlots
    BY <1>1 DEF KeepsSlots
  <2> QED
    BY <2>1 DEF SlotStep
<1>2. ASSUME NEW e, NEW s, FinishStops(c, j, f, js, s, e)
      PROVE  SlotStep
  <2>1. job' = [js EXCEPT ![j] = IF c = Cancel(j) THEN AfterCancel(js[j], e)
                                                  ELSE AfterFailRun(js[j])]
    BY <1>2 DEF FinishStops
  <2>2. \A i \in Jobs \ {j} : job'[i] = job[i]
    BY <2>1
  <2>3. job'[j] = "NONE" <=> job[j] = "NONE"
    BY <2>1 DEF AfterCancel, AfterFailRun
  <2>4. Releases(j)
    BY <1>2, <2>2, <2>3 DEF Releases, FinishStops
  <2> QED
    BY <2>4 DEF SlotStep
<1> QED
  BY <1>1, <1>2 DEF StopTasks

\* So does _fail_run.
LEMMA FailRunSlots ==
  ASSUME StopTyped, NEW c \in Coroutines, NEW j \in Jobs, NEW f, NEW st, NEW k,
         FailRun(c, j, f, st, k)
  PROVE  SlotStep
<1> DEFINE js == [job EXCEPT ![j] = IF @ \in {"DEPLOYING", "RUNNING", "CANCELLING"}
                                    THEN "FAILING" ELSE @]
<1>1. js \in [Jobs -> JobStatus] /\ \A i \in Jobs \ {j} : js[i] = job[i]
  BY DEF StopTyped, JobStatus
<1>2. js[j] # job[j] => job[j] # "NONE" /\ js[j] \notin Settled \cup {"NONE"}
  BY DEF StopTyped, Settled
<1>3. PICK s : StopTasks(c, j, f, js, s, k, FALSE)
  BY DEF FailRun, DuringFailRun
<1> HIDE DEF js
<1> QED
  BY <1>1, <1>2, <1>3, StopTasksSlots

\* Registering a worker again never changes who owns its slots: a table that is
\* replaced was empty.
LEMMA RegisterKeepsOwners ==
  ASSUME StopTyped, NEW w \in Workers, NEW n, RegisterWorker(w, n)
  PROVE  owner' = owner
<1>1. owner \in [Workers -> [SlotIds -> Tasks \cup {NoTask}]]
  BY DEF StopTyped
<1>2. ~InUse(w) => owner[w] = [i \in SlotIds |-> NoTask]
  BY <1>1 DEF InUse
<1>3. RegisteredSlots(w) = owner[w]
  BY <1>2 DEF RegisteredSlots
<1> QED
  BY <1>1, <1>3 DEF RegisterWorker

\* Every step is of one of the four kinds.
LEMMA NextSlots ==
  ASSUME TypeOK, [Next]_vars
  PROVE  SlotStep
<1>0. StopTyped /\ RestTyped
  BY TypeOKSplit
<1>1. ASSUME UNCHANGED <<job, place, owner>> PROVE SlotStep
  BY <1>1 DEF SlotStep, KeepsSlots
<1>2. CASE UNCHANGED vars
  BY <1>1, <1>2 DEF vars
<1>3. ASSUME NEW j \in Jobs, SubmitJob(j) PROVE SlotStep
  BY <1>3 DEF SubmitJob, SlotStep, Takes
<1>4. ASSUME NEW j \in Jobs, RejectJob(j) PROVE SlotStep
  BY <1>4 DEF RejectJob, SlotStep, TurnsAway
<1>5. ASSUME NEW j \in Jobs, CancelJob(j) PROVE SlotStep
  <2> DEFINE js == [job EXCEPT ![j] = "CANCELLING"]
  <2>1. js \in [Jobs -> JobStatus] /\ \A i \in Jobs \ {j} : js[i] = job[i]
    BY <1>0 DEF StopTyped, JobStatus
  <2>2. job[j] # "NONE" /\ js[j] \notin Settled \cup {"NONE"}
    BY <1>0, <1>5 DEF CancelJob, StopTyped, Settled
  <2>3. StopTasks(Cancel(j), j, NoTask, js, task, deployed[j], FALSE)
    BY <1>5 DEF CancelJob
  <2> HIDE DEF js
  <2> QED
    BY <1>0, <2>1, <2>2, <2>3, CoroutineNames, StopTasksSlots
<1>6. ASSUME NEW j \in Jobs, DeployReaches(j) PROVE SlotStep
  BY <1>1, <1>6 DEF DeployReaches
<1>7. ASSUME NEW j \in Jobs, DeployAnswered(j) PROVE SlotStep
  <2>1. CASE \E f, st, k : FailRun(Submit(j), j, f, st, k)
    BY <1>0, <2>1, CoroutineNames, FailRunSlots
  <2>2. CASE UNCHANGED <<job, place, owner>>
    BY <1>1, <2>2
  <2>3. CASE DeployedLast(j)
    <3>1. KeepsSlots
      BY <1>0, <2>3 DEF DeployedLast, KeepsSlots, StopTyped, Settled
    <3> QED
      BY <3>1 DEF SlotStep
  <2> QED
    BY <1>7, <2>1, <2>2, <2>3
    DEF DeployAnswered, DeployedTooLate, DeployedNext, DeployFails
<1>8. ASSUME NEW t \in Tasks, TaskFails(t) \/ ReportLost(t) PROVE SlotStep
  BY <1>1, <1>8 DEF TaskFails, ReportLost
<1>9. ASSUME NEW t \in Tasks, ReportArrives(t) PROVE SlotStep
  BY <1>0, <1>1, <1>9, CoroutineNames, GraphAssumption, FailRunSlots DEF ReportArrives
<1>10. ASSUME NEW t \in Tasks, NEW s \in OtherReports, ReportOther(t, s) PROVE SlotStep
  <2>1. JobOf[t] \in Jobs
    BY GraphAssumption
  <2>2. KeepsSlots
    BY <1>0, <1>10, <2>1 DEF ReportOther, KeepsSlots, StopTyped, Settled
  <2> QED
    BY <2>2 DEF SlotStep
<1>11. ASSUME NEW c \in Coroutines, StopAnswered(c) PROVE SlotStep
  <2>1. PICK s \in {"CANCELLED", "FAILED"} : StopReturns(c, s)
    BY <1>11 DEF StopAnswered, StopSucceeds, StopFails
  <2>2. frame[c].job \in Jobs /\ job \in [Jobs -> JobStatus]
    BY <1>0, <1>11, AwaitedType DEF StopAnswered, StopSucceeds, StopFails, StopTyped
  <2>3. CASE UNCHANGED <<job, place, owner>>
    BY <1>1, <2>3
  <2>4. CASE \E f, st, k, e : StopTasks(c, frame[c].job, f, job, st, k, e)
    BY <1>0, <2>2, <2>4, StopTasksSlots
  <2> QED
    BY <2>1, <2>3, <2>4 DEF StopReturns
<1>12. ASSUME NEW w \in Workers, Heartbeat(w) \/ HeartbeatExpires(w) \/ WorkerCrashes(w)
       PROVE  SlotStep
  BY <1>1, <1>12 DEF Heartbeat, HeartbeatExpires, WorkerCrashes
<1>13. ASSUME NEW w \in Workers, NEW n \in SlotCounts, RegisterWorker(w, n) PROVE SlotStep
  BY <1>0, <1>1, <1>13, RegisterKeepsOwners DEF RegisterWorker
<1>14. CASE SweepStarts \/ SweepResumes
  <2>1. CASE UNCHANGED <<job, place, owner>>
    BY <1>1, <2>1
  <2>2. ASSUME NEW n \in Nat \ {0}, NEW h, Sweep(n, h) PROVE SlotStep
    <3>1. ASSUME NEW m \in n..Len(runs), NEW f, NEW st, NEW k,
                 FailRun(Reconcile, runs[m], f, st, k)
          PROVE  SlotStep
      <4>1. runs[m] \in Jobs
        BY <1>0 DEF RestTyped
      <4> QED
        BY <1>0, <3>1, <4>1, CoroutineNames, FailRunSlots
    <3> QED
      BY <1>1, <2>2, <3>1 DEF Sweep
  <2>3. sweep.next \in Nat \ {0}
    BY <1>0 DEF RestTyped
  <2> QED
    BY <1>14, <2>1, <2>2, <2>3 DEF SweepStarts, SweepResumes
<1> QED
  BY <1>2, <1>3, <1>4, <1>5, <1>6, <1>7, <1>8, <1>9, <1>10, <1>11, <1>12, <1>13, <1>14
  DEF Next

\* The inductive invariant of the slots: both books agree, and a job outside its
\* lease, not yet scheduled or settled, holds nothing.
NothingOutsideLease ==
  \A t \in Tasks : job[JobOf[t]] \in Settled \cup {"NONE"} => place[t] = NoPlace

SlotInv == SlotBooksAgree /\ NothingOutsideLease

\* What a placement gives the tasks of its job, in terms a proof can use.
LEMMA PlacementFacts ==
  ASSUME TypeOK, SlotBooksAgree, NEW j \in Jobs, NEW p \in ValidPlacements(j)
  PROVE  /\ p \in [TasksOf(j) -> Places]
         /\ \A t, u \in TasksOf(j) : p[t] = p[u] => t = u
         /\ \A t \in TasksOf(j) : owner[p[t][1]][p[t][2]] = NoTask
         /\ \A t \in TasksOf(j), u \in Tasks : place[u] # p[t]
<1>1. /\ p \in [TasksOf(j) -> Places]
      /\ \A t, u \in TasksOf(j) : p[t] = p[u] => t = u
      /\ \A t \in TasksOf(j) : p[t][2] \in FreeSlots(p[t][1])
  BY ValidPlacementsType DEF TypeOK
<1>2. \A t \in TasksOf(j) : owner[p[t][1]][p[t][2]] = NoTask
  BY <1>1 DEF FreeSlots
<1>3. ASSUME NEW t \in TasksOf(j), NEW u \in Tasks, place[u] = p[t] PROVE FALSE
  <2>1. p[t][1] \in Workers /\ p[t][2] \in SlotIds /\ p[t] = <<p[t][1], p[t][2]>>
    BY <1>1 DEF Places
  <2>2. owner[p[t][1]][p[t][2]] = u
    BY <1>3, <2>1 DEF SlotBooksAgree
  <2> QED
    BY <1>2, <2>2, MarkerAssumption
<1> QED
  BY <1>1, <1>2, <1>3

\* Taking slots keeps the books in agreement.
LEMMA TakesAgree ==
  ASSUME TypeOK, SlotInv, NEW j \in Jobs, NEW p \in ValidPlacements(j), Takes(j, p)
  PROVE  SlotBooksAgree'
<1> SUFFICES ASSUME NEW t \in Tasks, NEW w \in Workers, NEW i \in SlotIds
             PROVE  owner'[w][i] = t <=> place'[t] = <<w, i>>
  BY DEF SlotBooksAgree
<1>1. /\ p \in [TasksOf(j) -> Places]
      /\ \A u, v \in TasksOf(j) : p[u] = p[v] => u = v
      /\ \A u \in TasksOf(j) : owner[p[u][1]][p[u][2]] = NoTask
      /\ \A u \in TasksOf(j), v \in Tasks : place[v] # p[u]
  BY PlacementFacts DEF SlotInv
<1>2. owner[w][i] = t <=> place[t] = <<w, i>>
  BY DEF SlotInv, SlotBooksAgree
<1>3. place'[t] = IF t \in TasksOf(j) THEN p[t] ELSE place[t]
  BY DEF Takes
<1>4. CASE \E u \in TasksOf(j) : p[u] = <<w, i>>
  <2>1. PICK u \in TasksOf(j) : p[u] = <<w, i>> /\ owner'[w][i] = u
    BY <1>4 DEF Takes, Reserved
  <2>2. place'[t] = <<w, i>> <=> t = u
    BY <1>1, <1>3, <2>1 DEF TasksOf
  <2> QED
    BY <2>1, <2>2
<1>5. CASE ~ \E u \in TasksOf(j) : p[u] = <<w, i>>
  <2>1. owner'[w][i] = owner[w][i]
    BY <1>5 DEF Takes, Reserved
  <2>2. CASE t \in TasksOf(j)
    <3>1. JobOf[t] = j /\ job[j] = "NONE"
      BY <2>2 DEF TasksOf, Takes
    <3>2. place[t] = NoPlace
      BY <3>1 DEF SlotInv, NothingOutsideLease
    <3>3. place[t] # <<w, i>>
      BY <3>2, MarkerAssumption DEF NoPlace
    <3> QED
      BY <1>2, <1>3, <1>5, <2>1, <2>2, <3>3
  <2> QED
    BY <1>2, <1>3, <2>1, <2>2
<1> QED
  BY <1>4, <1>5

\* Releasing a job keeps the books in agreement.
LEMMA ReleasesAgree ==
  ASSUME TypeOK, SlotBooksAgree, NEW j \in Jobs, Releases(j)
  PROVE  SlotBooksAgree'
<1> SUFFICES ASSUME NEW t \in Tasks, NEW w \in Workers, NEW i \in SlotIds
             PROVE  owner'[w][i] = t <=> place'[t] = <<w, i>>
  BY DEF SlotBooksAgree
<1>1. owner[w][i] = t <=> place[t] = <<w, i>>
  BY DEF SlotBooksAgree
<1>2. place'[t] = IF t \in TasksOf(j) THEN NoPlace ELSE place[t]
  BY DEF Releases, ReleasedPlaces
<1>3. owner'[w][i] = IF \E u \in TasksOf(j) : owner[w][i] = u /\ place[u][1] = w
                     THEN NoTask ELSE owner[w][i]
  BY DEF Releases, ReleasedSlots
<1>4. NoPlace # <<w, i>> /\ NoTask # t
  BY MarkerAssumption DEF NoPlace
<1>5. CASE t \in TasksOf(j)
  BY <1>1, <1>2, <1>3, <1>4, <1>5
<1>6. CASE t \notin TasksOf(j)
  BY <1>1, <1>2, <1>3, <1>4, <1>6
<1> QED
  BY <1>5, <1>6

\* Every step keeps the slot invariant.
LEMMA NextSlotInv ==
  ASSUME TypeOK, SlotInv, [Next]_vars
  PROVE  SlotInv'
<1>0. job \in [Jobs -> JobStatus] /\ \A t \in Tasks : JobOf[t] \in Jobs
  BY GraphAssumption DEF TypeOK
<1>1. CASE KeepsSlots
  BY <1>0, <1>1 DEF KeepsSlots, SlotInv, SlotBooksAgree, NothingOutsideLease
<1>2. ASSUME NEW j \in Jobs, TurnsAway(j) PROVE SlotInv'
  BY <1>0, <1>2 DEF TurnsAway, SlotInv, SlotBooksAgree, NothingOutsideLease
<1>3. ASSUME NEW j \in Jobs, NEW p \in ValidPlacements(j), Takes(j, p) PROVE SlotInv'
  <2>1. NothingOutsideLease'
    BY <1>0, <1>3 DEF Takes, SlotInv, NothingOutsideLease, Settled, TasksOf
  <2> QED
    BY <1>3, <2>1, TakesAgree DEF SlotInv
<1>4. ASSUME NEW j \in Jobs, Releases(j) PROVE SlotInv'
  <2>1. NothingOutsideLease'
    BY <1>0, <1>4 DEF Releases, ReleasedPlaces, SlotInv, NothingOutsideLease, TasksOf
  <2> QED
    BY <1>4, <2>1, ReleasesAgree DEF SlotInv
<1> QED
  BY <1>1, <1>2, <1>3, <1>4, NextSlots DEF SlotStep

LEMMA InitSlotInv == Init => SlotInv
BY MarkerAssumption DEF Init, SlotInv, SlotBooksAgree, NothingOutsideLease, NoPlace

LEMMA SlotInvHolds == Spec => [](TypeOK /\ SlotInv)
<1>1. Init => TypeOK /\ SlotInv
  BY InitTyped, InitSlotInv
<1>2. TypeOK /\ SlotInv /\ [Next]_vars => (TypeOK /\ SlotInv)'
  BY NextTyped, NextSlotInv
<1> QED
  BY <1>1, <1>2, PTL DEF Spec

\* The registry's slot tables and the tasks' placements always agree, for any
\* number of jobs, workers and racing cleanups.
THEOREM SlotBooksCorrect == Spec => []SlotBooksAgree
<1>1. TypeOK /\ SlotInv => SlotBooksAgree
  BY DEF SlotInv
<1> QED
  BY <1>1, SlotInvHolds, PTL

\* A settled job never holds a slot: nothing leaks when cleanups race.
THEOREM SettledJobsReleased == Spec => []SettledJobsHoldNoSlots
<1>1. TypeOK /\ SlotInv => SettledJobsHoldNoSlots
  BY DEF SlotInv, NothingOutsideLease, SettledJobsHoldNoSlots
<1> QED
  BY <1>1, SlotInvHolds, PTL

-----------------------------------------------------------------------------
(* JobManager implements SlotLease *)

Phases == [j \in Jobs |-> LeasePhase(j)]

\* A step of one of the four kinds is a step of SlotLease or changes nothing of it.
LEMMA StepImplementsLease ==
  ASSUME TypeOK, SlotInv, SlotStep
  PROVE  [Lease!Next]_<<place, Phases>>
<1>0. /\ \A j \in Jobs : Lease!TasksOf(j) = TasksOf(j)
      /\ \A j \in Jobs : \A t \in TasksOf(j) : t \in Tasks /\ JobOf[t] = j
      /\ \A t \in Tasks : JobOf[t] \in Jobs
      /\ \A j \in Jobs : TasksOf(j) # {}
  BY GraphAssumption DEF Lease!TasksOf, TasksOf
<1>1. place \in [Tasks -> Places \cup {NoPlace}] /\ job \in [Jobs -> JobStatus]
  BY DEF TypeOK
<1>2. CASE KeepsSlots
  <2>1. \A j \in Jobs : LeasePhase(j)' = LeasePhase(j)
    BY <1>2 DEF KeepsSlots, LeasePhase
  <2>2. Phases' = Phases
    BY <2>1 DEF Phases
  <2> QED
    BY <1>2, <2>2 DEF KeepsSlots
<1>3. ASSUME NEW j \in Jobs, TurnsAway(j) PROVE Lease!Next
  <2>1. \A t \in TasksOf(j) : place[t] = NoPlace
    BY <1>0, <1>3 DEF TurnsAway, SlotInv, NothingOutsideLease
  <2>2. LeasePhase(j) = "waiting" /\ LeasePhase(j)' = "over"
    BY <1>1, <1>3, <2>1 DEF TurnsAway, LeasePhase
  <2>3. \A k \in Jobs \ {j} : LeasePhase(k)' = LeasePhase(k)
    BY <1>3 DEF TurnsAway, LeasePhase
  <2>4. Phases' = [Phases EXCEPT ![j] = "over"]
    BY <2>2, <2>3 DEF Phases
  <2>5. Lease!Refuse(j)
    BY <1>3, <2>2, <2>4 DEF Lease!Refuse, TurnsAway, Phases
  <2> QED
    BY <2>5 DEF Lease!Next
<1>4. ASSUME NEW j \in Jobs, NEW p \in ValidPlacements(j), Takes(j, p) PROVE Lease!Next
  <2>1. /\ p \in [TasksOf(j) -> Places]
        /\ \A t, u \in TasksOf(j) : p[t] = p[u] => t = u
        /\ \A t \in TasksOf(j), u \in Tasks : place[u] # p[t]
    BY PlacementFacts DEF SlotInv
  <2>2. \A t \in Tasks : place'[t] = IF t \in TasksOf(j) THEN p[t] ELSE place[t]
    BY <1>4 DEF Takes
  <2>3. place' \in [Tasks -> Places \cup {NoPlace}]
    BY <1>1, <1>4, <2>1 DEF Takes
  <2>4. LeasePhase(j) = "waiting" /\ LeasePhase(j)' = "holding"
    BY <1>0, <1>1, <1>4, <2>1, <2>2, NoPlaceIsNoPlace DEF Takes, LeasePhase
  <2>5. ASSUME NEW k \in Jobs \ {j} PROVE LeasePhase(k)' = LeasePhase(k)
    <3>1. \A t \in TasksOf(k) : place'[t] = place[t]
      BY <1>0, <2>2
    <3>2. job'[k] = job[k]
      BY <1>4 DEF Takes
    <3> QED
      BY <3>1, <3>2 DEF LeasePhase
  <2>6. Phases' = [Phases EXCEPT ![j] = "holding"]
    BY <2>4, <2>5 DEF Phases
  <2>7. \A t \in TasksOf(j) : /\ place'[t] \in Places
                              /\ \A u \in Tasks : place'[u] = place'[t] => u = t
    BY <1>0, <2>1, <2>2
  <2>8. Lease!Grant(j)
    BY <1>0, <2>2, <2>3, <2>4, <2>6, <2>7 DEF Lease!Grant, Phases
  <2> QED
    BY <2>8 DEF Lease!Next
<1>5. ASSUME NEW j \in Jobs, Releases(j) PROVE [Lease!Next]_<<place, Phases>>
  <2>1. place' = [t \in Tasks |-> IF t \in TasksOf(j) THEN NoPlace ELSE place[t]]
    BY <1>5 DEF Releases, ReleasedPlaces
  <2>2. \A k \in Jobs \ {j} : LeasePhase(k)' = LeasePhase(k)
    BY <1>0, <1>5, <2>1 DEF Releases, LeasePhase
  <2>3. CASE LeasePhase(j) = "holding"
    <3>1. LeasePhase(j)' = "over"
      BY <1>0, <1>5, <2>1, <2>3 DEF Releases, LeasePhase
    <3>2. Phases' = [Phases EXCEPT ![j] = "over"]
      BY <2>2, <3>1 DEF Phases
    <3>3. Lease!GiveBack(j)
      BY <1>0, <2>1, <2>3, <3>2 DEF Lease!GiveBack, Phases
    <3> QED
      BY <3>3 DEF Lease!Next
  <2>4. CASE LeasePhase(j) # "holding"
    <3>1. \A t \in TasksOf(j) : place[t] = NoPlace
      BY <1>0, <2>4 DEF LeasePhase, SlotInv, NothingOutsideLease
    <3>2. place' = place
      BY <1>0, <1>1, <2>1, <3>1
    <3>3. LeasePhase(j)' = LeasePhase(j)
      BY <1>5, <3>2 DEF Releases, LeasePhase
    <3>4. Phases' = Phases
      BY <2>2, <3>3 DEF Phases
    <3> QED
      BY <3>2, <3>4
  <2> QED
    BY <2>3, <2>4
<1> QED
  BY <1>2, <1>3, <1>4, <1>5 DEF SlotStep

\* The initial state maps to an initial state of SlotLease.
LEMMA InitImplementsLease == Init => Lease!Init
BY DEF Init, Lease!Init, LeasePhase

\* Through every interleaving of submissions, cancels, failure reports and health
\* sweeps the job manager hands out and takes back slots as SlotLease says.
THEOREM LeaseImplemented == Spec => ImplementsSlotLease
<1>1. TypeOK /\ SlotInv /\ [Next]_vars => [Lease!Next]_<<place, Phases>>
  BY NextSlots, StepImplementsLease
<1>2. TypeOK /\ SlotInv /\ [Next]_vars
        => [Lease!Next]_<<place, [j \in Jobs |-> LeasePhase(j)]>>
  BY <1>1 DEF Phases
<1> QED
  BY <1>2, InitImplementsLease, SlotInvHolds, PTL DEF Spec, ImplementsSlotLease, Lease!Spec

-----------------------------------------------------------------------------
(***************************************************************************)
(* Deployment.  The statuses of a job in DEPLOYING or RUNNING say exactly  *)
(* how far its deployment is, because whoever stops a task of the job has  *)
(* first moved the job on.  Reports other than FAILED would break this.    *)
(***************************************************************************)

Untouched == {"NONE", "DEPLOYING", "RUNNING"}

StopsOnlyMovedOn ==
  \A c \in Coroutines : frame[c].pc = "stop" => job[frame[c].job] \notin Untouched

DeploysOnlyKnown ==
  \A j \in Jobs : frame[Submit(j)].pc = "deploy" => job[j] # "NONE"

WorkersKnowOnlyKnown ==
  \A t \in Tasks : host[t] # NoWorker \/ t \in pending => job[JobOf[t]] # "NONE"

DeployInv ==
  /\ StopsOnlyMovedOn
  /\ DeploysOnlyKnown
  /\ WorkersKnowOnlyKnown
  /\ DownstreamFirst
  /\ RunningJobsAreWhole

\* What a cleanup of job j by coroutine c may change before its next await.
CleansUp(c, j) ==
  /\ job'[j] \notin Untouched
  /\ \A k \in Jobs \ {j} : job'[k] = job[k]
  /\ \A t \in Tasks \ TasksOf(j) : task'[t] = task[t] /\ place'[t] = place[t]
  /\ \A d \in Coroutines \ {c} : frame'[d] = frame[d]
  /\ frame'[c].pc # "deploy"
  /\ frame'[c].pc = "stop" => frame'[c].job = j

\* _stop_tasks stays within the job it cleans up.
LEMMA StopTasksCleansUp ==
  ASSUME StopTyped, NEW c \in Coroutines, NEW j \in Jobs, NEW f,
         NEW js \in [Jobs -> JobStatus], NEW st \in [Tasks -> TaskStatus],
         NEW k \in 0..Len(DeployOrder[j]), NEW errors,
         js[j] \notin Untouched, \A i \in Jobs \ {j} : js[i] = job[i],
         \A t \in Tasks \ TasksOf(j) : st[t] = task[t],
         StopTasks(c, j, f, js, st, k, errors)
  PROVE  CleansUp(c, j)
<1> DEFINE D == DeployOrder[j]
           due == {i \in 1..k : D[i] # f /\ st[D[i]] \in Stoppable}
           reachable == {i \in due : place[D[i]] # NoPlace}
           unreachable(n) == {D[i] : i \in {m \in due : m > n}}
           Stopped(n) == [t \in Tasks |-> IF t \in unreachable(n) THEN "FAILED" ELSE st[t]]
<1>0. \A i \in due : D[i] \in TasksOf(j)
  BY DeployOrderType
<1>1. \A n : \A t \in Tasks \ TasksOf(j) : Stopped(n)[t] = task[t]
  BY <1>0
<1>2. frame \in [Coroutines -> Frames]
  BY DEF StopTyped
<1>3. CASE reachable = {} /\ FinishStops(c, j, f, js, Stopped(0), errors \/ unreachable(0) # {})
  <2> DEFINE e == errors \/ unreachable(0) # {}
             s == Stopped(0)
  <2>1. \A t \in Tasks \ TasksOf(j) : s[t] = task[t]
    BY <1>1
  <2>2. FinishStops(c, j, f, js, s, e)
    BY <1>3
  <2> HIDE DEF e, s
  <2>3. \A t \in Tasks \ TasksOf(j) : task'[t] = task[t] /\ place'[t] = place[t]
    BY <2>1, <2>2 DEF FinishStops, ReleasedPlaces
  <2>4. job'[j] \notin Untouched /\ \A i \in Jobs \ {j} : job'[i] = job[i]
    BY <2>2 DEF FinishStops, AfterCancel, AfterFailRun, Untouched
  <2>5. PICK fr \in {Idle, Sweeping} : frame' = [frame EXCEPT ![c] = fr]
    BY <2>2 DEF FinishStops
  <2>6. fr.pc \notin {"deploy", "stop"}
    BY <2>5, RestFrames
  <2> QED
    BY <1>2, <2>3, <2>4, <2>5, <2>6 DEF CleansUp
<1>4. ASSUME NEW i \in reachable,
             task' = [Stopped(i) EXCEPT ![D[i]] = "CANCELLING"],
             frame' = [frame EXCEPT ![c] = StopFrame(j, i, place[D[i]][1], f,
                                                     errors \/ unreachable(i) # {})],
             job' = js, UNCHANGED <<place, owner>>
      PROVE  CleansUp(c, j)
  <2>1. \A t \in Tasks \ TasksOf(j) : task'[t] = task[t]
    BY <1>0, <1>1, <1>4
  <2>2. PICK w, e : frame' = [frame EXCEPT ![c] = StopFrame(j, i, w, f, e)]
    BY <1>4
  <2>3. /\ frame'[c].pc = "stop" /\ frame'[c].job = j
        /\ \A d \in Coroutines \ {c} : frame'[d] = frame[d]
    BY <1>2, <2>2 DEF StopFrame, FrameOf
  <2> QED
    BY <1>4, <2>1, <2>3 DEF CleansUp
<1> QED
  BY <1>3, <1>4 DEF StopTasks

\* _fail_run stays within the job it fails.
LEMMA FailRunCleansUp ==
  ASSUME StopTyped, NEW c \in Coroutines, NEW j \in Jobs, NEW f \in TasksOf(j),
         NEW st \in [Tasks -> TaskStatus], NEW k \in 0..Len(DeployOrder[j]),
         job[j] # "NONE", \A t \in Tasks \ TasksOf(j) : st[t] = task[t],
         FailRun(c, j, f, st, k)
  PROVE  CleansUp(c, j)
<1> DEFINE js == [job EXCEPT ![j] = IF @ \in {"DEPLOYING", "RUNNING", "CANCELLING"}
                                    THEN "FAILING" ELSE @]
           failed == [st EXCEPT ![f] = IF @ \in {"FAILED", "CANCELLED"}
                                       THEN @ ELSE "FAILED"]
<1>1. /\ js \in [Jobs -> JobStatus] /\ js[j] \notin Untouched
      /\ \A i \in Jobs \ {j} : js[i] = job[i]
  BY DEF StopTyped, JobStatus, Untouched
<1>2. /\ failed \in [Tasks -> TaskStatus]
      /\ \A t \in Tasks \ TasksOf(j) : failed[t] = task[t]
  BY DEF TaskStatus
<1>3. StopTasks(c, j, f, js, failed, k, FALSE)
  BY DEF FailRun, DuringFailRun
<1> HIDE DEF js, failed
<1> QED
  BY <1>1, <1>2, <1>3, StopTasksCleansUp

\* A cleanup keeps the deployment invariant: of its own job, which it has moved on,
\* nothing is claimed, and it touches no other.
LEMMA CleanupKeepsDeployInv ==
  ASSUME TypeOK, DeployInv, NEW c \in Coroutines, NEW j \in Jobs, CleansUp(c, j),
         \A k \in Jobs \ {j} : c = Submit(k) => frame[c].pc # "deploy",
         \A t \in Tasks : host'[t] # NoWorker => host[t] # NoWorker,
         pending' \subseteq pending
  PROVE  DeployInv'
<1>1. StopsOnlyMovedOn'
  <2> SUFFICES ASSUME NEW d \in Coroutines, frame'[d].pc = "stop"
               PROVE  job'[frame'[d].job] \notin Untouched
    BY DEF StopsOnlyMovedOn
  <2>1. CASE d = c
    BY <2>1 DEF CleansUp
  <2>2. CASE d # c
    <3>1. frame'[d] = frame[d]
      BY <2>2 DEF CleansUp
    <3>2. frame[d].job \in Jobs /\ job[frame[d].job] \notin Untouched
      BY <3>1 DEF TypeOK, DeployInv, StopsOnlyMovedOn
    <3> QED
      BY <3>1, <3>2 DEF CleansUp
  <2> QED
    BY <2>1, <2>2
<1>2. DeploysOnlyKnown'
  <2> SUFFICES ASSUME NEW k \in Jobs, frame'[Submit(k)].pc = "deploy"
               PROVE  job'[k] # "NONE"
    BY DEF DeploysOnlyKnown
  <2>1. Submit(k) # c /\ frame'[Submit(k)] = frame[Submit(k)]
    BY CoroutineNames DEF CleansUp
  <2>2. job[k] # "NONE"
    BY <2>1 DEF DeployInv, DeploysOnlyKnown
  <2> QED
    BY <2>2 DEF CleansUp, Untouched
<1>3. WorkersKnowOnlyKnown'
  BY GraphAssumption DEF DeployInv, WorkersKnowOnlyKnown, CleansUp, Untouched
<1>4. DownstreamFirst'
  <2> SUFFICES ASSUME NEW k \in Jobs, job'[k] = "DEPLOYING"
               PROVE  /\ frame'[Submit(k)] = frame[Submit(k)]
                      /\ \A t \in TasksOf(k) : task'[t] = task[t] /\ place'[t] = place[t]
                      /\ job[k] = "DEPLOYING"
    BY DeployOrderType DEF DownstreamFirst, DeployInv
  <2>1. k # j /\ job[k] = "DEPLOYING"
    BY DEF CleansUp, Untouched
  <2>2. frame[Submit(k)].pc = "deploy"
    BY <2>1 DEF DeployInv, DownstreamFirst
  <2>3. Submit(k) # c
    BY <2>1, <2>2
  <2> QED
    BY <2>1, <2>3, CoroutineNames DEF CleansUp, TasksOf
<1>5. RunningJobsAreWhole'
  <2> SUFFICES ASSUME NEW t \in Tasks, job'[JobOf[t]] = "RUNNING"
               PROVE  task'[t] = "RUNNING" /\ place'[t] # NoPlace
    BY DEF RunningJobsAreWhole
  <2>1. JobOf[t] \in Jobs /\ JobOf[t] # j
    BY GraphAssumption DEF CleansUp, Untouched
  <2>2. job[JobOf[t]] = "RUNNING" /\ t \notin TasksOf(j)
    BY <2>1 DEF CleansUp, TasksOf
  <2> QED
    BY <2>2 DEF CleansUp, DeployInv, RunningJobsAreWhole
<1> QED
  BY <1>1, <1>2, <1>3, <1>4, <1>5 DEF DeployInv

\* The deployment order names every task of the job, each once.
LEMMA DeployOrderEnumerates ==
  ASSUME NEW j \in Jobs
  PROVE  /\ \A i, k \in 1..Len(DeployOrder[j]) :
              DeployOrder[j][i] = DeployOrder[j][k] => i = k
         /\ \A t \in TasksOf(j) : \E i \in 1..Len(DeployOrder[j]) : DeployOrder[j][i] = t
<1>1. Enumerates(DeployOrder[j], TasksOf(j))
  BY GraphAssumption
<1>2. \A i, k \in 1..Len(DeployOrder[j]) : DeployOrder[j][i] = DeployOrder[j][k] => i = k
  BY <1>1, Zenon DEF Enumerates
<1>3. {DeployOrder[j][i] : i \in 1..Len(DeployOrder[j])} = TasksOf(j)
  BY <1>1, Zenon DEF Enumerates
<1>4. \A t \in TasksOf(j) : \E i \in 1..Len(DeployOrder[j]) : DeployOrder[j][i] = t
  BY <1>3, Zenon
<1> QED
  BY <1>2, <1>4

\* Steps of the workers and of the registry keep the deployment invariant.
LEMMA WorldKeepsDeployInv ==
  ASSUME TypeOK, DeployInv,
         \/ \E w \in Workers : \/ Heartbeat(w) \/ HeartbeatExpires(w) \/ WorkerCrashes(w)
                               \/ \E n \in SlotCounts : RegisterWorker(w, n)
         \/ \E t \in Tasks : TaskFails(t) \/ ReportLost(t)
  PROVE  DeployInv'
<1>1. UNCHANGED <<job, task, place, deployed, frame>>
  BY DEF Heartbeat, HeartbeatExpires, WorkerCrashes, RegisterWorker, TaskFails, ReportLost
<1>2. StopsOnlyMovedOn' /\ DeploysOnlyKnown' /\ DownstreamFirst' /\ RunningJobsAreWhole'
  BY <1>1 DEF DeployInv, StopsOnlyMovedOn, DeploysOnlyKnown, DownstreamFirst,
              RunningJobsAreWhole
<1>3. \A t \in Tasks : host'[t] # NoWorker \/ t \in pending' => host[t] # NoWorker \/ t \in pending
  BY DEF Heartbeat, HeartbeatExpires, WorkerCrashes, RegisterWorker, TaskFails, ReportLost,
         worldVars, TypeOK
<1>4. WorkersKnowOnlyKnown'
  BY <1>1, <1>3 DEF DeployInv, WorkersKnowOnlyKnown
<1> QED
  BY <1>2, <1>4 DEF DeployInv

\* The worker carrying out a deployment keeps it.
LEMMA DeployReachesKeepsDeployInv ==
  ASSUME TypeOK, DeployInv, NEW j \in Jobs, DeployReaches(j)
  PROVE  DeployInv'
<1> DEFINE c == Submit(j)
<1>0. StopTyped
  BY TypeOKSplit
<1>1. c \in Coroutines /\ frame[c].pc = "deploy" /\ frame[c].job = j
  BY CoroutineNames DEF DeployReaches, TypeOK
<1>2. Awaited(c) \in TasksOf(j)
  BY <1>0, <1>1, AwaitedType
<1>3. UNCHANGED <<job, task, place, pending>>
  BY DEF DeployReaches
<1>4. \A d \in Coroutines : /\ frame'[d].pc = frame[d].pc /\ frame'[d].job = frame[d].job
                            /\ frame'[d].at = frame[d].at
  <2>1. frame[c] \in Frames /\ frame \in [Coroutines -> Frames]
    BY <1>1 DEF TypeOK
  <2>2. \A d \in Coroutines \ {c} : frame'[d] = frame[d]
    BY <2>1 DEF DeployReaches
  <2>3. frame'[c] = [frame[c] EXCEPT !.reached = TRUE]
    BY <1>1, <2>1 DEF DeployReaches
  <2>4. frame'[c].pc = frame[c].pc /\ frame'[c].job = frame[c].job /\ frame'[c].at = frame[c].at
    BY <2>1, <2>3 DEF Frames
  <2> QED
    BY <2>2, <2>4
<1>5. StopsOnlyMovedOn' /\ DeploysOnlyKnown' /\ DownstreamFirst' /\ RunningJobsAreWhole'
  BY <1>3, <1>4, CoroutineNames
  DEF DeployInv, StopsOnlyMovedOn, DeploysOnlyKnown, DownstreamFirst, RunningJobsAreWhole
<1>6. job[j] # "NONE"
  BY <1>1 DEF DeployInv, DeploysOnlyKnown
<1>7. WorkersKnowOnlyKnown'
  BY <1>2, <1>3, <1>6 DEF DeployInv, WorkersKnowOnlyKnown, DeployReaches, TypeOK, TasksOf
<1> QED
  BY <1>5, <1>7 DEF DeployInv

\* Submitting a job establishes it for the job.
LEMMA SubmitKeepsDeployInv ==
  ASSUME TypeOK, DeployInv, NEW j \in Jobs, SubmitJob(j) \/ RejectJob(j)
  PROVE  DeployInv'
<1>0. /\ job[j] = "NONE" /\ \A k \in Jobs \ {j} : job'[k] = job[k]
      /\ job'[j] \in {"DEPLOYING", "REJECTED"} /\ UNCHANGED <<host, pending>>
      /\ \A t \in Tasks : JobOf[t] \in Jobs
  BY GraphAssumption DEF SubmitJob, RejectJob, TypeOK, worldVars
<1>1. WorkersKnowOnlyKnown'
  BY <1>0 DEF DeployInv, WorkersKnowOnlyKnown
<1>2. CASE RejectJob(j)
  <2>1. UNCHANGED <<task, place, frame>> /\ job'[j] = "REJECTED"
    BY <1>2 DEF RejectJob, TypeOK
  <2>2. StopsOnlyMovedOn'
    BY <1>0, <2>1 DEF DeployInv, StopsOnlyMovedOn, TypeOK, Untouched
  <2>3. DeploysOnlyKnown'
    BY <1>0, <2>1 DEF DeployInv, DeploysOnlyKnown
  <2>4. DownstreamFirst' /\ RunningJobsAreWhole'
    BY <1>0, <2>1 DEF DeployInv, DownstreamFirst, RunningJobsAreWhole
  <2> QED
    BY <1>1, <2>2, <2>3, <2>4 DEF DeployInv
<1>3. CASE SubmitJob(j)
  <2> DEFINE c == Submit(j)
             D == DeployOrder[j]
  <2>1. PICK p \in ValidPlacements(j) :
          /\ place' = [u \in Tasks |-> IF u \in TasksOf(j) THEN p[u] ELSE place[u]]
          /\ task' = [u \in Tasks |-> IF u = D[1] THEN "DEPLOYING"
                                      ELSE IF u \in TasksOf(j) THEN "SCHEDULED"
                                      ELSE task[u]]
          /\ frame' = [frame EXCEPT ![c] = DeployFrame(j, 1, p[D[1]][1])]
    BY <1>3 DEF SubmitJob
  <2>2. p \in [TasksOf(j) -> Places]
    BY <2>1, ValidPlacementsType DEF TypeOK
  <2>3. /\ frame'[c].pc = "deploy" /\ frame'[c].at = 1
        /\ \A d \in Coroutines \ {c} : frame'[d] = frame[d]
    BY <2>1, CoroutineNames DEF TypeOK, DeployFrame, FrameOf
  <2>4. job'[j] = "DEPLOYING"
    BY <1>3 DEF SubmitJob, TypeOK
  <2>5. D[1] \in TasksOf(j)
    BY DeployOrderType
  <2>6. \A t \in Tasks \ TasksOf(j) : task'[t] = task[t] /\ place'[t] = place[t]
    BY <2>1, <2>5
  <2>7. StopsOnlyMovedOn'
    <3> SUFFICES ASSUME NEW d \in Coroutines, frame'[d].pc = "stop"
                 PROVE  job'[frame'[d].job] \notin Untouched
      BY DEF StopsOnlyMovedOn
    <3>1. frame'[d] = frame[d]
      BY <2>3
    <3>2. frame[d].job \in Jobs /\ job[frame[d].job] \notin Untouched
      BY <3>1 DEF DeployInv, StopsOnlyMovedOn, TypeOK
    <3>3. frame[d].job # j
      BY <1>0, <3>2 DEF Untouched
    <3> QED
      BY <1>0, <3>1, <3>2, <3>3
  <2>8. DeploysOnlyKnown'
    <3> SUFFICES ASSUME NEW k \in Jobs, frame'[Submit(k)].pc = "deploy", k # j
                 PROVE  job'[k] # "NONE"
      BY <2>4 DEF DeploysOnlyKnown
    <3>1. frame'[Submit(k)] = frame[Submit(k)]
      BY <2>3, CoroutineNames, CoroutinesDiffer
    <3> QED
      BY <1>0, <3>1 DEF DeployInv, DeploysOnlyKnown
  <2>9. DownstreamFirst'
    <3> SUFFICES ASSUME NEW k \in Jobs, job'[k] = "DEPLOYING",
                        NEW i \in 1..Len(DeployOrder[k])
                 PROVE  /\ frame'[Submit(k)].pc = "deploy"
                        /\ place'[DeployOrder[k][i]] # NoPlace
                        /\ task'[DeployOrder[k][i]] =
                             IF i < frame'[Submit(k)].at THEN "RUNNING"
                             ELSE IF i = frame'[Submit(k)].at THEN "DEPLOYING" ELSE "SCHEDULED"
      BY DeployOrderType DEF DownstreamFirst
    <3>1. CASE k = j
      <4>1. D[i] \in TasksOf(j) /\ D[i] \in Tasks /\ (D[i] = D[1] <=> i = 1)
        BY <3>1, DeployOrderType, DeployOrderEnumerates
      <4>2. place'[D[i]] # NoPlace
        BY <2>1, <2>2, <4>1, NoPlaceIsNoPlace
      <4>3. task'[D[i]] = IF i = 1 THEN "DEPLOYING" ELSE "SCHEDULED"
        BY <2>1, <4>1
      <4> QED
        BY <2>3, <3>1, <4>2, <4>3
    <3>2. CASE k # j
      <4>1. job[k] = "DEPLOYING" /\ frame'[Submit(k)] = frame[Submit(k)]
        BY <1>0, <2>3, <3>2, CoroutineNames, CoroutinesDiffer
      <4>2. DeployOrder[k][i] \in Tasks \ TasksOf(j)
        BY <3>2, DeployOrderType DEF TasksOf
      <4> QED
        BY <2>6, <4>1, <4>2 DEF DeployInv, DownstreamFirst
    <3> QED
      BY <3>1, <3>2
  <2>10. RunningJobsAreWhole'
    BY <1>0, <2>4, <2>6 DEF DeployInv, RunningJobsAreWhole, TasksOf
  <2> QED
    BY <1>1, <2>7, <2>8, <2>9, <2>10 DEF DeployInv
<1> QED
  BY <1>2, <1>3

\* So do the answers of deploy_task.
LEMMA DeployAnsweredKeepsDeployInv ==
  ASSUME TypeOK, DeployInv, NEW j \in Jobs, DeployAnswered(j)
  PROVE  DeployInv'
<1> DEFINE c == Submit(j)
           D == DeployOrder[j]
           k == frame[c].at
<1>0. StopTyped /\ RestTyped
  BY TypeOKSplit
<1>1. c \in Coroutines /\ frame[c].pc = "deploy" /\ frame[c].job = j
  BY CoroutineNames
  DEF DeployAnswered, DeployedTooLate, DeployedNext, DeployedLast, DeployFails, TypeOK
<1>2. Awaited(c) \in TasksOf(j) /\ Awaited(c) \in Tasks /\ k \in 1..Len(D) /\ Awaited(c) = D[k]
  BY <1>0, <1>1, AwaitedType DEF Awaited
<1>3. job[j] # "NONE"
  BY <1>1 DEF DeployInv, DeploysOnlyKnown
<1>4. UNCHANGED <<host, pending>>
  BY DEF DeployAnswered, DeployedTooLate, DeployedNext, DeployedLast, DeployFails, worldVars
<1>5. ASSUME CleansUp(c, j) PROVE DeployInv'
  BY <1>1, <1>4, <1>5, CoroutinesDiffer, CleanupKeepsDeployInv
<1>6. CASE DeployedTooLate(j) \/ DeployFails(j)
  <2>1. FailRun(c, j, Awaited(c), task, deployed[j])
    BY <1>6 DEF DeployedTooLate, DeployFails
  <2>2. deployed[j] \in 0..Len(D) /\ task \in [Tasks -> TaskStatus]
    BY <1>0 DEF RestTyped, StopTyped
  <2> QED
    BY <1>0, <1>1, <1>2, <1>3, <1>5, <2>1, <2>2, FailRunCleansUp
\* A job that is not cleaned up in this step: only its own task statuses and its
\* own frame change.
<1>7. ASSUME NEW s \in [Tasks -> TaskStatus], NEW fr,
             task' = s, \A t \in Tasks \ TasksOf(j) : s[t] = task[t],
             frame' = [frame EXCEPT ![c] = fr], fr.pc # "stop",
             \A i \in Jobs \ {j} : job'[i] = job[i], job'[j] # "NONE",
             \A i \in Jobs : job'[i] \in Untouched => job[i] \in Untouched,
             UNCHANGED <<place, owner>>,
             job'[j] = "DEPLOYING" => DownstreamFirst',
             job'[j] = "RUNNING" => \A t \in TasksOf(j) : s[t] = "RUNNING" /\ place[t] # NoPlace
      PROVE  DeployInv'
  <2>1. \A d \in Coroutines \ {c} : frame'[d] = frame[d]
    BY <1>7 DEF TypeOK
  <2>2. frame'[c] = fr
    BY <1>1, <1>7 DEF TypeOK
  <2>3. StopsOnlyMovedOn'
    <3> SUFFICES ASSUME NEW d \in Coroutines, frame'[d].pc = "stop"
                 PROVE  job'[frame'[d].job] \notin Untouched
      BY DEF StopsOnlyMovedOn
    <3>1. frame'[d] = frame[d]
      BY <1>7, <2>1, <2>2
    <3>2. frame[d].job \in Jobs /\ job[frame[d].job] \notin Untouched
      BY <3>1 DEF DeployInv, StopsOnlyMovedOn, TypeOK
    <3> QED
      BY <1>7, <3>1, <3>2
  <2>4. DeploysOnlyKnown'
    <3> SUFFICES ASSUME NEW i \in Jobs, frame'[Submit(i)].pc = "deploy", i # j
                 PROVE  job'[i] # "NONE"
      BY <1>7 DEF DeploysOnlyKnown
    <3>1. frame'[Submit(i)] = frame[Submit(i)]
      BY <2>1, CoroutineNames, CoroutinesDiffer
    <3> QED
      BY <1>7, <3>1 DEF DeployInv, DeploysOnlyKnown
  <2>5. WorkersKnowOnlyKnown'
    BY <1>3, <1>4, <1>7, GraphAssumption DEF DeployInv, WorkersKnowOnlyKnown
  <2>6. DownstreamFirst'
    <3> SUFFICES ASSUME NEW i \in Jobs, i # j, job[i] = "DEPLOYING"
                 PROVE  /\ frame'[Submit(i)] = frame[Submit(i)]
                        /\ \A t \in TasksOf(i) : task'[t] = task[t] /\ place'[t] = place[t]
      BY <1>7, DeployOrderType DEF DownstreamFirst, DeployInv
    <3>1. frame'[Submit(i)] = frame[Submit(i)]
      BY <2>1, CoroutineNames, CoroutinesDiffer
    <3> QED
      BY <1>7, <3>1 DEF TasksOf
  <2>7. RunningJobsAreWhole'
    BY <1>7, GraphAssumption DEF DeployInv, RunningJobsAreWhole, TasksOf
  <2> QED
    BY <2>3, <2>4, <2>5, <2>6, <2>7 DEF DeployInv
<1>8. CASE DeployedNext(j)
  <2> DEFINE next == D[k + 1]
             st == [task EXCEPT ![Awaited(c)] = "RUNNING"]
  <2>1. k + 1 \in 1..Len(D) /\ k \in 0..Len(D)
    <3>1. k < Len(D)
      BY <1>8 DEF DeployedNext
    <3>2. Len(D) \in Nat
      BY DeployOrderType
    <3> QED
      BY <1>2, <3>1, <3>2
  <2>2. next \in TasksOf(j) /\ next \in Tasks /\ next # Awaited(c)
    BY <1>2, <2>1, DeployOrderType, DeployOrderEnumerates
  <2>3. st \in [Tasks -> TaskStatus] /\ \A t \in Tasks \ TasksOf(j) : st[t] = task[t]
    BY <1>2 DEF TypeOK, TaskStatus
  <2>4. CASE FailRun(c, j, next, st, k)
    <3> HIDE DEF st, next
    <3> QED
      BY <1>0, <1>1, <1>3, <1>5, <2>1, <2>2, <2>3, <2>4, FailRunCleansUp
  <2>5. CASE /\ st[next] = "SCHEDULED" /\ place[next] # NoPlace
             /\ task' = [st EXCEPT ![next] = "DEPLOYING"]
             /\ frame' = [frame EXCEPT ![c] = DeployFrame(j, k + 1, place[next][1])]
             /\ UNCHANGED <<job, place, owner>>
    <3> DEFINE s == [st EXCEPT ![next] = "DEPLOYING"]
               fr == DeployFrame(j, k + 1, place[next][1])
    <3>1. s \in [Tasks -> TaskStatus] /\ \A t \in Tasks \ TasksOf(j) : s[t] = task[t]
      BY <2>2, <2>3 DEF TaskStatus
    <3>2. fr.pc = "deploy" /\ fr.at = k + 1
      BY DEF DeployFrame, FrameOf
    <3>3. job[j] # "RUNNING"
      BY <1>2, <1>8 DEF DeployInv, RunningJobsAreWhole, DeployedNext, TasksOf
    <3>4. ASSUME job'[j] = "DEPLOYING" PROVE DownstreamFirst'
      <4> SUFFICES ASSUME NEW i \in Jobs, job'[i] = "DEPLOYING",
                          NEW n \in 1..Len(DeployOrder[i])
                   PROVE  /\ frame'[Submit(i)].pc = "deploy"
                          /\ place'[DeployOrder[i][n]] # NoPlace
                          /\ task'[DeployOrder[i][n]] =
                               IF n < frame'[Submit(i)].at THEN "RUNNING"
                               ELSE IF n = frame'[Submit(i)].at THEN "DEPLOYING"
                               ELSE "SCHEDULED"
        BY DeployOrderType DEF DownstreamFirst
      <4>1. job[i] = "DEPLOYING"
        BY <2>5
      <4>2. /\ frame[Submit(i)].pc = "deploy"
            /\ place[DeployOrder[i][n]] # NoPlace
            /\ task[DeployOrder[i][n]] =
                 IF n < frame[Submit(i)].at THEN "RUNNING"
                 ELSE IF n = frame[Submit(i)].at THEN "DEPLOYING"
                 ELSE "SCHEDULED"
        BY <4>1 DEF DeployInv, DownstreamFirst
      <4>3. CASE i # j
        <5>1. frame'[Submit(i)] = frame[Submit(i)]
          BY <2>5, <4>3, CoroutineNames, CoroutinesDiffer DEF TypeOK
        <5>2. DeployOrder[i][n] \in Tasks \ TasksOf(j)
          BY <4>3, DeployOrderType DEF TasksOf
        <5> QED
          BY <2>5, <3>1, <4>2, <5>1, <5>2
      <4>4. CASE i = j
        <5>1. frame'[c] = fr
          BY <1>1, <2>5 DEF TypeOK
        <5>2. D[n] \in Tasks /\ (D[n] = Awaited(c) <=> n = k) /\ (D[n] = next <=> n = k + 1)
          <6>1. Awaited(c) = D[k]
            BY <1>1 DEF Awaited
          <6>2. n \in 1..Len(D) /\ k \in 1..Len(D) /\ k + 1 \in 1..Len(D) /\ k # k + 1
            BY <1>2, <2>1, <4>4
          <6>3. \A a, b \in 1..Len(D) : D[a] = D[b] => a = b
            BY DeployOrderEnumerates
          <6>4. D[n] \in Tasks
            BY <6>2, DeployOrderType
          <6>5. D[n] = Awaited(c) <=> n = k
            BY <6>1, <6>2, <6>3
          <6>6. D[n] = next <=> n = k + 1
            BY <6>2, <6>3
          <6> QED
            BY <6>4, <6>5, <6>6
        <5>3. task'[D[n]] = IF n = k + 1 THEN "DEPLOYING"
                            ELSE IF n = k THEN "RUNNING" ELSE task[D[n]]
          BY <1>2, <2>2, <2>3, <2>5, <5>2 DEF TypeOK
        <5>4. n \in Nat /\ k \in Nat
          BY <1>2, <4>4, DeployOrderType
        <5> HIDE DEF fr
        <5> QED
          <6>1. frame'[c].pc = "deploy" /\ frame'[c].at = k + 1
            BY <3>2, <5>1
          <6>2. place'[D[n]] # NoPlace
            BY <2>5, <4>2, <4>4
          <6>3. task[D[n]] = IF n < k THEN "RUNNING" ELSE IF n = k THEN "DEPLOYING"
                             ELSE "SCHEDULED"
            BY <4>2, <4>4
          <6>4. task'[D[n]] = IF n < k + 1 THEN "RUNNING" ELSE IF n = k + 1 THEN "DEPLOYING"
                              ELSE "SCHEDULED"
            <7>1. n < k + 1 <=> n < k \/ n = k
              BY <5>4
            <7> QED
              BY <5>3, <5>4, <6>3, <7>1
          <6> QED
            BY <4>4, <6>1, <6>2, <6>4
      <4> QED
        BY <4>3, <4>4
    <3>5. task' = s /\ frame' = [frame EXCEPT ![c] = fr] /\ UNCHANGED <<job, place, owner>>
      BY <2>5
    <3> HIDE DEF s, fr
    <3> QED
      BY <1>3, <1>7, <3>1, <3>2, <3>3, <3>4, <3>5
  <2> QED
    BY <1>8, <2>4, <2>5 DEF DeployedNext
<1>9. CASE DeployedLast(j)
  <2> DEFINE s == [task EXCEPT ![Awaited(c)] = "RUNNING"]
  <2>1. s \in [Tasks -> TaskStatus] /\ \A t \in Tasks \ TasksOf(j) : s[t] = task[t]
    BY <1>2 DEF TypeOK, TaskStatus
  <2>2. Idle.pc # "stop"
    BY RestFrames
  <2>3. job[j] # "RUNNING"
    BY <1>2, <1>9 DEF DeployInv, RunningJobsAreWhole, DeployedLast, TasksOf
  <2>4. /\ \A i \in Jobs \ {j} : job'[i] = job[i]
        /\ job'[j] = IF job[j] = "DEPLOYING" THEN "RUNNING" ELSE job[j]
    BY <1>9 DEF DeployedLast, TypeOK
  <2>5. ASSUME job'[j] = "RUNNING", NEW t \in TasksOf(j)
        PROVE  s[t] = "RUNNING" /\ place[t] # NoPlace
    <3>1. job[j] = "DEPLOYING"
      BY <2>3, <2>4, <2>5
    <3>2. PICK n \in 1..Len(D) : D[n] = t
      BY DeployOrderEnumerates
    <3>3. n \in Nat /\ k \in Nat /\ (n < k \/ n = k)
      BY <1>2, <1>9, DeployOrderType DEF DeployedLast
    <3>4. place[t] # NoPlace /\ (n < k => task[t] = "RUNNING")
      BY <3>1, <3>2, <3>3 DEF DeployInv, DownstreamFirst
    <3> QED
      BY <1>2, <3>2, <3>3, <3>4 DEF TypeOK, TasksOf
  <2>6. task' = s /\ frame' = [frame EXCEPT ![c] = Idle] /\ UNCHANGED <<place, owner>>
    BY <1>9 DEF DeployedLast
  <2> HIDE DEF s
  <2> QED
    BY <1>3, <1>7, <2>1, <2>2, <2>4, <2>5, <2>6 DEF Untouched
<1> QED
  BY <1>6, <1>8, <1>9 DEF DeployAnswered

\* Cancels, failure reports, the answers of stop_task and the health sweep keep it.
LEMMA CleanupsKeepDeployInv ==
  ASSUME TypeOK, DeployInv,
         \/ \E j \in Jobs : CancelJob(j)
         \/ \E t \in Tasks : ReportArrives(t)
         \/ \E c \in Coroutines : StopAnswered(c)
         \/ SweepStarts \/ SweepResumes
  PROVE  DeployInv'
<1>0. StopTyped /\ RestTyped
  BY TypeOKSplit
<1>a. task \in [Tasks -> TaskStatus] /\ \A j \in Jobs : deployed[j] \in 0..Len(DeployOrder[j])
  BY <1>0 DEF StopTyped, RestTyped
\* A coroutine that only ends changes nothing the invariant speaks of.
<1>b. ASSUME NEW c \in Coroutines, frame[c].pc # "deploy",
             frame' = [frame EXCEPT ![c] = Idle],
             UNCHANGED <<job, task, place, owner>>,
             \A t \in Tasks : host'[t] # NoWorker => host[t] # NoWorker,
             pending' \subseteq pending
      PROVE  DeployInv'
  <2>1. /\ \A d \in Coroutines \ {c} : frame'[d] = frame[d]
        /\ frame'[c].pc = "idle"
    BY <1>b, RestFrames DEF TypeOK
  <2>2. StopsOnlyMovedOn'
    BY <1>b, <2>1 DEF DeployInv, StopsOnlyMovedOn
  <2>3. DeploysOnlyKnown'
    BY <1>b, <2>1, CoroutineNames DEF DeployInv, DeploysOnlyKnown
  <2>4. WorkersKnowOnlyKnown'
    BY <1>b DEF DeployInv, WorkersKnowOnlyKnown
  <2>5. DownstreamFirst'
    <3> SUFFICES ASSUME NEW i \in Jobs, job[i] = "DEPLOYING"
                 PROVE  frame'[Submit(i)] = frame[Submit(i)]
      BY <1>b DEF DeployInv, DownstreamFirst
    <3>1. frame[Submit(i)].pc = "deploy"
      BY DEF DeployInv, DownstreamFirst
    <3> QED
      BY <1>b, <2>1, <3>1, CoroutineNames
  <2>6. RunningJobsAreWhole'
    BY <1>b DEF DeployInv, RunningJobsAreWhole
  <2> QED
    BY <2>2, <2>3, <2>4, <2>5, <2>6 DEF DeployInv
<1>1. ASSUME NEW j \in Jobs, CancelJob(j)
      PROVE  DeployInv'
  <2> DEFINE js == [job EXCEPT ![j] = "CANCELLING"]
  <2>1. /\ js \in [Jobs -> JobStatus] /\ js[j] \notin Untouched
        /\ \A i \in Jobs \ {j} : js[i] = job[i]
    BY <1>0 DEF StopTyped, JobStatus, Untouched
  <2>2. StopTasks(Cancel(j), j, NoTask, js, task, deployed[j], FALSE)
    BY <1>1 DEF CancelJob
  <2> HIDE DEF js
  <2>3. CleansUp(Cancel(j), j)
    BY <1>0, <1>a, <2>1, <2>2, CoroutineNames, StopTasksCleansUp
  <2>4. UNCHANGED <<host, pending>>
    BY <1>1 DEF CancelJob, worldVars
  <2> QED
    BY <2>3, <2>4, CoroutineNames, CoroutinesDiffer, CleanupKeepsDeployInv
<1>2. ASSUME NEW t \in Tasks, ReportArrives(t)
      PROVE  DeployInv'
  <2> DEFINE j == JobOf[t]
  <2>1. j \in Jobs /\ t \in TasksOf(j) /\ job[j] # "NONE"
    BY <1>2, GraphAssumption DEF ReportArrives, DeployInv, WorkersKnowOnlyKnown, TasksOf
  <2>2. host' = host /\ pending' \subseteq pending
    BY <1>2 DEF ReportArrives
  <2>3. CASE FailRun(Report(t), j, t, task, deployed[j])
    <3>1. CleansUp(Report(t), j)
      BY <1>0, <1>a, <2>1, <2>3, CoroutineNames, FailRunCleansUp
    <3> QED
      BY <2>1, <2>2, <3>1, CoroutineNames, CoroutinesDiffer, CleanupKeepsDeployInv
  <2>4. CASE UNCHANGED <<job, task, place, owner, frame>>
    BY <2>2, <2>4 DEF DeployInv, StopsOnlyMovedOn, DeploysOnlyKnown, WorkersKnowOnlyKnown,
                      DownstreamFirst, RunningJobsAreWhole
  <2> QED
    BY <1>2, <2>3, <2>4 DEF ReportArrives
<1>3. ASSUME NEW c \in Coroutines, StopAnswered(c)
      PROVE  DeployInv'
  <2> DEFINE j == frame[c].job
  <2>1. PICK s \in {"CANCELLED", "FAILED"} : StopReturns(c, s)
    BY <1>3 DEF StopAnswered, StopSucceeds, StopFails
  <2>2. frame[c].pc = "stop"
    BY <1>3 DEF StopAnswered, StopSucceeds, StopFails
  <2>3. /\ j \in Jobs /\ frame[c].at - 1 \in 0..Len(DeployOrder[j])
        /\ Awaited(c) \in TasksOf(j)
    BY <1>0, <2>2, AwaitedType, DeployOrderType
  <2>4. job[j] \notin Untouched /\ job \in [Jobs -> JobStatus]
    BY <1>0, <2>2 DEF DeployInv, StopsOnlyMovedOn, StopTyped
  <2>5. \A t \in Tasks : host'[t] # NoWorker => host[t] # NoWorker
    BY <1>3, <2>3 DEF StopAnswered, StopSucceeds, StopFails, TypeOK
  <2>6. pending' = pending
    BY <1>3 DEF StopAnswered, StopSucceeds, StopFails
  <2>7. CASE task[Awaited(c)] = "CANCELLING"
    <3> DEFINE st == [task EXCEPT ![Awaited(c)] = s]
    <3>1. st \in [Tasks -> TaskStatus] /\ \A t \in Tasks \ TasksOf(j) : st[t] = task[t]
      BY <1>a, <2>3 DEF TaskStatus
    <3>2. PICK e : StopTasks(c, j, frame[c].failed, job, st, frame[c].at - 1, e)
      BY <2>1, <2>7 DEF StopReturns
    <3> HIDE DEF st
    <3>3. CleansUp(c, j)
      BY <1>0, <2>3, <2>4, <3>1, <3>2, StopTasksCleansUp
    <3> QED
      BY <2>2, <2>3, <2>5, <2>6, <3>3, CleanupKeepsDeployInv
  <2>8. CASE task[Awaited(c)] # "CANCELLING"
    BY <1>b, <2>1, <2>2, <2>5, <2>6, <2>8 DEF StopReturns
  <2> QED
    BY <2>7, <2>8
<1>4. CASE SweepStarts \/ SweepResumes
  <2>1. UNCHANGED <<host, pending>>
    BY <1>4 DEF SweepStarts, SweepResumes, worldVars
  <2>2. frame[Reconcile].pc # "deploy"
    BY <1>4 DEF SweepStarts, SweepResumes
  <2>3. CASE /\ frame' = [frame EXCEPT ![Reconcile] = Idle]
             /\ UNCHANGED <<job, task, place, owner>>
    BY <1>b, <2>1, <2>2, <2>3, CoroutineNames
  <2>4. ASSUME NEW n \in Nat \ {0}, NEW h, Sweep(n, h)
        PROVE  DeployInv'
    <3>1. ASSUME NEW m \in n..Len(runs), NEW i \in Suspects(runs[m], h),
                 job[runs[m]] \in {"DEPLOYING", "RUNNING"},
                 FailRun(Reconcile, runs[m], TaskOrder[runs[m]][i], task, deployed[runs[m]])
          PROVE  DeployInv'
      <4>1. runs[m] \in Jobs
        BY <1>0 DEF RestTyped
      <4>2. TaskOrder[runs[m]][i] \in TasksOf(runs[m])
        BY <4>1, TaskOrderType DEF Suspects
      <4>3. CleansUp(Reconcile, runs[m])
        BY <1>0, <1>a, <3>1, <4>1, <4>2, CoroutineNames, FailRunCleansUp
      <4> QED
        BY <2>1, <4>1, <4>3, CoroutineNames, CoroutinesDiffer, CleanupKeepsDeployInv
    <3> QED
      BY <2>3, <2>4, <3>1 DEF Sweep
  <2>5. sweep.next \in Nat \ {0}
    BY <1>0 DEF RestTyped
  <2> QED
    BY <1>4, <2>3, <2>4, <2>5 DEF SweepStarts, SweepResumes
<1> QED
  BY <1>1, <1>2, <1>3, <1>4

\* Every step keeps the deployment invariant when workers report failures only.
LEMMA NextDeployInv ==
  ASSUME OtherReports = {}, TypeOK, DeployInv, [Next]_vars
  PROVE  DeployInv'
<1>1. CASE UNCHANGED vars
  BY <1>1 DEF vars, DeployInv, StopsOnlyMovedOn, DeploysOnlyKnown, WorkersKnowOnlyKnown,
              DownstreamFirst, RunningJobsAreWhole
<1>2. CASE Next
  BY <1>2, WorldKeepsDeployInv, DeployReachesKeepsDeployInv, SubmitKeepsDeployInv,
     DeployAnsweredKeepsDeployInv, CleanupsKeepDeployInv
  DEF Next
<1> QED
  BY <1>1, <1>2

LEMMA InitDeployInv == Init => DeployInv
<1> SUFFICES ASSUME Init PROVE DeployInv
  OBVIOUS
<1>1. \A c \in Coroutines : frame[c].pc = "idle"
  BY RestFrames DEF Init
<1>2. /\ \A j \in Jobs : job[j] = "NONE"
      /\ \A t \in Tasks : host[t] = NoWorker /\ t \notin pending /\ JobOf[t] \in Jobs
  BY GraphAssumption DEF Init
<1> QED
  BY <1>1, <1>2, CoroutineNames
  DEF DeployInv, StopsOnlyMovedOn, DeploysOnlyKnown, WorkersKnowOnlyKnown, DownstreamFirst,
      RunningJobsAreWhole

LEMMA DeployInvHolds ==
  ASSUME OtherReports = {}
  PROVE  Spec => [](TypeOK /\ DeployInv)
<1>1. Init => TypeOK /\ DeployInv
  BY InitTyped, InitDeployInv
<1>2. TypeOK /\ DeployInv /\ [Next]_vars => (TypeOK /\ DeployInv)'
  BY NextTyped, NextDeployInv
<1> QED
  BY <1>1, <1>2, PTL DEF Spec

\* A job that shows RUNNING runs as a whole: every task RUNNING and on a slot.
THEOREM RunningJobsWhole ==
  ASSUME OtherReports = {}
  PROVE  Spec => []RunningJobsAreWhole
<1>1. TypeOK /\ DeployInv => RunningJobsAreWhole
  BY DEF DeployInv
<1> QED
  BY <1>1, DeployInvHolds, PTL

\* During deployment every task downstream of the one in flight runs and every
\* task upstream of it waits, however many failures and sweeps interleave.
THEOREM DeploymentIsDownstreamFirst ==
  ASSUME OtherReports = {}
  PROVE  Spec => []DownstreamFirst
<1>1. TypeOK /\ DeployInv => DownstreamFirst
  BY DEF DeployInv
<1> QED
  BY <1>1, DeployInvHolds, PTL
=============================================================================
