----------------------------- MODULE JobManager -----------------------------
(***************************************************************************)
(* The control plane of PyStream: JobManager, its WorkerRegistry, and the  *)
(* coroutines of one asyncio loop that deploy, cancel and fail jobs.       *)
(*                                                                         *)
(* A coroutine runs without interruption until it awaits a worker's answer *)
(* (deploy_task, stop_task), so an action is the code between two awaits.  *)
(* Coroutines of different requests interleave at those awaits: submit and *)
(* cancel of a job, a worker's failure report for a task, and the health   *)
(* sweep.  Each has a frame: where it waits and its local variables.       *)
(*                                                                         *)
(* SUBMITTED and VALIDATING never last until an await; "NONE" is a job     *)
(* that _runs does not know.  The placement is any that satisfies          *)
(* the promise in module Placement; SlotScheduler has the algorithm itself. *)
(***************************************************************************)
EXTENDS Integers, Sequences, FiniteSets, Placement

CONSTANTS
  Jobs, Tasks, Workers,
  JobOf,             \* [Tasks -> Jobs]
  TaskOrder,         \* [Jobs -> Seq(Tasks)], the order of ExecutionGraph.tasks
  DeployOrder,       \* [Jobs -> Seq(Tasks)], ExecutionGraph.deployment_order()
  MaxSlots,          \* bound on the slots of one worker
  SlotCounts,        \* the slot counts a worker may register with
  OtherReports,      \* the statuses besides FAILED reported for a task
  Lossy,             \* whether an answer or a report may get lost
  MaxCrashes,        \* bound on worker crashes
  NoTask, NoWorker, NoJob

TasksOf(j) == {t \in Tasks : JobOf[t] = j}

Enumerates(s, S) ==
  /\ s \in Seq(Tasks)
  /\ \A i, k \in 1..Len(s) : s[i] = s[k] => i = k
  /\ {s[i] : i \in 1..Len(s)} = S

ASSUME GraphAssumption ==
  /\ JobOf \in [Tasks -> Jobs]
  /\ \A j \in Jobs : /\ Enumerates(TaskOrder[j], TasksOf(j))
                     /\ Enumerates(DeployOrder[j], TasksOf(j))
                     /\ TasksOf(j) # {}

ASSUME SlotAssumption ==
  /\ MaxSlots \in Nat \ {0}
  /\ SlotCounts \subseteq 1..MaxSlots

ASSUME EnvironmentAssumption == Lossy \in BOOLEAN /\ MaxCrashes \in Nat

ASSUME MarkerAssumption ==
  NoTask \notin Tasks /\ NoWorker \notin Workers /\ NoJob \notin Jobs

VARIABLES
  job,       \* Job.status
  task,      \* TaskInstance.status
  place,     \* TaskInstance.worker_id and slot_index
  owner,     \* WorkerSlot.task_id, per worker and slot
  total,     \* slots of a registered worker; 0: unknown to the registry
  fresh,     \* workers whose last heartbeat is within the timeout
  runs,      \* keys of _runs, in insertion order
  deployed,  \* length of JobRun.deployed_task_ids, a prefix of DeployOrder
  frame,     \* suspended coroutines
  sweep,     \* locals of reconcile_worker_health
  alive,     \* workers whose process runs
  host,      \* the worker a task's runtime really runs on
  pending,   \* failure reports sent and not yet received
  crashes

vars == <<job, task, place, owner, total, fresh, runs, deployed, frame, sweep,
          alive, host, pending, crashes>>
registryVars == <<total, fresh>>
worldVars == <<alive, host, pending, crashes>>

JobStatus == {"NONE", "REJECTED", "DEPLOYING", "RUNNING", "FAILING", "FAILED",
              "CANCELLING", "CANCELLED"}

TaskStatus == {"CREATED", "SCHEDULED", "DEPLOYING", "RUNNING", "CANCELLING",
               "CANCELLED", "FAILED"}

\* The status endpoint takes any status.
ASSUME ReportAssumption == OtherReports \subseteq TaskStatus \ {"FAILED"}

TaskTransitions ==
  [CREATED    |-> {"SCHEDULED", "FAILED"},
   SCHEDULED  |-> {"DEPLOYING", "CANCELLED", "FAILED"},
   DEPLOYING  |-> {"RUNNING", "CANCELLING", "FAILED"},
   RUNNING    |-> {"CANCELLING", "FAILED"},
   CANCELLING |-> {"CANCELLED", "FAILED"},
   CANCELLED  |-> {},
   FAILED     |-> {}]

Settled == {"REJECTED", "FAILED", "CANCELLED"}

SlotIds == 0..(MaxSlots - 1)
Places == Workers \X SlotIds
NoPlace == <<NoWorker, 0>>

Submit(j) == <<"submit", j>>
Cancel(j) == <<"cancel", j>>
Report(t) == <<"report", t>>
Reconcile == <<"reconcile", NoTask>>
Coroutines == {Submit(j) : j \in Jobs} \cup {Cancel(j) : j \in Jobs}
                \cup {Report(t) : t \in Tasks} \cup {Reconcile}

FrameOf(pc, j, k, w, f, e) ==
  [pc |-> pc, job |-> j, at |-> k, worker |-> w, failed |-> f, errors |-> e,
   reached |-> FALSE]

Idle == FrameOf("idle", NoJob, 0, NoWorker, NoTask, FALSE)
Sweeping == FrameOf("sweep", NoJob, 0, NoWorker, NoTask, FALSE)
DeployFrame(j, k, w) == FrameOf("deploy", j, k, w, NoTask, FALSE)
StopFrame(j, i, w, f, errors) == FrameOf("stop", j, i, w, f, errors)

Frames == [pc : {"idle", "deploy", "stop", "sweep"}, job : Jobs \cup {NoJob},
           at : Nat, worker : Workers \cup {NoWorker},
           failed : Tasks \cup {NoTask}, errors : BOOLEAN, reached : BOOLEAN]

NoSweep == [next |-> 1, size |-> 0, healthy |-> {}]

\* The task a suspended coroutine awaits an answer about.
Awaited(c) == DeployOrder[frame[c].job][frame[c].at]

Init ==
  /\ job = [j \in Jobs |-> "NONE"]
  /\ task = [t \in Tasks |-> "CREATED"]
  /\ place = [t \in Tasks |-> NoPlace]
  /\ owner = [w \in Workers |-> [i \in SlotIds |-> NoTask]]
  /\ total = [w \in Workers |-> 0]
  /\ fresh = {}
  /\ runs = <<>>
  /\ deployed = [j \in Jobs |-> 0]
  /\ frame = [c \in Coroutines |-> Idle]
  /\ sweep = NoSweep
  /\ alive = {}
  /\ host = [t \in Tasks |-> NoWorker]
  /\ pending = {}
  /\ crashes = 0

-----------------------------------------------------------------------------
(* WorkerRegistry and WorkerNode *)

InUse(w) == \E i \in SlotIds : owner[w][i] # NoTask

\* Mutant: registering again always starts with an empty slot table.
RegisteredAfresh(w) == [i \in SlotIds |-> NoTask]

\* Registering again keeps the slot table of a worker whose slots are taken.
RegisteredSlots(w) == IF InUse(w) THEN owner[w] ELSE [i \in SlotIds |-> NoTask]

\* A worker process starts and registers; with slots taken, only with the same
\* slot count, otherwise the registration is refused and the process exits.
RegisterWorker(w, n) ==
  /\ w \notin alive
  /\ InUse(w) => n = total[w]
  /\ owner' = [owner EXCEPT ![w] = RegisteredSlots(w)]
  /\ total' = [total EXCEPT ![w] = n]
  /\ fresh' = fresh \cup {w}
  /\ alive' = alive \cup {w}
  /\ UNCHANGED <<job, task, place, runs, deployed, frame, sweep, host, pending,
                 crashes>>

Heartbeat(w) ==
  /\ w \in alive
  /\ fresh' = fresh \cup {w}
  /\ UNCHANGED <<job, task, place, owner, total, runs, deployed, frame, sweep,
                 worldVars>>

\* Time passes without a heartbeat of w: is_healthy turns false.
HeartbeatExpires(w) ==
  /\ w \in fresh
  /\ fresh' = fresh \ {w}
  /\ UNCHANGED <<job, task, place, owner, total, runs, deployed, frame, sweep,
                 worldVars>>

\* Mutant: a slot is free because it exists.
AllSlots(w) == 0..(total[w] - 1)

FreeSlots(w) == {i \in 0..(total[w] - 1) : owner[w][i] = NoTask}

ValidPlacements(j) == Placements(TaskOrder[j], [w \in fresh |-> FreeSlots(w)])

Reserved(j, p) ==
  [w \in Workers |-> [i \in SlotIds |->
     IF \E t \in TasksOf(j) : p[t] = <<w, i>>
     THEN CHOOSE t \in TasksOf(j) : p[t] = <<w, i>>
     ELSE owner[w][i]]]

\* SlotScheduler.release frees, on the worker a task is placed on, the slot that
\* carries the task's id, and forgets the placement.
ReleasedSlots(j) ==
  [w \in Workers |-> [i \in SlotIds |->
     IF \E t \in TasksOf(j) : owner[w][i] = t /\ place[t][1] = w
     THEN NoTask
     ELSE owner[w][i]]]

\* Mutant: clear_assignment forgets to reset slot_index.
PlacesKeepingSlot(j) ==
  [t \in Tasks |-> IF t \in TasksOf(j) THEN <<NoWorker, place[t][2]>> ELSE place[t]]

ReleasedPlaces(j) ==
  [t \in Tasks |-> IF t \in TasksOf(j) THEN NoPlace ELSE place[t]]

-----------------------------------------------------------------------------
(* Stopping tasks and failing a job *)

\* Mutant: a task another coroutine is already stopping is stopped again.
StoppableTwice == {"RUNNING", "DEPLOYING", "CANCELLING"}

Stoppable == {"RUNNING", "DEPLOYING"}

\* Mutants: a failure overlooked while the job deploys, or while it runs; a job
\* settled before its tasks are stopped.
IgnoredWhileDeploying(s) == IF s \in {"RUNNING", "CANCELLING"} THEN "FAILING" ELSE s
IgnoredWhileRunning(s) == IF s \in {"DEPLOYING", "CANCELLING"} THEN "FAILING" ELSE s
FailedAtOnce(s) == IF s \in {"DEPLOYING", "RUNNING", "CANCELLING"} THEN "FAILED" ELSE s

\* job.transition at the start and at the end of _fail_run, and at the end of
\* cancel_job; a transition the tables refuse raises and leaves the status alone.
DuringFailRun(s) == IF s \in {"DEPLOYING", "RUNNING", "CANCELLING"} THEN "FAILING" ELSE s

\* Mutant: _fail_run does not settle the job.
FailingForGood(s) == s

AfterFailRun(s) == IF s = "FAILING" THEN "FAILED" ELSE s

\* Mutant: errors of the stops are ignored.
CancelledDespiteErrors(s, errors) == IF s # "CANCELLING" THEN s ELSE "CANCELLED"

AfterCancel(s, errors) ==
  IF s # "CANCELLING" THEN s ELSE IF errors THEN "FAILED" ELSE "CANCELLED"

\* The code after _stop_tasks, up to the end of the coroutine: cancel what is
\* still scheduled, release every slot, settle the job.
FinishStops(c, j, f, js, st, errors) ==
  /\ task' = [t \in Tasks |->
                IF t \in TasksOf(j) \ {f} /\ st[t] = "SCHEDULED"
                THEN "CANCELLED" ELSE st[t]]
  /\ owner' = ReleasedSlots(j)
  /\ place' = ReleasedPlaces(j)
  /\ job' = [js EXCEPT ![j] = IF c = Cancel(j) THEN AfterCancel(@, errors)
                                               ELSE AfterFailRun(@)]
  /\ frame' = [frame EXCEPT ![c] =
                 IF c = Reconcile /\ js[j] = "FAILING"
                 THEN Sweeping ELSE Idle]

\* _stop_tasks from deployed task number k downwards, until the next await: a
\* task that lost its placement meanwhile cannot be reached and is FAILED.
StopTasks(c, j, f, js, st, k, errors) ==
  LET D == DeployOrder[j]
      due == {i \in 1..k : D[i] # f /\ st[D[i]] \in Stoppable}
      reachable == {i \in due : place[D[i]] # NoPlace}
      unreachable(n) == {D[i] : i \in {m \in due : m > n}}
      Stopped(n) == [t \in Tasks |-> IF t \in unreachable(n) THEN "FAILED" ELSE st[t]]
  IN \/ \E i \in reachable :
          /\ \A m \in reachable : m <= i
          /\ task' = [Stopped(i) EXCEPT ![D[i]] = "CANCELLING"]
          /\ frame' = [frame EXCEPT ![c] = StopFrame(j, i, place[D[i]][1], f,
                                                     errors \/ unreachable(i) # {})]
          /\ job' = js
          /\ UNCHANGED <<place, owner>>
     \/ /\ reachable = {}
        /\ FinishStops(c, j, f, js, Stopped(0), errors \/ unreachable(0) # {})

\* _fail_run for failed task f, k tasks having been deployed.
FailRun(c, j, f, st, k) ==
  StopTasks(c, j, f,
            [job EXCEPT ![j] = DuringFailRun(@)],
            [st EXCEPT ![f] = IF @ \in {"FAILED", "CANCELLED"} THEN @ ELSE "FAILED"],
            k, FALSE)

-----------------------------------------------------------------------------
(* submit_job *)

\* From the request to the first deploy_task: the job gets its slots and the most
\* downstream task is sent to its worker.
SubmitJob(j) ==
  /\ job[j] = "NONE"
  /\ runs' = Append(runs, j)
  /\ job' = [job EXCEPT ![j] = "DEPLOYING"]
  /\ \E p \in ValidPlacements(j) :
       LET t == DeployOrder[j][1] IN
       /\ place' = [u \in Tasks |-> IF u \in TasksOf(j) THEN p[u] ELSE place[u]]
       /\ owner' = Reserved(j, p)
       /\ task' = [u \in Tasks |-> IF u = t THEN "DEPLOYING"
                                   ELSE IF u \in TasksOf(j) THEN "SCHEDULED"
                                   ELSE task[u]]
       /\ frame' = [frame EXCEPT ![Submit(j)] = DeployFrame(j, 1, p[t][1])]
  /\ UNCHANGED <<registryVars, deployed, sweep, worldVars>>

\* The artifact is refused or slots are missing.
RejectJob(j) ==
  /\ job[j] = "NONE"
  /\ runs' = Append(runs, j)
  /\ job' = [job EXCEPT ![j] = "REJECTED"]
  /\ UNCHANGED <<task, place, owner, registryVars, deployed, frame, sweep, worldVars>>

\* deploy_task answers, but the task left DEPLOYING during the await.
DeployedTooLate(j) ==
  LET c == Submit(j) t == Awaited(c) IN
  /\ frame[c].pc = "deploy" /\ frame[c].reached
  /\ task[t] # "DEPLOYING"
  /\ FailRun(c, j, t, task, deployed[j])
  /\ UNCHANGED <<registryVars, runs, deployed, sweep, worldVars>>

\* Mutant: the next deployment goes out whatever became of its task meanwhile.
DeployedRegardless(j) ==
  LET c == Submit(j)
      k == frame[c].at
      next == DeployOrder[j][k + 1]
  IN
  /\ frame[c].pc = "deploy" /\ frame[c].reached
  /\ task[Awaited(c)] = "DEPLOYING"
  /\ k < Len(DeployOrder[j])
  /\ deployed' = [deployed EXCEPT ![j] = k]
  /\ task' = [task EXCEPT ![Awaited(c)] = "RUNNING", ![next] = "DEPLOYING"]
  /\ frame' = [frame EXCEPT ![c] = DeployFrame(j, k + 1, place[next][1])]
  /\ UNCHANGED <<job, place, owner, registryVars, runs, sweep, worldVars>>

\* deploy_task answers for a task that is not the last: on to the next one, or
\* into _fail_run when that one is no longer SCHEDULED.
DeployedNext(j) ==
  LET c == Submit(j)
      k == frame[c].at
      next == DeployOrder[j][k + 1]
      st == [task EXCEPT ![Awaited(c)] = "RUNNING"]
  IN
  /\ frame[c].pc = "deploy" /\ frame[c].reached
  /\ task[Awaited(c)] = "DEPLOYING"
  /\ k < Len(DeployOrder[j])
  /\ deployed' = [deployed EXCEPT ![j] = k]
  /\ \/ /\ st[next] = "SCHEDULED" /\ place[next] # NoPlace
        /\ task' = [st EXCEPT ![next] = "DEPLOYING"]
        /\ frame' = [frame EXCEPT ![c] = DeployFrame(j, k + 1, place[next][1])]
        /\ UNCHANGED <<job, place, owner>>
     \/ /\ st[next] # "SCHEDULED" \/ place[next] = NoPlace
        /\ FailRun(c, j, next, st, k)
  /\ UNCHANGED <<registryVars, runs, sweep, worldVars>>

\* deploy_task answers for the last task; job.transition(RUNNING) raises, outside
\* the try, when the job is no longer DEPLOYING.
DeployedLast(j) ==
  LET c == Submit(j) IN
  /\ frame[c].pc = "deploy" /\ frame[c].reached
  /\ task[Awaited(c)] = "DEPLOYING"
  /\ frame[c].at = Len(DeployOrder[j])
  /\ deployed' = [deployed EXCEPT ![j] = frame[c].at]
  /\ task' = [task EXCEPT ![Awaited(c)] = "RUNNING"]
  /\ job' = [job EXCEPT ![j] = IF @ = "DEPLOYING" THEN "RUNNING" ELSE @]
  /\ frame' = [frame EXCEPT ![c] = Idle]
  /\ UNCHANGED <<place, owner, registryVars, runs, sweep, worldVars>>

\* deploy_task raises: refused, unreachable, timed out or the answer was lost.
DeployFails(j) ==
  LET c == Submit(j) IN
  /\ frame[c].pc = "deploy"
  /\ Lossy \/ host[Awaited(c)] = NoWorker
  /\ FailRun(c, j, Awaited(c), task, deployed[j])
  /\ UNCHANGED <<registryVars, runs, deployed, sweep, worldVars>>

DeployAnswered(j) ==
  DeployedTooLate(j) \/ DeployedNext(j) \/ DeployedLast(j) \/ DeployFails(j)

-----------------------------------------------------------------------------
(* cancel_job, report_task_status and the answers of stop_task *)

CancelJob(j) ==
  /\ job[j] = "RUNNING"
  /\ StopTasks(Cancel(j), j, NoTask, [job EXCEPT ![j] = "CANCELLING"], task,
               deployed[j], FALSE)
  /\ UNCHANGED <<registryVars, runs, deployed, sweep, worldVars>>

\* A worker's FAILED report is handled; for a FAILED task it changes nothing.
ReportArrives(t) ==
  /\ t \in pending
  /\ pending' = pending \ {t}
  /\ \/ /\ task[t] # "FAILED"
        /\ FailRun(Report(t), JobOf[t], t, task, deployed[JobOf[t]])
     \/ /\ task[t] = "FAILED"
        /\ UNCHANGED <<job, task, place, owner, frame>>
  /\ UNCHANGED <<registryVars, runs, deployed, sweep, alive, host, crashes>>

\* Any other status: the handler accepts it, this repository's worker sends none.
ReportOther(t, s) ==
  LET j == JobOf[t] IN
  /\ job[j] # "NONE"
  /\ s \in TaskTransitions[task[t]]
  /\ task' = [task EXCEPT ![t] = s]
  /\ job' = [job EXCEPT ![j] =
               IF @ = "DEPLOYING" /\ \A u \in TasksOf(j) : task'[u] = "RUNNING"
               THEN "RUNNING" ELSE @]
  /\ UNCHANGED <<place, owner, registryVars, runs, deployed, frame, sweep, worldVars>>

\* The continuation of _stop_tasks.  A task that another coroutine settled during
\* the await refuses both CANCELLED and FAILED: the exception ends the coroutine.
StopReturns(c, status) ==
  LET t == Awaited(c) IN
  \/ /\ task[t] = "CANCELLING"
     /\ StopTasks(c, frame[c].job, frame[c].failed, job, [task EXCEPT ![t] = status],
                  frame[c].at - 1, frame[c].errors \/ status = "FAILED")
  \/ /\ task[t] # "CANCELLING"
     /\ frame' = [frame EXCEPT ![c] = Idle]
     /\ UNCHANGED <<job, task, place, owner>>

StopSucceeds(c) ==
  /\ frame[c].pc = "stop" /\ frame[c].worker \in alive
  /\ StopReturns(c, "CANCELLED")
  /\ host' = [host EXCEPT ![Awaited(c)] = NoWorker]
  /\ UNCHANGED <<registryVars, runs, deployed, sweep, alive, pending, crashes>>

\* stop_task raises; the worker may have carried out the stop all the same.
StopFails(c) ==
  /\ frame[c].pc = "stop" /\ (Lossy \/ frame[c].worker \notin alive)
  /\ StopReturns(c, "FAILED")
  /\ host' \in {host, [host EXCEPT ![Awaited(c)] = NoWorker]}
  /\ UNCHANGED <<registryVars, runs, deployed, sweep, alive, pending, crashes>>

StopAnswered(c) == StopSucceeds(c) \/ StopFails(c)

-----------------------------------------------------------------------------
(* reconcile_worker_health *)

Suspects(j, healthy) ==
  {i \in 1..Len(TaskOrder[j]) :
     LET p == place[TaskOrder[j][i]] IN p # NoPlace /\ p[1] \notin healthy}

\* The loop over _runs from entry n to the next job that must fail, judged by the
\* health observed when the sweep began.
Sweep(n, healthy) ==
  LET hit == {m \in n..Len(runs) : /\ job[runs[m]] \in {"DEPLOYING", "RUNNING"}
                                   /\ Suspects(runs[m], healthy) # {}}
  IN \/ \E m \in hit : \E i \in Suspects(runs[m], healthy) :
          /\ \A x \in hit : m <= x
          /\ \A x \in Suspects(runs[m], healthy) : i <= x
          /\ FailRun(Reconcile, runs[m], TaskOrder[runs[m]][i], task, deployed[runs[m]])
          /\ sweep' = [next |-> m + 1, size |-> Len(runs), healthy |-> healthy]
     \/ /\ hit = {}
        /\ frame' = [frame EXCEPT ![Reconcile] = Idle]
        /\ sweep' = NoSweep
        /\ UNCHANGED <<job, task, place, owner>>

\* Mutant: the sweep leaves out the oldest job.
SweepsButFirst ==
  /\ frame[Reconcile].pc = "idle"
  /\ Sweep(2, fresh)
  /\ UNCHANGED <<registryVars, runs, deployed, worldVars>>

SweepStarts ==
  /\ frame[Reconcile].pc = "idle"
  /\ Sweep(1, fresh)
  /\ UNCHANGED <<registryVars, runs, deployed, worldVars>>

\* Iteration goes on after a job was failed.  A dict that grew meanwhile makes the
\* iterator raise; _reconcile_loop swallows the error and starts over.
SweepResumes ==
  /\ frame[Reconcile].pc = "sweep"
  /\ \/ /\ Len(runs) = sweep.size
        /\ Sweep(sweep.next, sweep.healthy)
     \/ /\ Len(runs) # sweep.size
        /\ frame' = [frame EXCEPT ![Reconcile] = Idle]
        /\ sweep' = NoSweep
        /\ UNCHANGED <<job, task, place, owner>>
  /\ UNCHANGED <<registryVars, runs, deployed, worldVars>>

-----------------------------------------------------------------------------
(* The workers, as the job manager's gateway sees them *)

\* The worker carries out the deployment; the answer is still on its way.
DeployReaches(j) ==
  LET c == Submit(j) IN
  /\ frame[c].pc = "deploy" /\ ~frame[c].reached /\ frame[c].worker \in alive
  /\ host' = [host EXCEPT ![Awaited(c)] = frame[c].worker]
  /\ frame' = [frame EXCEPT ![c].reached = TRUE]
  /\ UNCHANGED <<job, task, place, owner, registryVars, runs, deployed, sweep, alive,
                 pending, crashes>>

\* A running task fails on its worker, which reports it once.
TaskFails(t) ==
  /\ host[t] # NoWorker
  /\ host' = [host EXCEPT ![t] = NoWorker]
  /\ pending' = pending \cup {t}
  /\ UNCHANGED <<job, task, place, owner, registryVars, runs, deployed, frame, sweep,
                 alive, crashes>>

ReportLost(t) ==
  /\ Lossy /\ t \in pending
  /\ pending' = pending \ {t}
  /\ UNCHANGED <<job, task, place, owner, registryVars, runs, deployed, frame, sweep,
                 alive, host, crashes>>

WorkerCrashes(w) ==
  /\ w \in alive /\ crashes < MaxCrashes
  /\ alive' = alive \ {w}
  /\ host' = [t \in Tasks |-> IF host[t] = w THEN NoWorker ELSE host[t]]
  /\ crashes' = crashes + 1
  /\ UNCHANGED <<job, task, place, owner, registryVars, runs, deployed, frame, sweep,
                 pending>>

-----------------------------------------------------------------------------
Next ==
  \/ \E j \in Jobs : SubmitJob(j) \/ RejectJob(j) \/ CancelJob(j)
                       \/ DeployReaches(j) \/ DeployAnswered(j)
  \/ \E t \in Tasks : \/ TaskFails(t) \/ ReportArrives(t) \/ ReportLost(t)
                      \/ \E s \in OtherReports : ReportOther(t, s)
  \/ \E c \in Coroutines : StopAnswered(c)
  \/ \E w \in Workers : \/ Heartbeat(w) \/ HeartbeatExpires(w) \/ WorkerCrashes(w)
                        \/ \E n \in SlotCounts : RegisterWorker(w, n)
  \/ SweepStarts \/ SweepResumes

\* The gateway answers or times out and the event loop, with it the reconcile loop, goes
\* on: of the coroutines that can, some one resumes.  Less than asyncio promises, which
\* is fair to each of them, and enough.
Resumes(c) ==
  \/ StopAnswered(c)
  \/ \E j \in Jobs : c = Submit(j) /\ DeployAnswered(j)
  \/ c = Reconcile /\ (SweepStarts \/ SweepResumes)

Fairness == WF_vars(\E c \in Coroutines : Resumes(c))

Spec == Init /\ [][Next]_vars

FairSpec == Spec /\ Fairness

-----------------------------------------------------------------------------
(* Properties *)

\* Every variable keeps its type; a suspended coroutine awaits an existing task.
TypeOK ==
  /\ job \in [Jobs -> JobStatus]
  /\ task \in [Tasks -> TaskStatus]
  /\ place \in [Tasks -> Places \cup {NoPlace}]
  /\ owner \in [Workers -> [SlotIds -> Tasks \cup {NoTask}]]
  /\ total \in [Workers -> 0..MaxSlots]
  /\ fresh \subseteq Workers
  /\ runs \in Seq(Jobs)
  /\ deployed \in [Jobs -> Nat]
  /\ \A j \in Jobs : deployed[j] \in 0..Len(DeployOrder[j])
  /\ frame \in [Coroutines -> Frames]
  /\ \A c \in Coroutines : frame[c].pc \in {"deploy", "stop"} =>
       frame[c].job \in Jobs /\ frame[c].at \in 1..Len(DeployOrder[frame[c].job])
  /\ \A j \in Jobs : frame[Submit(j)].pc = "deploy" => frame[Submit(j)].job = j
  /\ sweep \in [next : Nat \ {0}, size : Nat, healthy : SUBSET Workers]
  /\ alive \subseteq Workers
  /\ host \in [Tasks -> Workers \cup {NoWorker}]
  /\ pending \subseteq Tasks
  /\ crashes \in 0..MaxCrashes

\* A slot carries a task's id exactly when the task is placed on that slot: the
\* two books, WorkerSlot.task_id and TaskInstance.worker_id/slot_index, agree after
\* scheduling, releases by racing coroutines and re-registration of a worker.
SlotBooksAgree ==
  \A t \in Tasks, w \in Workers, i \in SlotIds :
    owner[w][i] = t <=> place[t] = <<w, i>>

\* A job that is REJECTED, FAILED or CANCELLED holds no slot, whichever of the
\* coroutines that clean up after it settled it.
SettledJobsHoldNoSlots ==
  \A t \in Tasks : job[JobOf[t]] \in Settled => place[t] = NoPlace

\* A job that shows RUNNING has every task RUNNING and on a slot, no coroutine
\* having begun to stop one.
RunningJobsAreWhole ==
  \A t \in Tasks : job[JobOf[t]] = "RUNNING" =>
    task[t] = "RUNNING" /\ place[t] # NoPlace

\* While a job is DEPLOYING exactly the tasks after the one in flight wait: every
\* task downstream of it runs, so upstream never starts before its consumers.
DownstreamFirst ==
  \A j \in Jobs : job[j] = "DEPLOYING" =>
    /\ frame[Submit(j)].pc = "deploy"
    /\ \A i \in 1..Len(DeployOrder[j]) :
         LET t == DeployOrder[j][i] k == frame[Submit(j)].at IN
         /\ place[t] # NoPlace
         /\ task[t] = IF i < k THEN "RUNNING"
                      ELSE IF i = k THEN "DEPLOYING" ELSE "SCHEDULED"

\* No two coroutines await the stop of one task, however many clean up the job.
OneStopPerTask ==
  \A c, d \in Coroutines :
    frame[c].pc = "stop" /\ frame[d].pc = "stop" /\ Awaited(c) = Awaited(d) => c = d

\* When cancel_job ends with CANCELLED no task of the job runs on any worker,
\* answers lost on the way included.
CancelledJobsAreGone ==
  \A t \in Tasks : job[JobOf[t]] = "CANCELLED" => host[t] = NoWorker

\* A task is sent to a worker only for a job that has not settled, although
\* submit_job does not look at the job's status between two deployments.
NoDeployOnceSettled ==
  [][\A j \in Jobs : job[j] \in Settled =>
       ~(frame'[Submit(j)].pc = "deploy" /\ frame'[Submit(j)] # frame[Submit(j)]
           /\ ~frame'[Submit(j)].reached)]_vars

\* It never happens that there is always a job between states: a failing one fails, although its cleanup may
\* be ended by an exception when a second failure settles the task it is stopping; a
\* cancelled one settles, also when a failure report overtakes the cancel; and
\* submit_job leaves none in DEPLOYING.
JobsSettle ==
  ~<>[](\E j \in Jobs : job[j] \in {"DEPLOYING", "FAILING", "CANCELLING"})

\* It never happens that there is always a RUNNING job with a task on an unhealthy
\* worker: the reconcile loop fails it although sweeps may be cut short.
DeadWorkersFailJobs ==
  ~<>[](\E t \in Tasks : job[JobOf[t]] = "RUNNING" /\ place[t][1] \notin fresh)

\* What the code's own description promises of every failed job: the other tasks are
\* stopped.  Nothing of the job is left on a worker once it is FAILED and no coroutine
\* works on it any more; each task of it that runs would run without a slot.
Quiet(j) == \A c \in Coroutines : frame[c].job # j

FailedJobsLeaveNothing ==
  \A t \in Tasks :
    job[JobOf[t]] = "FAILED" /\ Quiet(JobOf[t]) => host[t] = NoWorker

-----------------------------------------------------------------------------
(* Implementation of SlotLease *)

LeasePhase(j) ==
  IF job[j] = "NONE" THEN "waiting"
  ELSE IF \E t \in TasksOf(j) : place[t] # NoPlace THEN "holding" ELSE "over"

Lease == INSTANCE SlotLease WITH
  Slots <- Places, NoSlot <- NoPlace, lease <- place,
  phase <- [j \in Jobs |-> LeasePhase(j)]

\* Slots are granted to a whole job at once, each to one task only, and given back
\* at once and for good: schedule and release as seen through all interleavings.
ImplementsSlotLease == Lease!Spec
=============================================================================
