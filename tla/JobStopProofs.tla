--------------------------- MODULE JobStopProofs ---------------------------
(***************************************************************************)
(* Who stops a task and who deploys one, for every set of jobs, tasks and  *)
(* workers, and whatever statuses are reported; and what a cancel leaves   *)
(* on the workers, when they report failures only.                         *)
(***************************************************************************)
EXTENDS JobManagerProofs

-----------------------------------------------------------------------------
(* The invariant and the shape of every step *)

\* A task that somebody stops, or that has ended, does not come back.
Past == {"CANCELLING", "CANCELLED", "FAILED"}

AwaitedBy(fr) == DeployOrder[fr.job][fr.at]

\* Only jobs that were submitted have coroutines, runtimes and reports.
CoroutinesOfKnown ==
  \A c \in Coroutines : frame[c].pc \in {"deploy", "stop"} => job[frame[c].job] # "NONE"

StoppedArePast ==
  \A c \in Coroutines : frame[c].pc = "stop" => task[AwaitedBy(frame[c])] \in Past

StopInv == CoroutinesOfKnown /\ WorkersKnowOnlyKnown /\ StoppedArePast /\ OneStopPerTask

\* The frame that a coroutine goes on to: it stops a task nobody stops yet, or deploys
\* one whose job is new or still has its slots.
NewFrame(c) ==
  LET fr == frame'[c] IN
  /\ fr.pc \in {"deploy", "stop"} => job'[fr.job] # "NONE"
  /\ fr.pc = "stop" => task[AwaitedBy(fr)] \notin Past /\ task'[AwaitedBy(fr)] \in Past
  /\ fr.pc = "deploy" /\ ~fr.reached =>
       job[fr.job] = "NONE" \/ \E t \in TasksOf(fr.job) : place[t] # NoPlace

\* No job is forgotten, and no task of a submitted job comes back.
NothingReturns ==
  /\ \A j \in Jobs : job'[j] = "NONE" => job[j] = "NONE"
  /\ \A t \in Tasks : task[t] \in Past /\ job[JobOf[t]] # "NONE" => task'[t] \in Past

\* A step lets at most one coroutine go on.
GoesOn(c) ==
  /\ NothingReturns
  /\ \A d \in Coroutines \ {c} : frame'[d] = frame[d]
  /\ frame'[c] = frame[c] \/ NewFrame(c)

\* Workers learn of submitted jobs only.
WorkersLearnKnown ==
  \A t \in Tasks : host'[t] # NoWorker \/ t \in pending' =>
    host[t] # NoWorker \/ t \in pending \/ job[JobOf[t]] # "NONE"

LEMMA AwaitedIsAwaitedBy == ASSUME NEW c PROVE Awaited(c) = AwaitedBy(frame[c])
BY DEF Awaited, AwaitedBy

\* What a coroutine stops belongs to the job it works for.
LEMMA AwaitedByType ==
  ASSUME StopTyped, NEW c \in Coroutines, frame[c].pc \in {"deploy", "stop"}
  PROVE  /\ frame[c].job \in Jobs /\ AwaitedBy(frame[c]) \in Tasks
         /\ JobOf[AwaitedBy(frame[c])] = frame[c].job
BY AwaitedType, AwaitedIsAwaitedBy DEF TasksOf

\* A step of this shape keeps the invariant: the task newly stopped was stopped by
\* nobody, and all others are stopped as before.
LEMMA GoesOnKeepsStopInv ==
  ASSUME TypeOK, TypeOK', StopInv, NEW c \in Coroutines, GoesOn(c), WorkersLearnKnown
  PROVE  StopInv'
<1>0. StopTyped /\ StopTyped'
  BY TypeOKSplit, TypeOKSplitNext
<1>1. \A t \in Tasks : JobOf[t] \in Jobs
  BY GraphAssumption
<1>2. ASSUME NEW d \in Coroutines, frame'[d] = frame[d]
      PROVE  /\ frame'[d].pc \in {"deploy", "stop"} => job'[frame'[d].job] # "NONE"
             /\ frame'[d].pc = "stop" => task'[AwaitedBy(frame'[d])] \in Past
  <2>1. CASE frame[d].pc \in {"deploy", "stop"}
    <3>1. /\ frame[d].job \in Jobs /\ AwaitedBy(frame[d]) \in Tasks
          /\ JobOf[AwaitedBy(frame[d])] = frame[d].job
      BY <1>0, <2>1, AwaitedByType
    <3>2. job[frame[d].job] # "NONE"
      BY <2>1 DEF StopInv, CoroutinesOfKnown
    <3> QED
      BY <1>2, <3>1, <3>2 DEF GoesOn, NothingReturns, StopInv, StoppedArePast
  <2>2. CASE frame[d].pc \notin {"deploy", "stop"}
    BY <1>2, <2>2
  <2> QED
    BY <2>1, <2>2
<1>3. CoroutinesOfKnown'
  BY <1>2 DEF GoesOn, NewFrame, CoroutinesOfKnown
<1>4. StoppedArePast'
  <2> SUFFICES ASSUME NEW d \in Coroutines, frame'[d].pc = "stop"
               PROVE  task'[AwaitedBy(frame'[d])] \in Past
    BY DEF StoppedArePast, AwaitedBy
  <2> QED
    BY <1>2 DEF GoesOn, NewFrame
<1>5. WorkersKnowOnlyKnown'
  BY <1>1 DEF StopInv, WorkersKnowOnlyKnown, WorkersLearnKnown, GoesOn, NothingReturns
<1>6. OneStopPerTask'
  <2> SUFFICES ASSUME NEW a \in Coroutines, NEW b \in Coroutines, a # b,
                      frame'[a].pc = "stop", frame'[b].pc = "stop",
                      AwaitedBy(frame'[a]) = AwaitedBy(frame'[b])
               PROVE  FALSE
    BY DEF OneStopPerTask, Awaited, AwaitedBy
  <2>1. \A d \in Coroutines : frame'[d] = frame[d] /\ frame[d].pc = "stop" =>
          task[AwaitedBy(frame[d])] \in Past
    BY DEF StopInv, StoppedArePast
  <2>2. CASE frame'[a] = frame[a] /\ frame'[b] = frame[b]
    BY <2>2, AwaitedIsAwaitedBy DEF StopInv, OneStopPerTask
  <2>3. CASE c \in {a, b} /\ NewFrame(c)
    BY <2>1, <2>3 DEF GoesOn, NewFrame
  <2> QED
    BY <2>2, <2>3 DEF GoesOn
<1> QED
  BY <1>3, <1>4, <1>5, <1>6 DEF StopInv

-----------------------------------------------------------------------------
(* Every step has this shape *)

\* _stop_tasks goes on to a task that may still be stopped, or ends.
LEMMA StopTasksGoesOn ==
  ASSUME StopTyped, NEW c \in Coroutines, NEW j \in Jobs, NEW f,
         NEW js \in [Jobs -> JobStatus], NEW st \in [Tasks -> TaskStatus],
         NEW k \in 0..Len(DeployOrder[j]), NEW errors,
         js[j] # "NONE", \A i \in Jobs \ {j} : js[i] = job[i],
         \A t \in Tasks : task[t] \in Past => st[t] \in Past,
         StopTasks(c, j, f, js, st, k, errors)
  PROVE  GoesOn(c)
<1> DEFINE D == DeployOrder[j]
           due == {i \in 1..k : D[i] # f /\ st[D[i]] \in Stoppable}
           reachable == {i \in due : place[D[i]] # NoPlace}
           unreachable(n) == {D[i] : i \in {m \in due : m > n}}
           Stopped(n) == [t \in Tasks |-> IF t \in unreachable(n) THEN "FAILED" ELSE st[t]]
<1>1. \A n : \A t \in Tasks : task[t] \in Past => Stopped(n)[t] \in Past
  BY DEF Past
<1>2. frame \in [Coroutines -> Frames]
  BY DEF StopTyped
<1>3. CASE reachable = {} /\ FinishStops(c, j, f, js, Stopped(0), errors \/ unreachable(0) # {})
  <2> DEFINE e == errors \/ unreachable(0) # {}
             s == Stopped(0)
  <2>1. \A t \in Tasks : task[t] \in Past => s[t] \in Past
    BY <1>1
  <2>2. FinishStops(c, j, f, js, s, e)
    BY <1>3
  <2> HIDE DEF e, s
  <2>3. NothingReturns
    BY <2>1, <2>2 DEF FinishStops, AfterCancel, AfterFailRun, NothingReturns, Past
  <2>4. PICK fr \in {Idle, Sweeping} : frame' = [frame EXCEPT ![c] = fr]
    BY <2>2 DEF FinishStops
  <2>5. fr.pc \notin {"deploy", "stop"}
    BY <2>4, RestFrames
  <2> QED
    BY <1>2, <2>3, <2>4, <2>5 DEF GoesOn, NewFrame
<1>4. ASSUME NEW i \in reachable,
             task' = [Stopped(i) EXCEPT ![D[i]] = "CANCELLING"],
             frame' = [frame EXCEPT ![c] = StopFrame(j, i, place[D[i]][1], f,
                                                     errors \/ unreachable(i) # {})],
             job' = js, UNCHANGED <<place, owner>>
      PROVE  GoesOn(c)
  <2>1. D[i] \in Tasks /\ task[D[i]] \notin Past
    BY DeployOrderType DEF Stoppable, Past
  <2>2. task'[D[i]] \in Past /\ \A t \in Tasks : task[t] \in Past => task'[t] \in Past
    BY <1>1, <1>4, <2>1 DEF Past
  <2>3. PICK w, e : frame' = [frame EXCEPT ![c] = StopFrame(j, i, w, f, e)]
    BY <1>4
  <2>4. /\ frame'[c].pc = "stop" /\ frame'[c].job = j /\ frame'[c].at = i
        /\ \A d \in Coroutines \ {c} : frame'[d] = frame[d]
    BY <1>2, <2>3 DEF StopFrame, FrameOf
  <2>5. AwaitedBy(frame'[c]) = D[i]
    BY <2>4 DEF AwaitedBy
  <2>6. NothingReturns
    BY <1>4, <2>2 DEF NothingReturns
  <2> QED
    BY <1>4, <2>1, <2>2, <2>4, <2>5, <2>6 DEF GoesOn, NewFrame
<1> QED
  BY <1>3, <1>4 DEF StopTasks

\* _fail_run marks the failed task first.
LEMMA FailRunGoesOn ==
  ASSUME StopTyped, NEW c \in Coroutines, NEW j \in Jobs, NEW f \in Tasks,
         NEW st \in [Tasks -> TaskStatus], NEW k \in 0..Len(DeployOrder[j]),
         job[j] # "NONE", \A t \in Tasks : task[t] \in Past => st[t] \in Past,
         FailRun(c, j, f, st, k)
  PROVE  GoesOn(c)
<1> DEFINE js == [job EXCEPT ![j] = IF @ \in {"DEPLOYING", "RUNNING", "CANCELLING"}
                                    THEN "FAILING" ELSE @]
           failed == [st EXCEPT ![f] = IF @ \in {"FAILED", "CANCELLED"}
                                       THEN @ ELSE "FAILED"]
<1>1. /\ js \in [Jobs -> JobStatus] /\ js[j] # "NONE"
      /\ \A i \in Jobs \ {j} : js[i] = job[i]
  BY DEF StopTyped, JobStatus
<1>2. failed \in [Tasks -> TaskStatus] /\ \A t \in Tasks : task[t] \in Past => failed[t] \in Past
  BY DEF TaskStatus, Past
<1>3. StopTasks(c, j, f, js, failed, k, FALSE)
  BY DEF FailRun, DuringFailRun
<1> HIDE DEF js, failed
<1> QED
  BY <1>1, <1>2, <1>3, StopTasksGoesOn

\* Steps that leave jobs, tasks and coroutines alone.
LEMMA WorldGoesOn ==
  ASSUME TypeOK, StopInv, NEW c \in Coroutines, UNCHANGED <<job, task, frame>>
  PROVE  GoesOn(c)
BY DEF GoesOn, NothingReturns

LEMMA SubmitGoesOn ==
  ASSUME TypeOK, StopInv, NEW j \in Jobs, SubmitJob(j) \/ RejectJob(j)
  PROVE  GoesOn(Submit(j)) /\ WorkersLearnKnown
<1>0. StopTyped /\ RestTyped
  BY TypeOKSplit
<1>1. WorkersLearnKnown
  BY DEF SubmitJob, RejectJob, worldVars, WorkersLearnKnown
<1>2. job[j] = "NONE" /\ \E s \in {"DEPLOYING", "REJECTED"} : job' = [job EXCEPT ![j] = s]
  BY DEF SubmitJob, RejectJob
<1>3. \A t \in Tasks \ TasksOf(j) : task'[t] = task[t]
  <2>1. ASSUME SubmitJob(j), NEW t \in Tasks \ TasksOf(j) PROVE task'[t] = task[t]
    <3>1. DeployOrder[j][1] \in TasksOf(j)
      BY DeployOrderType
    <3> QED
      BY <2>1, <3>1 DEF SubmitJob
  <2> QED
    BY <2>1 DEF RejectJob
<1>4. NothingReturns
  BY <1>0, <1>2, <1>3 DEF NothingReturns, StopTyped, TasksOf
<1>5. CASE RejectJob(j)
  BY <1>1, <1>4, <1>5 DEF RejectJob, GoesOn
<1>6. CASE SubmitJob(j)
  <2>1. PICK w : frame' = [frame EXCEPT ![Submit(j)] = DeployFrame(j, 1, w)]
    BY <1>6 DEF SubmitJob
  <2>2. frame'[Submit(j)].pc = "deploy" /\ frame'[Submit(j)].job = j
    BY <1>0, <2>1, CoroutineNames DEF StopTyped, DeployFrame, FrameOf
  <2>3. \A d \in Coroutines \ {Submit(j)} : frame'[d] = frame[d]
    BY <1>0, <2>1 DEF StopTyped
  <2>4. job'[j] = "DEPLOYING"
    BY <1>0, <1>6 DEF SubmitJob, StopTyped
  <2> QED
    BY <1>1, <1>2, <1>4, <2>2, <2>3, <2>4 DEF GoesOn, NewFrame
<1> QED
  BY <1>5, <1>6

\* Between two deployments the next task must still have its slot.
LEMMA DeployGoesOn ==
  ASSUME TypeOK, StopInv, NEW j \in Jobs, DeployAnswered(j)
  PROVE  GoesOn(Submit(j)) /\ WorkersLearnKnown
<1> DEFINE c == Submit(j)
           t == Awaited(c)
<1>0. StopTyped /\ RestTyped /\ c \in Coroutines
  BY TypeOKSplit, CoroutineNames
<1>1. frame[c].pc = "deploy" /\ UNCHANGED <<host, pending>>
  BY DEF DeployAnswered, DeployedTooLate, DeployedNext, DeployedLast, DeployFails, worldVars
<1>2. frame[c].job = j /\ job[j] # "NONE" /\ t \in Tasks /\ t \in TasksOf(j)
  BY <1>0, <1>1, AwaitedType DEF StopTyped, StopInv, CoroutinesOfKnown
<1>3. WorkersLearnKnown
  BY <1>1 DEF WorkersLearnKnown
<1>4. /\ task \in [Tasks -> TaskStatus] /\ deployed[j] \in 0..Len(DeployOrder[j])
      /\ frame \in [Coroutines -> Frames] /\ job \in [Jobs -> JobStatus]
      /\ frame[c].at \in 1..Len(DeployOrder[j])
  BY <1>0, <1>1, <1>2, AwaitedType DEF StopTyped, RestTyped
<1>5. CASE DeployedTooLate(j)
  <2>1. FailRun(c, j, t, task, deployed[j])
    BY <1>5 DEF DeployedTooLate
  <2> QED
    BY <1>0, <1>2, <1>3, <1>4, <2>1, FailRunGoesOn
<1>6. CASE DeployFails(j)
  <2>1. FailRun(c, j, t, task, deployed[j])
    BY <1>6 DEF DeployFails
  <2> QED
    BY <1>0, <1>2, <1>3, <1>4, <2>1, FailRunGoesOn
<1>7. CASE DeployedLast(j)
  <2>1. /\ task[t] = "DEPLOYING" /\ task' = [task EXCEPT ![t] = "RUNNING"]
        /\ frame' = [frame EXCEPT ![c] = Idle]
        /\ \E s \in {job[j], "RUNNING"} : job' = [job EXCEPT ![j] = s]
    BY <1>4, <1>7 DEF DeployedLast
  <2>2. NothingReturns
    BY <1>2, <1>4, <2>1 DEF NothingReturns, Past
  <2>3. NewFrame(c) /\ \A d \in Coroutines \ {c} : frame'[d] = frame[d]
    BY <1>0, <1>4, <2>1, RestFrames DEF NewFrame
  <2> QED
    BY <1>3, <2>2, <2>3 DEF GoesOn
<1>8. CASE DeployedNext(j)
  <2> DEFINE k == frame[c].at
             next == DeployOrder[j][k + 1]
             st == [task EXCEPT ![t] = "RUNNING"]
  <2>1. /\ task[t] = "DEPLOYING" /\ k < Len(DeployOrder[j])
    BY <1>8 DEF DeployedNext
  <2>2. /\ next \in TasksOf(j) /\ next \in Tasks /\ k \in 0..Len(DeployOrder[j])
    BY <1>4, <2>1, DeployOrderType
  <2>3. st \in [Tasks -> TaskStatus] /\ \A u \in Tasks : task[u] \in Past => st[u] \in Past
    BY <1>2, <1>4, <2>1 DEF TaskStatus, Past
  <2>4. CASE FailRun(c, j, next, st, k)
    <3> HIDE DEF st, next, k
    <3> QED
      BY <1>0, <1>2, <1>3, <2>2, <2>3, <2>4, FailRunGoesOn
  <2>5. CASE /\ st[next] = "SCHEDULED" /\ place[next] # NoPlace
             /\ task' = [st EXCEPT ![next] = "DEPLOYING"]
             /\ frame' = [frame EXCEPT ![c] = DeployFrame(j, k + 1, place[next][1])]
             /\ UNCHANGED <<job, place, owner>>
    <3>1. \A u \in Tasks : task[u] \in Past => task'[u] \in Past
      BY <2>2, <2>3, <2>5 DEF Past
    <3>2. NothingReturns
      BY <2>5, <3>1 DEF NothingReturns
    <3>3. PICK n, w : frame' = [frame EXCEPT ![c] = DeployFrame(j, n, w)]
      BY <2>5
    <3>4. /\ frame'[c].pc = "deploy" /\ frame'[c].job = j
          /\ \A d \in Coroutines \ {c} : frame'[d] = frame[d]
      BY <1>0, <1>4, <3>3 DEF DeployFrame, FrameOf
    <3>5. NewFrame(c)
      BY <1>2, <2>2, <2>5, <3>4 DEF NewFrame
    <3> QED
      BY <1>3, <3>2, <3>4, <3>5 DEF GoesOn
  <2> QED
    BY <1>8, <2>4, <2>5 DEF DeployedNext
<1> QED
  BY <1>5, <1>6, <1>7, <1>8 DEF DeployAnswered

LEMMA DeployReachesGoesOn ==
  ASSUME TypeOK, StopInv, NEW j \in Jobs, DeployReaches(j)
  PROVE  GoesOn(Submit(j)) /\ WorkersLearnKnown
<1> DEFINE c == Submit(j)
<1>0. StopTyped /\ RestTyped /\ c \in Coroutines
  BY TypeOKSplit, CoroutineNames
<1>1. /\ frame[c].pc = "deploy" /\ frame' = [frame EXCEPT ![c].reached = TRUE]
      /\ UNCHANGED <<job, task, pending>>
      /\ host' = [host EXCEPT ![Awaited(c)] = frame[c].worker]
  BY DEF DeployReaches
<1>2. Awaited(c) \in Tasks /\ JobOf[Awaited(c)] = frame[c].job /\ job[frame[c].job] # "NONE"
  BY <1>0, <1>1, AwaitedType DEF TasksOf, StopInv, CoroutinesOfKnown
<1>3. WorkersLearnKnown
  BY <1>0, <1>1, <1>2 DEF WorkersLearnKnown, RestTyped
<1>4. /\ frame'[c].pc = "deploy" /\ frame'[c].reached /\ frame'[c].job = frame[c].job
      /\ \A d \in Coroutines \ {c} : frame'[d] = frame[d]
  BY <1>0, <1>1 DEF StopTyped, Frames
<1>5. NewFrame(c)
  BY <1>1, <1>2, <1>4 DEF NewFrame
<1> QED
  BY <1>1, <1>3, <1>4, <1>5 DEF GoesOn, NothingReturns

\* The coroutines that stop the tasks of a job.
LEMMA CleanupGoesOn ==
  ASSUME TypeOK, StopInv,
         \/ \E j \in Jobs : CancelJob(j)
         \/ \E t \in Tasks : ReportArrives(t)
         \/ \E c \in Coroutines : StopAnswered(c)
         \/ SweepStarts \/ SweepResumes
  PROVE  WorkersLearnKnown /\ \E c \in Coroutines : GoesOn(c)
<1>0. StopTyped /\ RestTyped
  BY TypeOKSplit
<1>a. /\ task \in [Tasks -> TaskStatus] /\ frame \in [Coroutines -> Frames]
      /\ \A j \in Jobs : deployed[j] \in 0..Len(DeployOrder[j])
  BY <1>0 DEF StopTyped, RestTyped
\* A coroutine that only ends.
<1>b. ASSUME NEW c \in Coroutines, frame' = [frame EXCEPT ![c] = Idle],
             UNCHANGED <<job, task>>
      PROVE  GoesOn(c)
  BY <1>a, <1>b, RestFrames DEF GoesOn, NewFrame, NothingReturns
<1>1. ASSUME NEW j \in Jobs, CancelJob(j)
      PROVE  WorkersLearnKnown /\ \E c \in Coroutines : GoesOn(c)
  <2> DEFINE js == [job EXCEPT ![j] = "CANCELLING"]
  <2>1. js \in [Jobs -> JobStatus] /\ js[j] # "NONE" /\ \A i \in Jobs \ {j} : js[i] = job[i]
    BY <1>0 DEF StopTyped, JobStatus
  <2>2. StopTasks(Cancel(j), j, NoTask, js, task, deployed[j], FALSE)
    BY <1>1 DEF CancelJob
  <2> HIDE DEF js
  <2>3. GoesOn(Cancel(j))
    BY <1>0, <1>a, <2>1, <2>2, CoroutineNames, StopTasksGoesOn
  <2> QED
    BY <1>1, <2>3, CoroutineNames DEF CancelJob, worldVars, WorkersLearnKnown
<1>2. ASSUME NEW t \in Tasks, ReportArrives(t)
      PROVE  WorkersLearnKnown /\ \E c \in Coroutines : GoesOn(c)
  <2> DEFINE j == JobOf[t]
  <2>1. j \in Jobs /\ job[j] # "NONE"
    BY <1>2, GraphAssumption DEF ReportArrives, StopInv, WorkersKnowOnlyKnown
  <2>2. WorkersLearnKnown
    BY <1>2 DEF ReportArrives, WorkersLearnKnown
  <2>3. CASE FailRun(Report(t), j, t, task, deployed[j])
    BY <1>0, <1>a, <2>1, <2>2, <2>3, CoroutineNames, FailRunGoesOn
  <2>4. CASE UNCHANGED <<job, task, place, owner, frame>>
    BY <2>2, <2>4, WorldGoesOn, CoroutineNames
  <2> QED
    BY <1>2, <2>3, <2>4 DEF ReportArrives
<1>3. ASSUME NEW c \in Coroutines, StopAnswered(c)
      PROVE  WorkersLearnKnown /\ GoesOn(c)
  <2> DEFINE j == frame[c].job
  <2>1. PICK s \in {"CANCELLED", "FAILED"} : StopReturns(c, s)
    BY <1>3 DEF StopAnswered, StopSucceeds, StopFails
  <2>2. frame[c].pc = "stop"
    BY <1>3 DEF StopAnswered, StopSucceeds, StopFails
  <2>3. /\ j \in Jobs /\ frame[c].at - 1 \in 0..Len(DeployOrder[j]) /\ Awaited(c) \in Tasks
    BY <1>0, <2>2, AwaitedType, DeployOrderType
  <2>4. job[j] # "NONE" /\ job \in [Jobs -> JobStatus]
    BY <1>0, <2>2 DEF StopInv, CoroutinesOfKnown, StopTyped
  <2>5. \A t \in Tasks : host'[t] # NoWorker => host[t] # NoWorker
    BY <1>3, <2>3 DEF StopAnswered, StopSucceeds, StopFails, TypeOK
  <2>6. WorkersLearnKnown
    BY <1>3, <2>5 DEF StopAnswered, StopSucceeds, StopFails, WorkersLearnKnown
  <2>7. CASE task[Awaited(c)] = "CANCELLING"
    <3> DEFINE st == [task EXCEPT ![Awaited(c)] = s]
    <3>1. /\ st \in [Tasks -> TaskStatus]
          /\ \A t \in Tasks : task[t] \in Past => st[t] \in Past
      BY <1>a, <2>3 DEF TaskStatus, Past
    <3>2. PICK e : StopTasks(c, j, frame[c].failed, job, st, frame[c].at - 1, e)
      BY <2>1, <2>7 DEF StopReturns
    <3> HIDE DEF st
    <3> QED
      BY <1>0, <2>3, <2>4, <2>6, <3>1, <3>2, StopTasksGoesOn
  <2>8. CASE task[Awaited(c)] # "CANCELLING"
    BY <1>b, <2>1, <2>6, <2>8 DEF StopReturns
  <2> QED
    BY <2>7, <2>8
<1>4. CASE SweepStarts \/ SweepResumes
  <2>1. WorkersLearnKnown
    BY <1>4 DEF SweepStarts, SweepResumes, worldVars, WorkersLearnKnown
  <2>2. CASE /\ frame' = [frame EXCEPT ![Reconcile] = Idle]
             /\ UNCHANGED <<job, task, place, owner>>
    BY <1>b, <2>1, <2>2, CoroutineNames
  <2>3. ASSUME NEW n \in Nat \ {0}, NEW h, Sweep(n, h)
        PROVE  GoesOn(Reconcile)
    <3>1. ASSUME NEW m \in n..Len(runs), NEW i \in Suspects(runs[m], h),
                 job[runs[m]] \in {"DEPLOYING", "RUNNING"},
                 FailRun(Reconcile, runs[m], TaskOrder[runs[m]][i], task, deployed[runs[m]])
          PROVE  GoesOn(Reconcile)
      <4>1. runs[m] \in Jobs
        BY <1>0 DEF RestTyped
      <4>2. TaskOrder[runs[m]][i] \in Tasks
        BY <4>1, TaskOrderType DEF Suspects, TasksOf
      <4> QED
        BY <1>0, <1>a, <3>1, <4>1, <4>2, CoroutineNames, FailRunGoesOn
    <3> QED
      BY <1>b, <2>3, <3>1, CoroutineNames DEF Sweep
  <2>4. sweep.next \in Nat \ {0}
    BY <1>0 DEF RestTyped
  <2> QED
    BY <1>4, <2>1, <2>2, <2>3, <2>4, CoroutineNames DEF SweepStarts, SweepResumes
<1> QED
  BY <1>1, <1>2, <1>3, <1>4

\* Reports, workers and their heartbeats.
LEMMA OthersGoOn ==
  ASSUME TypeOK, StopInv,
         \/ \E t \in Tasks : \/ TaskFails(t) \/ ReportLost(t)
                             \/ \E s \in OtherReports : ReportOther(t, s)
         \/ \E w \in Workers : \/ Heartbeat(w) \/ HeartbeatExpires(w) \/ WorkerCrashes(w)
                               \/ \E n \in SlotCounts : RegisterWorker(w, n)
  PROVE  WorkersLearnKnown /\ GoesOn(Reconcile)
<1>0. StopTyped /\ RestTyped
  BY TypeOKSplit
<1>1. ASSUME NEW t \in Tasks, TaskFails(t) \/ ReportLost(t)
      PROVE  WorkersLearnKnown /\ GoesOn(Reconcile)
  <2>1. UNCHANGED <<job, task, frame>>
    BY <1>1 DEF TaskFails, ReportLost
  <2>2. WorkersLearnKnown
    BY <1>0, <1>1 DEF TaskFails, ReportLost, WorkersLearnKnown, RestTyped
  <2> QED
    BY <2>1, <2>2, WorldGoesOn, CoroutineNames
<1>2. ASSUME NEW t \in Tasks, NEW s \in OtherReports, ReportOther(t, s)
      PROVE  WorkersLearnKnown /\ GoesOn(Reconcile)
  <2>1. /\ s \in TaskTransitions[task[t]] /\ task' = [task EXCEPT ![t] = s] /\ frame' = frame
        /\ \E a \in {job[JobOf[t]], "RUNNING"} : job' = [job EXCEPT ![JobOf[t]] = a]
    BY <1>2 DEF ReportOther
  <2>2. task[t] \in Past => s \in Past
    BY <1>0, <2>1 DEF TaskTransitions, Past, StopTyped
  <2>3. NothingReturns
    BY <1>0, <2>1, <2>2 DEF NothingReturns, StopTyped
  <2> QED
    BY <1>2, <2>1, <2>3 DEF GoesOn, WorkersLearnKnown, ReportOther, worldVars
<1>3. ASSUME NEW w \in Workers, Heartbeat(w) \/ HeartbeatExpires(w) \/ WorkerCrashes(w)
      PROVE  WorkersLearnKnown /\ GoesOn(Reconcile)
  <2>1. UNCHANGED <<job, task, frame>>
    BY <1>3 DEF Heartbeat, HeartbeatExpires, WorkerCrashes
  <2>2. WorkersLearnKnown
    BY <1>3 DEF Heartbeat, HeartbeatExpires, WorkerCrashes, worldVars, WorkersLearnKnown
  <2> QED
    BY <2>1, <2>2, WorldGoesOn, CoroutineNames
<1>4. ASSUME NEW w \in Workers, NEW n \in SlotCounts, RegisterWorker(w, n)
      PROVE  WorkersLearnKnown /\ GoesOn(Reconcile)
  <2>1. UNCHANGED <<job, task, frame, host, pending>>
    BY <1>4 DEF RegisterWorker
  <2> QED
    BY <2>1, WorldGoesOn, CoroutineNames DEF WorkersLearnKnown
<1> QED
  BY <1>1, <1>2, <1>3, <1>4

LEMMA NextGoesOn ==
  ASSUME TypeOK, StopInv, [Next]_vars
  PROVE  WorkersLearnKnown /\ \E c \in Coroutines : GoesOn(c)
<1>1. CASE UNCHANGED vars
  BY <1>1, WorldGoesOn, CoroutineNames DEF vars, WorkersLearnKnown
<1>2. CASE Next
  BY <1>2, SubmitGoesOn, DeployGoesOn, DeployReachesGoesOn, CleanupGoesOn, OthersGoOn,
     CoroutineNames
  DEF Next
<1> QED
  BY <1>1, <1>2

-----------------------------------------------------------------------------
(* Theorems *)

LEMMA InitStopInv == Init => StopInv
<1> SUFFICES ASSUME Init PROVE StopInv
  OBVIOUS
<1>1. \A c \in Coroutines : frame[c].pc = "idle"
  BY RestFrames DEF Init
<1>2. \A t \in Tasks : host[t] = NoWorker /\ t \notin pending
  BY DEF Init
<1> QED
  BY <1>1, <1>2
  DEF StopInv, CoroutinesOfKnown, WorkersKnowOnlyKnown, StoppedArePast, OneStopPerTask

LEMMA StopInvHolds == Spec => [](TypeOK /\ StopInv)
<1>1. Init => TypeOK /\ StopInv
  BY InitTyped, InitStopInv
<1>2. TypeOK /\ StopInv /\ [Next]_vars => (TypeOK /\ StopInv)'
  BY NextTyped, NextGoesOn, GoesOnKeepsStopInv
<1> QED
  BY <1>1, <1>2, PTL DEF Spec

\* However many coroutines clean up a job, no two of them await the stop of one task.
THEOREM StopsAreSingle == Spec => []OneStopPerTask
<1>1. TypeOK /\ StopInv => OneStopPerTask
  BY DEF StopInv
<1> QED
  BY <1>1, StopInvHolds, PTL

\* No task of a settled job is sent to a worker: its slots are gone, and submit_job looks
\* at the slot of a task before it deploys it.
THEOREM SettledJobsAreNotDeployed == Spec => NoDeployOnceSettled
<1> DEFINE A == \A j \in Jobs : job[j] \in Settled =>
                  ~(frame'[Submit(j)].pc = "deploy" /\ frame'[Submit(j)] # frame[Submit(j)]
                      /\ ~frame'[Submit(j)].reached)
<1>1. TypeOK /\ TypeOK' /\ StopInv /\ SlotInv /\ [Next]_vars => A
  <2> SUFFICES ASSUME TypeOK, TypeOK', StopInv, SlotInv, [Next]_vars,
                      NEW j \in Jobs, job[j] \in Settled, frame'[Submit(j)].pc = "deploy",
                      frame'[Submit(j)] # frame[Submit(j)], ~frame'[Submit(j)].reached
               PROVE  FALSE
    OBVIOUS
  <2>1. NewFrame(Submit(j))
    BY NextGoesOn, CoroutineNames DEF GoesOn
  <2>2. frame'[Submit(j)].job = j
    BY TypeOKSplitNext DEF StopTyped
  <2>3. \A t \in TasksOf(j) : place[t] = NoPlace
    BY DEF SlotInv, NothingOutsideLease, TasksOf
  <2> QED
    BY <2>1, <2>2, <2>3 DEF NewFrame, Settled
<1>2. TypeOK /\ TypeOK' /\ StopInv /\ SlotInv /\ [Next]_vars => [A]_vars
  BY <1>1
<1>3. NoDeployOnceSettled <=> [][A]_vars
  BY DEF NoDeployOnceSettled
<1> HIDE DEF A
<1> QED
  BY <1>2, <1>3, StopInvHolds, SlotInvHolds, PTL DEF Spec

-----------------------------------------------------------------------------
(* The cancel of a job.  While it is CANCELLING only cancel_job stops its    *)
(* tasks, from the last one deployed downwards, and knows of every task it   *)
(* could not stop; whoever else cleans up first moves the job on to FAILING. *)

CancelStops(j) ==
  LET fr == frame[Cancel(j)] D == DeployOrder[j] IN
  /\ fr.pc = "stop" /\ fr.job = j /\ fr.failed = NoTask
  /\ \A c \in Coroutines \ {Cancel(j)} : frame[c].pc = "stop" => frame[c].job # j
  /\ task[D[fr.at]] = "CANCELLING"
  /\ \A i \in 1..(fr.at - 1) : task[D[i]] = "RUNNING" /\ place[D[i]] # NoPlace
  /\ \A i \in (fr.at + 1)..Len(D) : fr.errors \/ host[D[i]] = NoWorker

CancelSound(j) ==
  /\ job[j] \in {"RUNNING", "CANCELLING", "CANCELLED"} => frame[Submit(j)].pc # "deploy"
  /\ job[j] = "RUNNING" => deployed[j] = Len(DeployOrder[j])
  /\ job[j] = "CANCELLING" => CancelStops(j)
  /\ job[j] = "CANCELLED" => \A t \in TasksOf(j) : host[t] = NoWorker

CancelInv == \A j \in Jobs : CancelSound(j)

\* No task of j comes to run on a worker, and submit_job does not begin to deploy one.
NoneStarts(j) ==
  /\ frame'[Submit(j)].pc = "deploy" => frame[Submit(j)].pc = "deploy"
  /\ \A t \in TasksOf(j) : host'[t] # NoWorker => host[t] # NoWorker

\* Of a job that a step leaves neither RUNNING nor CANCELLING little is claimed.
LEMMA MovedOnCancelSound ==
  ASSUME NEW j \in Jobs, CancelSound(j), NoneStarts(j),
         job'[j] \notin {"RUNNING", "CANCELLING"},
         job'[j] = "CANCELLED" => job[j] = "CANCELLED"
  PROVE  CancelSound(j)'
BY DEF CancelSound, NoneStarts

\* A job that a step leaves alone.
LEMMA UntouchedCancelSound ==
  ASSUME TypeOK, NEW j \in Jobs, CancelSound(j), NoneStarts(j),
         job'[j] = job[j], deployed'[j] = deployed[j],
         \A t \in TasksOf(j) : task'[t] = task[t] /\ place'[t] = place[t],
         job[j] = "CANCELLING" =>
           /\ frame'[Cancel(j)] = frame[Cancel(j)]
           /\ \A c \in Coroutines \ {Cancel(j)} :
                frame'[c].pc = "stop" /\ frame'[c].job = j =>
                  frame[c].pc = "stop" /\ frame[c].job = j
  PROVE  CancelSound(j)'
<1>1. CASE job[j] # "CANCELLING"
  BY <1>1 DEF CancelSound, NoneStarts
<1>2. CASE job[j] = "CANCELLING"
  <2> DEFINE fr == frame[Cancel(j)]
             D == DeployOrder[j]
  <2>1. CancelStops(j) /\ frame'[Cancel(j)] = fr
    BY <1>2 DEF CancelSound
  <2>2. fr.at \in 1..Len(D) /\ fr.at \in Nat
    BY <2>1, TypeOKSplit, AwaitedType, CoroutineNames, DeployOrderType DEF CancelStops
  <2>3. \A i \in 1..Len(D) : D[i] \in TasksOf(j)
    BY DeployOrderType
  <2>4. Len(D) \in Nat
    BY DeployOrderType
  <2>5. \A i \in 1..(fr.at - 1) : i \in 1..Len(D)
    BY <2>2, <2>4
  <2>6. \A i \in (fr.at + 1)..Len(D) : i \in 1..Len(D)
    BY <2>2, <2>4
  <2> HIDE DEF D
  <2>7. \A c \in Coroutines \ {Cancel(j)} : frame'[c].pc = "stop" => frame'[c].job # j
    BY <1>2, <2>1 DEF CancelStops
  <2>8. task'[D[fr.at]] = "CANCELLING"
    BY <2>1, <2>2, <2>3 DEF CancelStops, D
  <2>9. \A i \in 1..(fr.at - 1) : task'[D[i]] = "RUNNING" /\ place'[D[i]] # NoPlace
    BY <2>1, <2>3, <2>5 DEF CancelStops, D
  <2>10. \A i \in (fr.at + 1)..Len(D) : fr.errors \/ host'[D[i]] = NoWorker
    BY <2>1, <2>3, <2>6 DEF CancelStops, NoneStarts, D
  <2>11. CancelStops(j)'
    BY <2>1, <2>7, <2>8, <2>9, <2>10 DEF CancelStops, D
  <2> QED
    BY <1>2, <2>11 DEF CancelSound, NoneStarts
<1> QED
  BY <1>1, <1>2

\* A cleanup of another job, or of one that is not being cancelled any more.
LEMMA CleanupKeepsCancelInv ==
  ASSUME TypeOK, CancelInv, NEW c \in Coroutines, NEW j \in Jobs, CleansUp(c, j),
         job'[j] # "CANCELLING", job'[j] = "CANCELLED" => job[j] = "CANCELLED",
         \A i \in Jobs \ {j} : job[i] = "CANCELLING" => c # Cancel(i),
         \A i \in Jobs \ {j} : deployed'[i] = deployed[i],
         \A t \in Tasks : host'[t] # NoWorker => host[t] # NoWorker
  PROVE  CancelInv'
<1> SUFFICES ASSUME NEW i \in Jobs PROVE CancelSound(i)'
  BY DEF CancelInv
<1>1. CancelSound(i) /\ NoneStarts(i)
  <2>1. frame'[Submit(i)].pc = "deploy" => frame[Submit(i)].pc = "deploy"
    BY CoroutineNames DEF CleansUp
  <2> QED
    BY <2>1 DEF CancelInv, NoneStarts, TasksOf
<1>2. CASE i = j
  BY <1>1, <1>2, MovedOnCancelSound DEF CleansUp, Untouched
<1>3. CASE i # j
  <2>1. \A t \in TasksOf(i) : task'[t] = task[t] /\ place'[t] = place[t]
    BY <1>3 DEF CleansUp, TasksOf
  <2>2. job[i] = "CANCELLING" => frame'[Cancel(i)] = frame[Cancel(i)]
    BY <1>3, CoroutineNames DEF CleansUp
  <2>3. \A d \in Coroutines : frame'[d].pc = "stop" /\ frame'[d].job = i =>
          frame[d].pc = "stop" /\ frame[d].job = i
    BY <1>3 DEF CleansUp
  <2>4. job'[i] = job[i] /\ deployed'[i] = deployed[i]
    BY <1>3 DEF CleansUp
  <2> QED
    BY <1>1, <2>1, <2>2, <2>3, <2>4, UntouchedCancelSound
<1> QED
  BY <1>2, <1>3

\* Only cancel_job settles a job that is CANCELLING.
LEMMA StopTasksSettles ==
  ASSUME NEW c, NEW j \in Jobs, NEW f, NEW js \in [Jobs -> JobStatus], NEW st, NEW k, NEW e,
         js[j] # "CANCELLING", StopTasks(c, j, f, js, st, k, e)
  PROVE  job'[j] # "CANCELLING" /\ (job'[j] = "CANCELLED" => js[j] = "CANCELLED")
<1>1. \/ job' = js
      \/ \E a : job' = [js EXCEPT ![j] = IF c = Cancel(j) THEN AfterCancel(@, a) ELSE AfterFailRun(@)]
  BY DEF StopTasks, FinishStops
<1> QED
  BY <1>1 DEF AfterCancel, AfterFailRun

LEMMA FailRunSettles ==
  ASSUME StopTyped, NEW c, NEW j \in Jobs, NEW f, NEW st, NEW k, FailRun(c, j, f, st, k)
  PROVE  job'[j] # "CANCELLING" /\ (job'[j] = "CANCELLED" => job[j] = "CANCELLED")
<1> DEFINE js == [job EXCEPT ![j] = IF @ \in {"DEPLOYING", "RUNNING", "CANCELLING"}
                                    THEN "FAILING" ELSE @]
           failed == [st EXCEPT ![f] = IF @ \in {"FAILED", "CANCELLED"}
                                       THEN @ ELSE "FAILED"]
<1>1. js \in [Jobs -> JobStatus] /\ js[j] # "CANCELLING" /\ (js[j] = "CANCELLED" => job[j] = "CANCELLED")
  BY DEF StopTyped, JobStatus
<1>2. StopTasks(c, j, f, js, failed, k, FALSE)
  BY DEF FailRun, DuringFailRun
<1> HIDE DEF js, failed
<1> QED
  BY <1>1, <1>2, StopTasksSettles

\* cancel_job goes on to the next task below, which runs, or settles the job: CANCELLED
\* only when every task above was stopped without an error.
LEMMA StopTasksCancels ==
  ASSUME StopTyped, NEW j \in Jobs, NEW js \in [Jobs -> JobStatus], js[j] = "CANCELLING",
         NEW st \in [Tasks -> TaskStatus], NEW errors \in BOOLEAN,
         NEW k \in 0..Len(DeployOrder[j]),
         \A i \in 1..k : st[DeployOrder[j][i]] = "RUNNING" /\ place[DeployOrder[j][i]] # NoPlace,
         \A i \in (k + 1)..Len(DeployOrder[j]) : errors \/ host'[DeployOrder[j][i]] = NoWorker,
         \A c \in Coroutines \ {Cancel(j)} : frame[c].pc = "stop" => frame[c].job # j,
         frame[Submit(j)].pc # "deploy",
         StopTasks(Cancel(j), j, NoTask, js, st, k, errors)
  PROVE  CancelSound(j)'
<1> DEFINE c == Cancel(j)
           D == DeployOrder[j]
           due == {i \in 1..k : D[i] # NoTask /\ st[D[i]] \in Stoppable}
           reachable == {i \in due : place[D[i]] # NoPlace}
           unreachable(n) == {D[i] : i \in {m \in due : m > n}}
           Stopped(n) == [t \in Tasks |-> IF t \in unreachable(n) THEN "FAILED" ELSE st[t]]
<1>1. /\ Len(D) \in Nat /\ k \in Nat /\ k <= Len(D)
      /\ \A i \in 1..Len(D) : D[i] \in TasksOf(j) /\ D[i] \in Tasks /\ D[i] # NoTask
  BY DeployOrderType, MarkerAssumption
<1>2. \A i \in 1..k : i \in 1..Len(D)
  BY <1>1
<1>3. /\ frame \in [Coroutines -> Frames] /\ c \in Coroutines /\ Submit(j) # c
      /\ Submit(j) \in Coroutines
  BY CoroutineNames, CoroutinesDiffer DEF StopTyped
<1>4. reachable = 1..k
  BY <1>1, <1>2 DEF Stoppable
<1>5. CASE reachable = {} /\ FinishStops(c, j, NoTask, js, Stopped(0), errors \/ unreachable(0) # {})
  <2>1. k = 0
    BY <1>1, <1>4, <1>5
  <2>2. unreachable(0) = {}
    BY <2>1
  <2>3. job' = [js EXCEPT ![j] = IF c = Cancel(j) THEN AfterCancel(@, errors \/ unreachable(0) # {})
                                                  ELSE AfterFailRun(@)]
    BY <1>5 DEF FinishStops
  <2>4. job'[j] = IF errors THEN "FAILED" ELSE "CANCELLED"
    BY <2>2, <2>3 DEF AfterCancel
  <2>5. frame'[Submit(j)].pc # "deploy"
    BY <1>3, <1>5 DEF FinishStops
  <2>6. ASSUME ~errors, NEW t \in TasksOf(j) PROVE host'[t] = NoWorker
    <3>1. PICK i \in 1..Len(D) : D[i] = t
      BY DeployOrderEnumerates
    <3>2. i \in (k + 1)..Len(D)
      BY <2>1, <3>1
    <3> QED
      BY <2>6, <3>1, <3>2
  <2> QED
    BY <2>4, <2>5, <2>6 DEF CancelSound, TasksOf
<1>6. ASSUME NEW i \in reachable, \A m \in reachable : m <= i,
             task' = [Stopped(i) EXCEPT ![D[i]] = "CANCELLING"],
             frame' = [frame EXCEPT ![c] = StopFrame(j, i, place[D[i]][1], NoTask,
                                                     errors \/ unreachable(i) # {})],
             job' = js, UNCHANGED <<place, owner>>
      PROVE  CancelSound(j)'
  <2>1. i = k /\ i \in 1..Len(D)
    <3>1. i \in 1..k
      BY <1>4
    <3>2. k \in 1..k /\ i \in Nat
      BY <1>1, <3>1
    <3>3. k <= i
      BY <1>4, <1>6, <3>2
    <3> QED
      BY <1>1, <1>2, <3>1, <3>2, <3>3
  <2>2. unreachable(i) = {}
    <3>1. {m \in due : m > i} = {}
      BY <1>1, <2>1
    <3> QED
      BY <3>1
  <2>3. frame' = [frame EXCEPT ![c] = StopFrame(j, i, place[D[i]][1], NoTask, errors)]
    BY <1>6, <2>2
  <2>4. /\ frame'[c].pc = "stop" /\ frame'[c].job = j /\ frame'[c].failed = NoTask
        /\ frame'[c].at = i /\ frame'[c].errors = errors
        /\ \A d \in Coroutines \ {c} : frame'[d] = frame[d]
    BY <1>3, <2>3 DEF StopFrame, FrameOf
  <2>5. task' = [st EXCEPT ![D[i]] = "CANCELLING"]
    <3>1. Stopped(i) = st
      BY <2>2
    <3> QED
      BY <1>6, <3>1
  <2>6. task'[D[i]] = "CANCELLING"
    BY <1>1, <2>1, <2>5
  <2>7. ASSUME NEW m \in 1..(i - 1) PROVE task'[D[m]] = "RUNNING" /\ place'[D[m]] # NoPlace
    <3>1. m \in 1..k /\ m \in 1..Len(D) /\ m # i
      BY <1>1, <2>1
    <3>2. D[m] # D[i]
      BY <2>1, <3>1, DeployOrderEnumerates
    <3>3. D[m] \in Tasks
      BY <1>1, <3>1
    <3>4. st[D[m]] = "RUNNING" /\ place[D[m]] # NoPlace
      BY <3>1
    <3> QED
      BY <1>6, <2>5, <3>2, <3>3, <3>4
  <2>8. \A m \in (i + 1)..Len(D) : errors \/ host'[D[m]] = NoWorker
    BY <2>1
  <2> HIDE DEF D, due, reachable, unreachable, Stopped
  <2>9. CancelStops(j)'
    BY <1>3, <2>4, <2>6, <2>7, <2>8 DEF CancelStops, D
  <2> QED
    BY <1>3, <1>6, <2>4, <2>9 DEF CancelSound
<1> QED
  BY <1>5, <1>6 DEF StopTasks

LEMMA CancelsDiffer == \A j, k \in Jobs : Cancel(j) = Cancel(k) => j = k
BY DEF Cancel

\* Steps of the workers and of the registry, and coroutines that only end.
LEMMA WorldKeepsCancelInv ==
  ASSUME TypeOK, CancelInv, UNCHANGED <<job, task, place, deployed>>,
         \A c \in Coroutines : frame'[c] = frame[c] \/ frame'[c] = Idle,
         \A j \in Jobs : job[j] = "CANCELLING" => frame'[Cancel(j)] = frame[Cancel(j)],
         \A t \in Tasks : host'[t] # NoWorker => host[t] # NoWorker
  PROVE  CancelInv'
<1> SUFFICES ASSUME NEW j \in Jobs PROVE CancelSound(j)'
  BY DEF CancelInv
<1>1. CancelSound(j) /\ NoneStarts(j)
  BY RestFrames, CoroutineNames DEF CancelInv, NoneStarts, TasksOf
<1>2. \A c \in Coroutines : frame'[c].pc = "stop" => frame'[c] = frame[c]
  BY RestFrames
<1> QED
  BY <1>1, <1>2, UntouchedCancelSound

\* Sending a task to a worker: its job is still being deployed.
LEMMA DeployReachesKeepsCancelInv ==
  ASSUME TypeOK, CancelInv, NEW j \in Jobs, DeployReaches(j)
  PROVE  CancelInv'
<1> SUFFICES ASSUME NEW i \in Jobs PROVE CancelSound(i)'
  BY DEF CancelInv
<1> DEFINE c == Submit(j)
<1>1. /\ frame[c].pc = "deploy" /\ frame' = [frame EXCEPT ![c].reached = TRUE]
      /\ UNCHANGED <<job, task, place, deployed>>
      /\ host' = [host EXCEPT ![Awaited(c)] = frame[c].worker]
  BY DEF DeployReaches
<1>2. c \in Coroutines /\ frame \in [Coroutines -> Frames] /\ frame[c].job = j /\ CancelSound(i)
  BY <1>1, CoroutineNames, TypeOKSplit DEF StopTyped, CancelInv
<1>3. Awaited(c) \in TasksOf(j) /\ Awaited(c) \in Tasks
  BY <1>1, <1>2, TypeOKSplit, AwaitedType
<1>4. /\ \A d \in Coroutines \ {c} : frame'[d] = frame[d]
      /\ frame'[c].pc = "deploy"
  BY <1>1, <1>2 DEF Frames
<1>5. CASE i = j
  BY <1>1, <1>2, <1>4, <1>5 DEF CancelSound
<1>6. CASE i # j
  <2>1. \A t \in TasksOf(i) : host'[t] = host[t]
    BY <1>1, <1>3, <1>6, TypeOKSplit DEF TasksOf, RestTyped
  <2>2. NoneStarts(i)
    BY <1>4, <1>6, <2>1, CoroutineNames, CoroutinesDiffer DEF NoneStarts
  <2>3. frame'[Cancel(i)] = frame[Cancel(i)]
    BY <1>4, CoroutineNames, CoroutinesDiffer
  <2>4. \A d \in Coroutines : frame'[d].pc = "stop" => frame'[d] = frame[d]
    BY <1>4
  <2> QED
    BY <1>1, <1>2, <2>2, <2>3, <2>4, UntouchedCancelSound
<1> QED
  BY <1>5, <1>6

\* submit_job, up to its first await and at each later one, as long as nothing fails.
LEMMA SubmitKeepsCancelInv ==
  ASSUME TypeOK, CancelInv, NEW j \in Jobs,
         \A c \in Coroutines \ {Submit(j)} : frame'[c] = frame[c],
         frame' = frame \/ frame'[Submit(j)].pc # "stop",
         job'[j] \in {"RUNNING", "CANCELLED"} =>
           /\ job'[j] = "RUNNING" /\ job[j] = "DEPLOYING"
           /\ frame'[Submit(j)].pc # "deploy" /\ deployed'[j] = Len(DeployOrder[j]),
         job'[j] # "CANCELLING",
         \A i \in Jobs \ {j} : job'[i] = job[i] /\ deployed'[i] = deployed[i],
         \A t \in Tasks \ TasksOf(j) : task'[t] = task[t] /\ place'[t] = place[t],
         host' = host
  PROVE  CancelInv'
<1> SUFFICES ASSUME NEW i \in Jobs PROVE CancelSound(i)'
  BY DEF CancelInv
<1> DEFINE c == Submit(j)
<1>1. c \in Coroutines /\ CancelSound(i)
  BY CoroutineNames DEF CancelInv
<1>2. \A d \in Coroutines \ {c} : frame'[d] = frame[d]
  OBVIOUS
<1>3. CASE i = j
  BY <1>3 DEF CancelSound
<1>4. CASE i # j
  <2>1. NoneStarts(i) /\ frame'[Cancel(i)] = frame[Cancel(i)]
    BY <1>2, <1>4, CoroutineNames, CoroutinesDiffer DEF NoneStarts
  <2>2. \A d \in Coroutines : frame'[d].pc = "stop" => frame'[d] = frame[d]
    BY <1>1
  <2>3. \A t \in TasksOf(i) : task'[t] = task[t] /\ place'[t] = place[t]
    BY <1>4 DEF TasksOf
  <2> QED
    BY <1>1, <1>4, <2>1, <2>2, <2>3, UntouchedCancelSound
<1> QED
  BY <1>3, <1>4

LEMMA SubmitsKeepCancelInv ==
  ASSUME TypeOK, CancelInv, NEW j \in Jobs, SubmitJob(j) \/ RejectJob(j)
  PROVE  CancelInv'
<1>1. /\ job[j] = "NONE" /\ job \in [Jobs -> JobStatus]
      /\ \E s \in {"DEPLOYING", "REJECTED"} : job' = [job EXCEPT ![j] = s]
  BY TypeOKSplit DEF SubmitJob, RejectJob, StopTyped
<1>2. /\ job'[j] \notin {"RUNNING", "CANCELLED", "CANCELLING"}
      /\ \A i \in Jobs \ {j} : job'[i] = job[i]
  BY <1>1
<1>3. UNCHANGED <<deployed, host>>
  BY DEF SubmitJob, RejectJob, worldVars
<1>4. CASE RejectJob(j)
  <2>1. frame' = frame /\ UNCHANGED <<task, place>> /\ Idle.pc = "idle"
    BY <1>4, RestFrames DEF RejectJob
  <2> QED
    BY <1>2, <1>3, <2>1, SubmitKeepsCancelInv
<1>5. CASE SubmitJob(j)
  <2>1. PICK w : frame' = [frame EXCEPT ![Submit(j)] = DeployFrame(j, 1, w)]
    BY <1>5 DEF SubmitJob
  <2>2. /\ \A c \in Coroutines \ {Submit(j)} : frame'[c] = frame[c]
        /\ frame'[Submit(j)].pc = "deploy"
    BY <2>1, CoroutineNames, TypeOKSplit DEF StopTyped, DeployFrame, FrameOf
  <2>3. \A t \in Tasks \ TasksOf(j) : task'[t] = task[t] /\ place'[t] = place[t]
    BY <1>5, DeployOrderType DEF SubmitJob
  <2> QED
    BY <1>2, <1>3, <2>2, <2>3, SubmitKeepsCancelInv
<1> QED
  BY <1>4, <1>5

LEMMA DeployAnsweredKeepsCancelInv ==
  ASSUME TypeOK, CancelInv, DeployInv, NEW j \in Jobs, DeployAnswered(j)
  PROVE  CancelInv'
<1> DEFINE c == Submit(j)
           t == Awaited(c)
<1>0. StopTyped /\ RestTyped /\ c \in Coroutines
  BY TypeOKSplit, CoroutineNames
<1>1. frame[c].pc = "deploy" /\ host' = host
  BY DEF DeployAnswered, DeployedTooLate, DeployedNext, DeployedLast, DeployFails, worldVars
<1>2. frame[c].job = j /\ job[j] # "NONE" /\ t \in Tasks /\ t \in TasksOf(j)
  BY <1>0, <1>1, AwaitedType DEF StopTyped, DeployInv, DeploysOnlyKnown
<1>3. /\ task \in [Tasks -> TaskStatus] /\ deployed[j] \in 0..Len(DeployOrder[j])
      /\ frame \in [Coroutines -> Frames] /\ job \in [Jobs -> JobStatus]
      /\ deployed \in [Jobs -> Nat]
      /\ frame[c].at \in 1..Len(DeployOrder[j])
  BY <1>0, <1>1, <1>2, AwaitedType DEF StopTyped, RestTyped
<1>4. job[j] \notin {"RUNNING", "CANCELLING", "CANCELLED"}
  BY <1>1 DEF CancelInv, CancelSound
\* A failure of the deployment.
<1>5. ASSUME NEW f \in TasksOf(j), NEW st \in [Tasks -> TaskStatus],
             NEW k \in 0..Len(DeployOrder[j]),
             \A u \in Tasks \ TasksOf(j) : st[u] = task[u],
             \A i \in Jobs \ {j} : deployed'[i] = deployed[i],
             FailRun(c, j, f, st, k)
      PROVE  CancelInv'
  <2>1. CleansUp(c, j)
    BY <1>0, <1>2, <1>5, FailRunCleansUp
  <2>2. job'[j] # "CANCELLING" /\ (job'[j] = "CANCELLED" => job[j] = "CANCELLED")
    BY <1>0, <1>5, FailRunSettles
  <2> QED
    BY <1>0, <1>1, <1>5, <2>1, <2>2, CoroutinesDiffer, CleanupKeepsCancelInv
<1>6. CASE DeployedTooLate(j) \/ DeployFails(j)
  <2>1. FailRun(c, j, t, task, deployed[j]) /\ deployed' = deployed
    BY <1>6 DEF DeployedTooLate, DeployFails
  <2> QED
    BY <1>2, <1>3, <1>5, <2>1
<1>7. CASE DeployedLast(j)
  <2>1. /\ deployed' = [deployed EXCEPT ![j] = frame[c].at] /\ frame[c].at = Len(DeployOrder[j])
        /\ task' = [task EXCEPT ![t] = "RUNNING"] /\ place' = place
        /\ frame' = [frame EXCEPT ![c] = Idle]
        /\ job' = [job EXCEPT ![j] = IF @ = "DEPLOYING" THEN "RUNNING" ELSE @]
    BY <1>7 DEF DeployedLast
  <2>2. /\ frame'[c] = Idle /\ Idle.pc = "idle" /\ deployed'[j] = Len(DeployOrder[j])
        /\ \A i \in Jobs \ {j} : job'[i] = job[i] /\ deployed'[i] = deployed[i]
    BY <1>0, <1>3, <2>1, RestFrames
  <2>3. /\ job'[j] \notin {"CANCELLED", "CANCELLING"}
        /\ job'[j] = "RUNNING" => job[j] = "DEPLOYING"
    BY <1>3, <1>4, <2>1
  <2>4. \A u \in Tasks \ TasksOf(j) : task'[u] = task[u] /\ place'[u] = place[u]
    BY <1>2, <1>3, <2>1
  <2>5. frame'[c].pc = "idle" /\ \A d \in Coroutines \ {c} : frame'[d] = frame[d]
    BY <1>0, <1>3, <2>1, <2>2
  <2> QED
    BY <1>1, <2>2, <2>3, <2>4, <2>5, SubmitKeepsCancelInv
<1>8. CASE DeployedNext(j)
  <2> DEFINE k == frame[c].at
             next == DeployOrder[j][k + 1]
             st == [task EXCEPT ![t] = "RUNNING"]
  <2>1. /\ k < Len(DeployOrder[j]) /\ deployed' = [deployed EXCEPT ![j] = k]
    BY <1>8 DEF DeployedNext
  <2>2. /\ next \in TasksOf(j) /\ next \in Tasks /\ k \in 0..Len(DeployOrder[j])
    BY <1>3, <2>1, DeployOrderType
  <2>3. st \in [Tasks -> TaskStatus] /\ \A u \in Tasks \ TasksOf(j) : st[u] = task[u]
    BY <1>2, <1>3 DEF TaskStatus
  <2>4. \A i \in Jobs \ {j} : deployed'[i] = deployed[i]
    BY <1>3, <2>1
  <2>5. CASE FailRun(c, j, next, st, k)
    <3> HIDE DEF st, next, k
    <3> QED
      BY <1>5, <2>2, <2>3, <2>4, <2>5
  <2>6. CASE /\ task' = [st EXCEPT ![next] = "DEPLOYING"]
             /\ frame' = [frame EXCEPT ![c] = DeployFrame(j, k + 1, place[next][1])]
             /\ UNCHANGED <<job, place, owner>>
    <3>1. PICK n, w : frame' = [frame EXCEPT ![c] = DeployFrame(j, n, w)]
      BY <2>6
    <3>2. frame'[c].pc = "deploy" /\ \A d \in Coroutines \ {c} : frame'[d] = frame[d]
      BY <1>0, <1>3, <3>1 DEF DeployFrame, FrameOf
    <3>3. \A u \in Tasks \ TasksOf(j) : task'[u] = task[u] /\ place'[u] = place[u]
      BY <2>2, <2>3, <2>6
    <3> QED
      BY <1>1, <1>4, <2>4, <2>6, <3>2, <3>3, SubmitKeepsCancelInv
  <2> QED
    BY <1>8, <2>5, <2>6 DEF DeployedNext
<1> QED
  BY <1>6, <1>7, <1>8 DEF DeployAnswered

\* cancel_job begins with every task of a RUNNING job.
LEMMA CancelKeepsCancelInv ==
  ASSUME TypeOK, CancelInv, DeployInv, NEW j \in Jobs, CancelJob(j)
  PROVE  CancelInv'
<1> DEFINE js == [job EXCEPT ![j] = "CANCELLING"]
           c == Cancel(j)
           D == DeployOrder[j]
<1>0. StopTyped /\ RestTyped /\ c \in Coroutines
  BY TypeOKSplit, CoroutineNames
<1>1. /\ js \in [Jobs -> JobStatus] /\ js[j] = "CANCELLING" /\ js[j] \notin Untouched
      /\ \A i \in Jobs \ {j} : js[i] = job[i]
  BY <1>0 DEF StopTyped, JobStatus, Untouched
<1>2. /\ job[j] = "RUNNING" /\ deployed[j] = Len(D)
      /\ frame[Submit(j)].pc # "deploy" /\ UNCHANGED <<deployed, host>>
  BY DEF CancelJob, CancelInv, CancelSound, worldVars
<1>3. task \in [Tasks -> TaskStatus] /\ Len(D) \in 0..Len(D)
      /\ \A i \in (Len(D) + 1)..Len(D) : FALSE
  <2>1. Len(D) \in Nat
    BY DeployOrderType
  <2> QED
    BY <1>0, <2>1 DEF StopTyped
<1>4. \A i \in 1..Len(D) : task[D[i]] = "RUNNING" /\ place[D[i]] # NoPlace
  BY <1>2, DeployOrderType DEF TasksOf, DeployInv, RunningJobsAreWhole
<1>5. \A d \in Coroutines : frame[d].pc = "stop" => frame[d].job # j
  BY <1>2 DEF DeployInv, StopsOnlyMovedOn, Untouched
<1>6. StopTasks(c, j, NoTask, js, task, Len(D), FALSE)
  BY <1>2 DEF CancelJob
<1> HIDE DEF js
<1>7. CleansUp(c, j)
  BY <1>0, <1>1, <1>3, <1>6, StopTasksCleansUp
<1>8. CancelSound(j)'
  BY <1>0, <1>1, <1>2, <1>3, <1>4, <1>5, <1>6, StopTasksCancels
<1>9. ASSUME NEW i \in Jobs \ {j} PROVE CancelSound(i)'
  <2>1. frame'[Cancel(i)] = frame[Cancel(i)] /\ frame'[Submit(i)] = frame[Submit(i)]
    BY <1>7, <1>9, CoroutineNames, CoroutinesDiffer, CancelsDiffer DEF CleansUp
  <2>2. NoneStarts(i) /\ CancelSound(i)
    BY <1>2, <2>1 DEF NoneStarts, CancelInv
  <2>3. \A t \in TasksOf(i) : task'[t] = task[t] /\ place'[t] = place[t]
    BY <1>7, <1>9 DEF CleansUp, TasksOf
  <2>4. \A d \in Coroutines : frame'[d].pc = "stop" /\ frame'[d].job = i =>
          frame[d].pc = "stop" /\ frame[d].job = i
    BY <1>7, <1>9 DEF CleansUp
  <2> QED
    BY <1>2, <1>7, <1>9, <2>1, <2>2, <2>3, <2>4, UntouchedCancelSound DEF CleansUp
<1> QED
  BY <1>8, <1>9 DEF CancelInv

\* An answer of stop_task: cancel_job goes on, or another cleanup of a job that it or
\* somebody else has moved on.
LEMMA StopAnsweredKeepsCancelInv ==
  ASSUME TypeOK, CancelInv, DeployInv, NEW c \in Coroutines, StopAnswered(c)
  PROVE  CancelInv'
<1>0. StopTyped /\ RestTyped
  BY TypeOKSplit
<1>a. PICK j \in Jobs : frame[c].job = j
  BY <1>0, AwaitedType DEF StopAnswered, StopSucceeds, StopFails
<1> DEFINE D == DeployOrder[j]
<1>1. PICK s \in {"CANCELLED", "FAILED"} :
        /\ StopReturns(c, s)
        /\ s = "CANCELLED" => host' = [host EXCEPT ![Awaited(c)] = NoWorker]
  BY DEF StopAnswered, StopSucceeds, StopFails
<1>2. /\ frame[c].pc = "stop" /\ deployed' = deployed
      /\ host' \in {host, [host EXCEPT ![Awaited(c)] = NoWorker]}
  BY DEF StopAnswered, StopSucceeds, StopFails
<1>3. /\ j \in Jobs /\ frame[c].at \in 1..Len(D) /\ frame[c].at - 1 \in 0..Len(D)
      /\ Awaited(c) \in TasksOf(j) /\ Awaited(c) \in Tasks /\ frame[c].errors \in BOOLEAN
  BY <1>0, <1>a, <1>2, AwaitedType, DeployOrderType
<1>4. /\ job[j] \notin Untouched /\ job \in [Jobs -> JobStatus]
      /\ host \in [Tasks -> Workers \cup {NoWorker}] /\ task \in [Tasks -> TaskStatus]
  BY <1>0, <1>a, <1>2 DEF DeployInv, StopsOnlyMovedOn, StopTyped, RestTyped
<1>5. \A t \in Tasks : host'[t] # NoWorker => host[t] # NoWorker
  BY <1>2, <1>3, <1>4
<1>6. \A i \in Jobs \ {j} : job[i] = "CANCELLING" => c # Cancel(i)
  BY <1>a DEF CancelInv, CancelSound, CancelStops
<1>7. CASE task[Awaited(c)] = "CANCELLING"
  <2> DEFINE st == [task EXCEPT ![Awaited(c)] = s]
             e == frame[c].errors \/ s = "FAILED"
             k == frame[c].at - 1
  <2>1. st \in [Tasks -> TaskStatus] /\ \A t \in Tasks \ TasksOf(j) : st[t] = task[t]
    BY <1>3, <1>4 DEF TaskStatus
  <2>2. StopTasks(c, j, frame[c].failed, job, st, k, e) /\ e \in BOOLEAN /\ k \in 0..Len(D)
    BY <1>a, <1>1, <1>3, <1>7 DEF StopReturns
  <2>3. CleansUp(c, j)
    <3> HIDE DEF st, e, k
    <3> QED
      BY <1>0, <1>3, <1>4, <2>1, <2>2, StopTasksCleansUp
  <2>4. CASE job[j] # "CANCELLING"
    <3> HIDE DEF st, e, k
    <3>1. job'[j] # "CANCELLING" /\ (job'[j] = "CANCELLED" => job[j] = "CANCELLED")
      BY <1>3, <1>4, <2>2, <2>4, StopTasksSettles
    <3> QED
      BY <1>2, <1>3, <1>5, <1>6, <2>3, <3>1, CleanupKeepsCancelInv
  <2>5. CASE job[j] = "CANCELLING"
    <3>1. CancelStops(j) /\ c = Cancel(j)
      BY <1>a, <1>2, <1>3, <2>5 DEF CancelInv, CancelSound, CancelStops
    <3>2. /\ frame[c].failed = NoTask /\ frame[Submit(j)].pc # "deploy"
          /\ \A d \in Coroutines \ {Cancel(j)} : frame[d].pc = "stop" => frame[d].job # j
      BY <1>3, <2>5, <3>1 DEF CancelInv, CancelSound, CancelStops
    <3>3. \A i \in 1..Len(D) : D[i] \in Tasks /\ (D[i] = Awaited(c) => i = frame[c].at)
      BY <1>3, DeployOrderType, DeployOrderEnumerates, <1>a DEF Awaited
    <3>4. \A i \in 1..k : st[D[i]] = "RUNNING" /\ place[D[i]] # NoPlace
      <4> SUFFICES ASSUME NEW i \in 1..k PROVE st[D[i]] = "RUNNING" /\ place[D[i]] # NoPlace
        OBVIOUS
      <4>1. i \in 1..Len(D) /\ i # frame[c].at /\ i \in 1..(frame[c].at - 1)
        BY <1>3, DeployOrderType
      <4>2. task[D[i]] = "RUNNING" /\ place[D[i]] # NoPlace
        BY <3>1, <4>1 DEF CancelStops
      <4> QED
        BY <1>4, <3>3, <4>1, <4>2
    <3>5. \A i \in (k + 1)..Len(D) : e \/ host'[D[i]] = NoWorker
      <4> SUFFICES ASSUME NEW i \in (k + 1)..Len(D), ~e PROVE host'[D[i]] = NoWorker
        OBVIOUS
      <4>1. i \in 1..Len(D) /\ (i = frame[c].at \/ i \in (frame[c].at + 1)..Len(D))
        BY <1>3, DeployOrderType
      <4>2. ~frame[c].errors /\ host' = [host EXCEPT ![Awaited(c)] = NoWorker]
        BY <1>1, <1>3
      <4>3. CASE i = frame[c].at
        BY <1>a, <1>3, <1>4, <4>2, <4>3 DEF Awaited
      <4>4. CASE i \in (frame[c].at + 1)..Len(D)
        <5>1. host[D[i]] = NoWorker
          BY <3>1, <4>2, <4>4 DEF CancelStops
        <5> QED
          BY <1>4, <3>3, <4>1, <4>2, <5>1
      <4> QED
        BY <4>1, <4>3, <4>4
    <3> HIDE DEF st, e, k
    <3>6. CancelSound(j)'
      <4>1. StopTyped /\ job \in [Jobs -> JobStatus] /\ st \in [Tasks -> TaskStatus]
        BY <1>0, <1>4, <2>1
      <4>2. StopTasks(Cancel(j), j, NoTask, job, st, k, e) /\ e \in BOOLEAN
            /\ k \in 0..Len(DeployOrder[j])
        BY <2>2, <3>1, <3>2
      <4>3. /\ \A i \in 1..k :
                 st[DeployOrder[j][i]] = "RUNNING" /\ place[DeployOrder[j][i]] # NoPlace
            /\ \A i \in (k + 1)..Len(DeployOrder[j]) : e \/ host'[DeployOrder[j][i]] = NoWorker
        BY <3>4, <3>5
      <4> QED
        BY <1>3, <2>5, <3>2, <4>1, <4>2, <4>3, StopTasksCancels
    <3>7. ASSUME NEW i \in Jobs \ {j} PROVE CancelSound(i)'
      <4>1. frame'[Cancel(i)] = frame[Cancel(i)] /\ frame'[Submit(i)] = frame[Submit(i)]
        BY <1>3, <2>3, <3>1, <3>7, CoroutineNames, CoroutinesDiffer, CancelsDiffer DEF CleansUp
      <4>2. NoneStarts(i) /\ CancelSound(i)
        BY <1>5, <4>1 DEF NoneStarts, CancelInv, TasksOf
      <4>3. \A t \in TasksOf(i) : task'[t] = task[t] /\ place'[t] = place[t]
        BY <2>3, <3>7 DEF CleansUp, TasksOf
      <4>4. \A d \in Coroutines : frame'[d].pc = "stop" /\ frame'[d].job = i =>
              frame[d].pc = "stop" /\ frame[d].job = i
        BY <2>3, <3>7 DEF CleansUp
      <4>5. job'[i] = job[i] /\ deployed'[i] = deployed[i]
        BY <1>2, <2>3, <3>7 DEF CleansUp
      <4> QED
        BY <3>7, <4>1, <4>2, <4>3, <4>4, <4>5, UntouchedCancelSound
    <3> QED
      BY <3>6, <3>7 DEF CancelInv
  <2> QED
    BY <2>4, <2>5
<1>8. CASE task[Awaited(c)] # "CANCELLING"
  <2>1. frame' = [frame EXCEPT ![c] = Idle] /\ UNCHANGED <<job, task, place, owner>>
    BY <1>1, <1>8 DEF StopReturns
  <2>2. \A d \in Coroutines : frame'[d] = frame[d] \/ frame'[d] = Idle
    BY <1>0, <2>1 DEF StopTyped
  <2>3. ASSUME NEW i \in Jobs, job[i] = "CANCELLING" PROVE c # Cancel(i)
    <3>1. CancelStops(i)
      BY <2>3 DEF CancelInv, CancelSound
    <3> QED
      BY <1>8, <3>1 DEF CancelStops, Awaited
  <2>4. \A i \in Jobs : job[i] = "CANCELLING" => frame'[Cancel(i)] = frame[Cancel(i)]
    BY <1>0, <2>1, <2>3, CoroutineNames DEF StopTyped
  <2> QED
    BY <1>2, <1>5, <2>1, <2>2, <2>4, WorldKeepsCancelInv
<1> QED
  BY <1>7, <1>8

\* A failure report and the sweep fail a job: it is not CANCELLING any more.
LEMMA FailuresKeepCancelInv ==
  ASSUME TypeOK, CancelInv, DeployInv,
         (\E t \in Tasks : ReportArrives(t)) \/ SweepStarts \/ SweepResumes
  PROVE  CancelInv'
<1>0. StopTyped /\ RestTyped
  BY TypeOKSplit
<1>a. /\ task \in [Tasks -> TaskStatus] /\ frame \in [Coroutines -> Frames]
      /\ \A j \in Jobs : deployed[j] \in 0..Len(DeployOrder[j])
  BY <1>0 DEF StopTyped, RestTyped
<1>b. UNCHANGED <<deployed, host>>
  BY DEF ReportArrives, SweepStarts, SweepResumes, worldVars
<1>1. ASSUME NEW c \in Coroutines, \A i \in Jobs : c # Cancel(i),
             NEW j \in Jobs, NEW f \in TasksOf(j), job[j] # "NONE",
             FailRun(c, j, f, task, deployed[j])
      PROVE  CancelInv'
  <2>1. CleansUp(c, j)
    BY <1>0, <1>a, <1>1, FailRunCleansUp
  <2>2. job'[j] # "CANCELLING" /\ (job'[j] = "CANCELLED" => job[j] = "CANCELLED")
    BY <1>0, <1>1, FailRunSettles
  <2> QED
    BY <1>b, <1>1, <2>1, <2>2, CleanupKeepsCancelInv
<1>2. ASSUME frame' = [frame EXCEPT ![Reconcile] = Idle], UNCHANGED <<job, task, place, owner>>
      PROVE  CancelInv'
  <2>1. \A d \in Coroutines : frame'[d] = frame[d] \/ frame'[d] = Idle
    BY <1>a, <1>2
  <2>2. \A i \in Jobs : frame'[Cancel(i)] = frame[Cancel(i)]
    BY <1>a, <1>2, CoroutineNames, CoroutinesDiffer
  <2> QED
    BY <1>b, <1>2, <2>1, <2>2, WorldKeepsCancelInv
<1>3. ASSUME NEW t \in Tasks, ReportArrives(t) PROVE CancelInv'
  <2>1. JobOf[t] \in Jobs /\ t \in TasksOf(JobOf[t]) /\ job[JobOf[t]] # "NONE"
    BY <1>3, GraphAssumption DEF ReportArrives, DeployInv, WorkersKnowOnlyKnown, TasksOf
  <2>2. CASE FailRun(Report(t), JobOf[t], t, task, deployed[JobOf[t]])
    BY <1>1, <2>1, <2>2, CoroutineNames, CoroutinesDiffer
  <2>3. CASE UNCHANGED <<job, task, place, owner, frame>>
    BY <1>b, <2>3, WorldKeepsCancelInv
  <2> QED
    BY <1>3, <2>2, <2>3 DEF ReportArrives
<1>4. ASSUME NEW n \in Nat \ {0}, NEW h, Sweep(n, h) PROVE CancelInv'
  <2>1. ASSUME NEW m \in n..Len(runs), NEW i \in Suspects(runs[m], h),
               job[runs[m]] \in {"DEPLOYING", "RUNNING"},
               FailRun(Reconcile, runs[m], TaskOrder[runs[m]][i], task, deployed[runs[m]])
        PROVE  CancelInv'
    <3>1. runs[m] \in Jobs
      BY <1>0 DEF RestTyped
    <3>2. TaskOrder[runs[m]][i] \in TasksOf(runs[m])
      BY <3>1, TaskOrderType DEF Suspects
    <3> QED
      BY <1>1, <2>1, <3>1, <3>2, CoroutineNames, CoroutinesDiffer
  <2> QED
    BY <1>2, <1>4, <2>1 DEF Sweep
<1>5. sweep.next \in Nat \ {0}
  BY <1>0 DEF RestTyped
<1> QED
  BY <1>2, <1>3, <1>4, <1>5 DEF SweepStarts, SweepResumes

LEMMA OthersKeepCancelInv ==
  ASSUME TypeOK, CancelInv,
         \/ UNCHANGED vars
         \/ \E t \in Tasks : TaskFails(t) \/ ReportLost(t)
         \/ \E w \in Workers : \/ Heartbeat(w) \/ HeartbeatExpires(w) \/ WorkerCrashes(w)
                               \/ \E n \in SlotCounts : RegisterWorker(w, n)
  PROVE  CancelInv'
<1>1. UNCHANGED <<job, task, place, deployed, frame>>
  BY DEF vars, TaskFails, ReportLost, Heartbeat, HeartbeatExpires, WorkerCrashes, RegisterWorker
<1>2. host \in [Tasks -> Workers \cup {NoWorker}]
  BY TypeOKSplit DEF RestTyped
<1>3. \A t \in Tasks : host'[t] # NoWorker => host[t] # NoWorker
  BY <1>2 DEF vars, worldVars, TaskFails, ReportLost, Heartbeat, HeartbeatExpires, WorkerCrashes,
              RegisterWorker
<1> QED
  BY <1>1, <1>3, WorldKeepsCancelInv

LEMMA NextCancelInv ==
  ASSUME OtherReports = {}, TypeOK, CancelInv, DeployInv, [Next]_vars
  PROVE  CancelInv'
<1>1. CASE UNCHANGED vars
  BY <1>1, OthersKeepCancelInv
<1>2. CASE Next
  BY <1>2, SubmitsKeepCancelInv, DeployReachesKeepsCancelInv, DeployAnsweredKeepsCancelInv,
     CancelKeepsCancelInv, StopAnsweredKeepsCancelInv, FailuresKeepCancelInv, OthersKeepCancelInv
  DEF Next
<1> QED
  BY <1>1, <1>2

\* A job that was cancelled runs on no worker any more, lost answers, crashes and failures
\* during the cancel included: only without an error is it CANCELLED.
THEOREM CancelledJobsStopped ==
  ASSUME OtherReports = {}
  PROVE  Spec => []CancelledJobsAreGone
<1>1. Init => CancelInv
  <2> SUFFICES ASSUME Init PROVE CancelInv
    OBVIOUS
  <2> QED
    BY DEF Init, CancelInv, CancelSound
<1>2. TypeOK /\ DeployInv /\ CancelInv /\ [Next]_vars => CancelInv'
  BY NextCancelInv
<1>3. CancelInv => CancelledJobsAreGone
  BY GraphAssumption DEF CancelInv, CancelSound, CancelledJobsAreGone, TasksOf
<1> QED
  BY <1>1, <1>2, <1>3, DeployInvHolds, PTL DEF Spec
=============================================================================
