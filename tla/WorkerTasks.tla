---------------------------- MODULE WorkerTasks ----------------------------
(***************************************************************************)
(* WorkerTaskManager of one worker: deployments under one lock, each with  *)
(* the download of its bundle, the cache on disk, the start of its         *)
(* TaskRuntime and what is undone when a step fails; stops and failures of *)
(* runtimes beside them; crashes of the worker, whose disk stays.          *)
(*                                                                         *)
(* A request is one POST /tasks/deploy.  It goes on when its caller has    *)
(* given up.  r also names the runtime that request r builds.              *)
(***************************************************************************)
EXTENDS JobBundle

CONSTANTS
  Requests,    \* deployment requests
  TaskOf,      \* [Requests -> Tasks]
  JobOf,       \* [Tasks -> Jobs]
  SourceTasks, \* tasks that read from Kafka; the others have input channels
  SinkTasks,   \* tasks without output channels
  NoRequest,
  MaxCrashes   \* bound on crashes of the worker

Tasks == {TaskOf[r] : r \in Requests}

ASSUME RequestAssumption ==
  /\ JobOf \in [Tasks -> Jobs] /\ NoRequest \notin Requests
  /\ SourceTasks \cup SinkTasks \subseteq Tasks /\ MaxCrashes \in Nat

VARIABLES
  cached,    \* artifacts/<job>/<sha256>.zip on the worker's disk
  root,      \* jobs/<job>/<sha256>, the unpacked files
  step,      \* where the deploy handler of a request is
  current,   \* WorkerTaskManager._runtimes, by task
  state,     \* TaskRuntime.state
  holds,     \* what a runtime has taken and not yet given back
  cleaning,  \* _cleanup of a runtime: no, busy (it has the lock), done, cut
  waiting,   \* who waits for that cleanup: start, stop, restop, fail, end
  stopped,   \* runtimes for which a stop has returned
  crashes

runtimeVars == <<current, state, holds, cleaning, waiting, stopped>>
vars == <<bundleVars, cached, root, step, runtimeVars, crashes>>

Volatile ==
  /\ step = [r \in Requests |-> "none"]
  /\ current = [t \in Tasks |-> NoRequest]
  /\ state = [r \in Requests |-> "none"]
  /\ holds = [r \in Requests |-> {}]
  /\ cleaning = [r \in Requests |-> "no"]
  /\ waiting = [r \in Requests |-> {}]
  /\ stopped = {}

Init ==
  /\ BundleInit /\ Volatile
  /\ cached = [j \in Jobs |-> Absent] /\ root = [j \in Jobs |-> Absent]
  /\ crashes = 0

Job(r) == JobOf[TaskOf[r]]
-----------------------------------------------------------------------------
(* A deployment up to the runtime *)

Arrives(r) ==
  /\ step[r] = "none" /\ repository[Job(r)] # Absent
  /\ step' = [step EXCEPT ![r] = "queued"]
  /\ UNCHANGED <<bundleVars, cached, root, runtimeVars, crashes>>

Working == {"fetching", "publishing", "extracting", "building", "opening", "connecting",
            "undoing"}

\* Mutant: no deployment lock.
NobodyDeploysUnlocked == TRUE

NobodyDeploys == \A r \in Requests : step[r] \notin Working

\* Redelivery: a task that runs is answered as it is, one that ran is refused.
\* Otherwise a bundle on disk is used after another check of the archive.
TakesLock(r) ==
  /\ step[r] = "queued" /\ NobodyDeploys
  /\ LET old == current[TaskOf[r]]
         j == Job(r)
     IN step' = [step EXCEPT ![r] =
          IF old # NoRequest
          THEN IF state[old] \in {"STARTING", "RUNNING"} THEN "ok" ELSE "failed"
          ELSE IF cached[j] = Absent \/ root[j] = Absent THEN "fetching"
          ELSE IF cached[j] = repository[j] THEN "building" ELSE "failed"]
  /\ UNCHANGED <<bundleVars, cached, root, runtimeVars, crashes>>

\* The download is answered with the stored bytes, and their digest is checked.
Fetched(r) ==
  /\ step[r] = "fetching"
  /\ step' = [step EXCEPT ![r] = "publishing"]
  /\ UNCHANGED <<bundleVars, cached, root, runtimeVars, crashes>>

\* Mutant: a download that failed is tried again.
FetchFailsRetried(r) ==
  /\ step[r] = "fetching"
  /\ UNCHANGED vars

\* The download times out, or is answered 404 by a job manager that was restarted.
FetchFails(r) ==
  /\ step[r] = "fetching"
  /\ step' = [step EXCEPT ![r] = "failed"]
  /\ UNCHANGED <<bundleVars, cached, root, runtimeVars, crashes>>

\* os.replace of a file written beside it; a file that is there is kept.  Then the
\* file under that name is verified.
PublishZip(r) ==
  /\ step[r] = "publishing"
  /\ LET j == Job(r) IN
     /\ cached' = IF cached[j] = Absent THEN [cached EXCEPT ![j] = repository[j]] ELSE cached
     /\ step' = [step EXCEPT ![r] = IF cached'[j] = repository[j] THEN "extracting" ELSE "failed"]
  /\ UNCHANGED <<bundleVars, root, runtimeVars, crashes>>

\* Mutant: a download is written under its final name (nothing of it yet).
CrashWhilePublishing(r) ==
  /\ step[r] = "publishing"
  /\ cached' = IF cached[Job(r)] = Absent THEN [cached EXCEPT ![Job(r)] = NoBuild] ELSE cached
  /\ UNCHANGED root

\* Mutant: an archive is unpacked under its final name (no file yet).
CrashWhileExtracting(r) ==
  /\ step[r] = "extracting"
  /\ root' = IF root[Job(r)] = Absent THEN [root EXCEPT ![Job(r)] = << >>] ELSE root
  /\ UNCHANGED cached

\* A process that dies leaves a temporary file or a staging directory at most,
\* under names nobody looks for.
CrashOf(r) == UNCHANGED <<cached, root>>

\* Every file is compared with the manifest before the directory gets its name.
Extract(r) ==
  /\ step[r] = "extracting"
  /\ LET j == Job(r) IN
     /\ root' = IF root[j] = Absent /\ Extractable(repository[j])
                THEN [root EXCEPT ![j] = repository[j].payload] ELSE root
     /\ step' = [step EXCEPT ![r] =
                   IF root[j] # Absent \/ Extractable(repository[j]) THEN "building" ELSE "failed"]
  /\ UNCHANGED <<bundleVars, cached, runtimeVars, crashes>>

-----------------------------------------------------------------------------
(* TaskRuntime.start *)

\* What a start has taken at its first await: a consumer that is being started, or the
\* registration of the input channels.
Taken(t) == IF t \in SourceTasks THEN {"consumer"} ELSE {"inputs"}
Outputs(t) == IF t \in SinkTasks THEN {} ELSE {"outputs"}

\* register refuses a channel that another runtime of the task still has.
InputsTaken(r) ==
  \E q \in Requests \ {r} : TaskOf[q] = TaskOf[r] /\ "inputs" \in holds[q]

\* The graph is read, the UDF loaded, the runtime entered and started as far as
\* its first await; an operator is open by then.
Build(r) ==
  /\ step[r] = "building"
  /\ LET t == TaskOf[r] IN
     /\ current' = [current EXCEPT ![t] = r]
     /\ state' = [state EXCEPT ![r] = "STARTING"]
     /\ holds' = [holds EXCEPT ![r] = {"module"} \cup (IF InputsTaken(r) THEN {} ELSE Taken(t))]
     /\ step' = [step EXCEPT ![r] = IF InputsTaken(r) THEN "undoing"
                                    ELSE IF t \in SourceTasks THEN "opening" ELSE "connecting"]
     /\ waiting' = [waiting EXCEPT ![r] = IF InputsTaken(r) THEN {"start"} ELSE {}]
  /\ UNCHANGED <<bundleVars, cached, root, cleaning, stopped, crashes>>

\* job.yaml does not name the task, or its UDF cannot be loaded: the loader is closed.
BuildFails(r) ==
  /\ step[r] = "building"
  /\ step' = [step EXCEPT ![r] = "failed"]
  /\ UNCHANGED <<bundleVars, cached, root, runtimeVars, crashes>>

\* consumer.start returns, and the source has its consumer.
Opened(r) ==
  /\ step[r] = "opening"
  /\ holds' = [holds EXCEPT ![r] = (@ \ {"consumer"}) \cup {"source"}]
  /\ step' = [step EXCEPT ![r] = "connecting"]
  /\ UNCHANGED <<bundleVars, cached, root, current, state, cleaning, waiting, stopped, crashes>>

\* Every channel is connected; the state becomes RUNNING whatever it was meanwhile.
Connected(r) ==
  /\ step[r] = "connecting"
  /\ holds' = [holds EXCEPT ![r] = @ \cup Outputs(TaskOf[r])]
  /\ state' = [state EXCEPT ![r] = "RUNNING"]
  /\ step' = [step EXCEPT ![r] = "ok"]
  /\ UNCHANGED <<bundleVars, cached, root, current, cleaning, waiting, stopped, crashes>>

\* Mutant: a start that fails leaves what it has taken.
StartFailsLoose(r) ==
  /\ step[r] \in {"opening", "connecting"}
  /\ state' = [state EXCEPT ![r] = "FAILED"]
  /\ current' = [current EXCEPT ![TaskOf[r]] = NoRequest]
  /\ step' = [step EXCEPT ![r] = "failed"]
  /\ UNCHANGED <<bundleVars, cached, root, holds, cleaning, waiting, stopped, crashes>>

\* The consumer does not start or a channel cannot be connected; the channels
\* connected so far are aborted before start cleans up.  A consumer whose start
\* raised is forgotten by open without a stop: whether it lets go of what it has
\* taken is up to the Kafka client.
StartFails(r) ==
  /\ step[r] \in {"opening", "connecting"}
  /\ step' = [step EXCEPT ![r] = "undoing"]
  /\ waiting' = [waiting EXCEPT ![r] = @ \cup {"start"}]
  /\ \E freed \in SUBSET {"consumer"} : holds' = [holds EXCEPT ![r] = @ \ freed]
  /\ UNCHANGED <<bundleVars, cached, root, current, state, cleaning, stopped, crashes>>

\* After the cleanup: FAILED, and deploy takes the runtime out of its table.
StartUndone(r) ==
  /\ "start" \in waiting[r] /\ cleaning[r] = "done"
  /\ waiting' = [waiting EXCEPT ![r] = @ \ {"start"}]
  /\ state' = [state EXCEPT ![r] = "FAILED"]
  /\ current' = [current EXCEPT ![TaskOf[r]] = NoRequest]
  /\ holds' = [holds EXCEPT ![r] = @ \ {"module"}]
  /\ step' = [step EXCEPT ![r] = "failed"]
  /\ UNCHANGED <<bundleVars, cached, root, cleaning, stopped, crashes>>

-----------------------------------------------------------------------------
(* _cleanup, and who calls it *)

\* What _cleanup knows of: a consumer that did not start is not referenced any more.
InReach(r) == holds[r] \ {"consumer"}

Rank == [source |-> 1, outputs |-> 2, inputs |-> 3, module |-> 4]

\* Mutant: _cleaned is looked at without the lock.
CleanedUnlocked(r) == cleaning[r] # "no"

\* A caller goes on when _cleaned is set and the lock is free.
Cleaned(r) == cleaning[r] \in {"done", "cut"}

Cleans(r) ==
  /\ waiting[r] # {} /\ cleaning[r] = "no"
  /\ cleaning' = [cleaning EXCEPT ![r] = "busy"]
  /\ UNCHANGED <<bundleVars, cached, root, step, current, state, holds, waiting, stopped, crashes>>

\* Source, channels, operator and input channels, module are given back in this
\* order, with an await at each; errors are suppressed.
GivesBack(r) ==
  /\ cleaning[r] = "busy"
  /\ IF InReach(r) = {}
     THEN cleaning' = [cleaning EXCEPT ![r] = "done"] /\ UNCHANGED holds
     ELSE /\ \E x \in InReach(r) :
               /\ \A y \in InReach(r) : Rank[x] <= Rank[y]
               /\ holds' = [holds EXCEPT ![r] = @ \ {x}]
          /\ UNCHANGED cleaning
  /\ UNCHANGED <<bundleVars, cached, root, step, current, state, waiting, stopped, crashes>>

\* The run loop, or the handler of one of its connections, fails.
Fails(r) ==
  /\ \/ state[r] = "RUNNING"
     \/ state[r] \in {"STOPPING", "STOPPED"} /\ TaskOf[r] \notin SourceTasks
  /\ state' = [state EXCEPT ![r] = "FAILED"]
  /\ waiting' = [waiting EXCEPT ![r] = @ \cup {"fail"}]
  /\ UNCHANGED <<bundleVars, cached, root, step, current, holds, cleaning, stopped, crashes>>

\* All inputs have ended: the run loop cleans up itself.
Ends(r) ==
  /\ state[r] = "RUNNING" /\ waiting[r] = {} /\ TaskOf[r] \notin SourceTasks
  /\ waiting' = [waiting EXCEPT ![r] = {"end"}]
  /\ UNCHANGED <<bundleVars, cached, root, step, current, state, holds, cleaning, stopped, crashes>>

\* DELETE /tasks/<t>.  The job manager stops tasks whose deployment was answered,
\* each once.
\* stop cancels the run loop, in the middle of its own cleanup if that is where it
\* is: that cleanup ends there, and nobody takes it up again.
Stop(t) ==
  LET r == current[t] IN
  /\ r # NoRequest /\ \E q \in Requests : TaskOf[q] = t /\ step[q] = "ok"
  /\ r \notin stopped /\ waiting[r] \cap {"stop", "restop"} = {}
  /\ IF state[r] \in {"STOPPED", "FAILED"}
     THEN /\ waiting' = [waiting EXCEPT ![r] = @ \cup {"restop"}]
          /\ UNCHANGED <<state, cleaning>>
     ELSE /\ state' = [state EXCEPT ![r] = "STOPPING"]
          /\ waiting' = [waiting EXCEPT ![r] = (@ \ {"end"}) \cup {"stop"}]
          /\ cleaning' = [cleaning EXCEPT ![r] =
                            IF "end" \in waiting[r] /\ @ = "busy" THEN "cut" ELSE @]
  /\ UNCHANGED <<bundleVars, cached, root, step, current, holds, stopped, crashes>>

\* A caller of _cleanup goes on: stop ends in STOPPED, the run loop only if it was
\* still RUNNING, fail reports.
Resumes(r, who) ==
  /\ who \in waiting[r] \ {"start"} /\ Cleaned(r)
  /\ waiting' = [waiting EXCEPT ![r] = @ \ {who}]
  /\ state' = [state EXCEPT ![r] =
                 IF who = "stop" \/ (who = "end" /\ @ = "RUNNING") THEN "STOPPED" ELSE @]
  /\ stopped' = IF who \in {"stop", "restop"} THEN stopped \cup {r} ELSE stopped
  /\ UNCHANGED <<bundleVars, cached, root, step, current, holds, cleaning, crashes>>

\* The process dies and is started again with the disk as it is.
Crashes ==
  /\ crashes < MaxCrashes /\ crashes' = crashes + 1
  /\ \E r \in Requests : step[r] \in Working \cup {"ok"}
  /\ \E r \in Requests : CrashOf(r)
  /\ step' = [r \in Requests |-> IF step[r] = "none" THEN "none" ELSE "lost"]
  /\ current' = [t \in Tasks |-> NoRequest]
  /\ state' = [r \in Requests |-> "none"]
  /\ holds' = [r \in Requests |-> {}]
  /\ cleaning' = [r \in Requests |-> "no"]
  /\ waiting' = [r \in Requests |-> {}]
  /\ stopped' = {}
  /\ UNCHANGED bundleVars

-----------------------------------------------------------------------------
DeployStep(r) ==
  \/ TakesLock(r) \/ Fetched(r) \/ FetchFails(r) \/ PublishZip(r) \/ Extract(r)
  \/ Build(r) \/ BuildFails(r) \/ Opened(r) \/ Connected(r) \/ StartFails(r)
  \/ StartUndone(r)

\* What the worker does by itself.  An answer of the job manager or of another worker
\* may never come, but the wait for it ends; the wait for consumer.start need not.
OwnStep(r) ==
  \/ TakesLock(r) \/ FetchFails(r) \/ PublishZip(r) \/ Extract(r)
  \/ Build(r) \/ (step[r] = "connecting" /\ StartFails(r)) \/ StartUndone(r)

CleanupStep(r) ==
  Cleans(r) \/ GivesBack(r) \/ \E who \in {"stop", "restop", "fail", "end"} : Resumes(r, who)

Next ==
  \/ BundleNext /\ UNCHANGED <<cached, root, step, runtimeVars, crashes>>
  \/ \E r \in Requests : Arrives(r) \/ DeployStep(r) \/ CleanupStep(r) \/ Fails(r) \/ Ends(r)
  \/ \E t \in Tasks : Stop(t)
  \/ Crashes

Spec == Init /\ [][Next]_vars

\* The lock is handed on, downloads and connection attempts have a time limit, a
\* cleanup under way goes on, the stop of a consumer that was started included.
Fairness ==
  \A r \in Requests :
    WF_vars(OwnStep(r)) /\ WF_vars(Cleans(r)) /\ WF_vars(GivesBack(r))

FairSpec == Spec /\ Fairness

-----------------------------------------------------------------------------
(* Properties *)

\* Whatever moment the worker dies at, what is under the final names on its disk is
\* whole: the archive that was submitted, and the files its manifest lists.  Both
\* are reused by later deployments, the files without another look at them.
DiskIsWhole ==
  \A j \in Jobs : /\ cached[j] \in {Absent, repository[j]}
                  /\ root[j] # Absent => root[j] = repository[j].manifest

\* A job that was accepted is never failed by its files, whatever its author edited
\* while they were packed and whatever crashes left on the disk: a deployment that has
\* its archive, or finds it on the disk, comes as far as building the runtime, and
\* builds it from exactly the files that were submitted.
AcceptedBundlesDeploy ==
  [][\A r \in Requests :
       /\ step[r] # "building" /\ step'[r] = "building" =>
            root'[Job(r)] = repository[Job(r)].manifest
       /\ step[r] \in {"publishing", "extracting"} => step'[r] # "failed"
       /\ step[r] = "queued" /\ current[TaskOf[r]] = NoRequest => step'[r] # "failed"]_vars

\* Two runtimes of one task never exist side by side, however deployments of it are
\* repeated, fail and follow each other.  (A consumer that did not start belongs to
\* no runtime any more.)
OneRuntimePerTask ==
  \A r, q \in Requests :
    TaskOf[r] = TaskOf[q] /\ r # q =>
      InReach(r) = {} \/ InReach(q) = {}

\* A deployment that was answered with a failure has left nothing behind: no entry,
\* registration, open source, connection or UDF module.  The one exception is the
\* consumer of a source whose start raised, which nobody stops.
FailedDeployLeavesConsumerAtMost ==
  \A r \in Requests : step[r] = "failed" =>
    /\ current[TaskOf[r]] # r
    /\ holds[r] \subseteq (IF TaskOf[r] \in SourceTasks THEN {"consumer"} ELSE {})

\* When a stop returns, everything the runtime had is given back, also when the
\* task was failing or ending at that time; the one exception is a stop that
\* interrupts the cleanup of a task that is ending.
StopMeansClean ==
  \A r \in stopped : cleaning[r] # "cut" => holds[r] = {}

\* Every deployment is answered, although all wait for one lock that is held during
\* downloads, starts and what undoes them: unless a consumer is started under that
\* lock and its start never ends, because nothing limits that wait.
DeploysAnswered ==
  \A r \in Requests :
    \/ step[r] = "queued" ~> step[r] \in {"ok", "failed", "lost"}
    \/ \E q \in Requests : <>[](step[q] = "opening")
=============================================================================
