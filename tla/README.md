# TLA+ specifications of PyStream

PyStream is a small distributed stream processor: a job manager takes a job
bundle, expands it into parallel tasks, places them on the slots of workers and
deploys them; the tasks send each other records over TCP until the job is
cancelled or something fails, and then the whole job fails (fail-fast, no
recovery). All of it is Python `asyncio`: one loop per process, coroutines that
interleave at every `await`, processes that talk by HTTP (control) and by framed
TCP (data).

Paths below are relative to `src/src/pystream/` unless they start with `src/`.

## Inventory

| Component | Source | State | Operations |
|---|---|---|---|
| Job manager | `control/manager.py`, `control/models.py`, `control/http.py` | `_runs` with job status, task statuses, `deployed_task_ids`; suspended request coroutines | `submit_job`, `cancel_job`, `report_task_status`, `reconcile_worker_health`, `_fail_run`, `_stop_tasks` |
| Worker registry and slots | `control/scheduler.py`, `control/models.py` | workers, heartbeat times, owner of every slot; assignment of every task | `register`, `heartbeat`, `healthy`, `schedule`, `release` |
| Execution graph | `control/execution.py` | none (pure) | expansion to tasks and channels, `deployment_order`, `bind_endpoints` |
| Worker HTTP service, gateway | `worker/http.py` | registration, heartbeat loop | deploy and stop requests with a 10 s timeout, one failure report without retry |
| Worker task manager | `worker/manager.py` | runtimes by task, deployment lock, artifact cache | `deploy`, `stop`, `close`, `_prepare_artifact`, `_report_failure` |
| Task runtime | `runtime/task.py` | lifecycle state, run loop, input queue, ended inputs, `_cleaned` | `start`, `stop`, `_run`, `_fail`, `_cleanup`, `accept_records`, `input_closed`, `input_failed` |
| Data channel | `runtime/channel.py` | lifecycle state, bounded queue, sender coroutine | `start`, `send`, `close`, `abort`, `_run_sender` |
| Data-plane server, protocol | `runtime/server.py`, `runtime/protocol.py` | registrations, connection handlers, bytes not yet decoded | `register`, `unregister`, `_handle_connection`, `_read_stream` |
| Shuffle routing | `runtime/routing.py` | round-robin position | hash and rebalance routing |
| Reduce window, operators | `operators/window.py`, `operators/core.py` | accumulator per (window, key) | `process`, `on_timer` |
| Kafka source, file sink | `operators/connectors.py` | consumer position, file | `records`, `commit`, write |
| Job definition | `api/graph.py`, `api/models.py`, `api/parser.py` | none (pure) | validation, topological order, key propagation, choice of partitionings |
| Artifacts | `artifact/*.py`, `control/artifacts.py` | files of bundles and repository | build, verify, extract, save; load of a UDF module |
| Command line, client, wiring, logs | `cli.py`, `client.py`, `service.py`, `observability/` | none | — |

How they interact: the command line submits to the job manager by HTTP; the job
manager calls workers (`deploy_task`, `stop_task`) and awaits each answer;
workers register, send heartbeats and report failed tasks; a deployed task
registers its input channels with the data-plane server of its worker, connects
to the servers of its downstream tasks and streams records.

What is hard, and what makes each part correct:

* **Job manager.** Submit, cancel, any number of failure reports and the health
  sweep of one job interleave at every await of a worker's answer, each holding
  local variables. A coroutine may find on resuming that another one has settled
  the job or the task it was stopping; the transition it then attempts is refused
  and the exception ends it half-way. A worker's answer may be late or lost,
  which says nothing of what the worker did. Correct: statuses never claim what
  is not so, no slot is lost or given twice, every job settles, nothing is left
  running after a cancel.
* **Registry and slots.** Workers vanish and come back while their slots are
  taken; two books (slot owner, task assignment) must agree. Correct: the books
  agree; a job gets all its slots or none, gives them back once; the placement
  is the balanced one.
* **Task runtime, channel, server.** Per connection five coroutines share state:
  run loop, sender, closer, handler, receiving run loop; any of them can fail or
  be cancelled at any await, with bounded queues at every hop. Correct: order
  per channel; an end of stream is never taken for complete when it is not; a
  gap always surfaces as a failure; nobody waits for ever on a peer that is gone;
  stopping is not failing.
* **Window.** Processing time of one host, timers of another, and late arrival of
  records assigned earlier. Correct: every record is counted in exactly one row, no
  row is emitted early, and the last window of a quiet stream is emitted too.
* **Worker task manager.** Deploys under one lock, stops and failures without it,
  a process that may die at any step with its disk left behind. Correct: nothing
  half-made is used, one runtime per task, a stop leaves nothing and a failed
  deployment at most a consumer that did not start, every deployment is answered
  unless a consumer's start never ends.
* **Artifacts.** A directory is read twice while its author may edit it; bundles
  travel author, job manager, worker. Correct: no deployment of an
  accepted job fails by its files.
* **Source.** A commit covers the positions of whatever partitions the consumer has
  at that moment, and the group may rebalance at any moment. Correct: no commit
  passes a record that was not sent, and little is sent twice.
* **Framing.** Bytes arrive in pieces of any size and may stop anywhere. Correct:
  exactly the frames written, at most one buffered, an end of file is never an end
  of stream.
* **From job.yaml to tasks.** Validation, key propagation, order, partitioning,
  channels, routing and placement are decided in six places. Correct: together they
  bring the records of one key to one task, over channels that exist, to tasks that
  were deployed before.

The hazards found in the survey are listed, each at its line, in `PROJECT.json`.

## Modules

| Module | Models | Uses |
|---|---|---|
| `SlotLease` | abstract: what the control plane promises about slots | |
| `Placement` | abstract: what a placement of one job satisfies | |
| `FrameLink` | abstract: what a data connection promises to its two ends | |
| `RecordChannel` | abstract: what the channel between two tasks promises to both | |
| `JobManager` | job manager, registry, gateway and workers as the job manager sees them | `Placement`; implements `SlotLease` |
| `JobManagerProofs`, `JobStopProofs` | theorems about `JobManager` | `JobManager`, TLAPS |
| `SlotScheduler` | the placement algorithm, reserve and release | `Placement` |
| `JobPlan` | job definition, execution graph, routing, composed with the scheduler | `SlotScheduler` |
| `JobPlanProofs` | theorems about `JobPlan` and `SlotScheduler` | `JobPlan`, TLAPS |
| `JobBundle` | build, check, submission and unpacking of job bundles | |
| `WorkerTasks` | the worker: deployments, cache on disk, lifecycles of task runtimes, crashes | `JobBundle` |
| `WorkerTasksProofs` | theorems about `WorkerTasks` and `JobBundle` | `WorkerTasks`, TLAPS |
| `DataPlane` | sources, channels, connections, server and a receiving task | each wire is a `FrameLink`, each channel a `RecordChannel` |
| `DataPlaneProofs` | theorems about `DataPlane`: its wires and channels, what arrives at the task, when an input ends | `DataPlane`, TLAPS |
| `Framing` | frames over a byte stream, both decoders, one connection's handler | implements `FrameLink` |
| `FramingProofs` | theorems about `Framing` | `Framing`, TLAPS |
| `SourceGroup` | the subtasks of a Kafka source and their consumer group | |
| `SourceGroupProofs` | theorems about `SourceGroup` | `SourceGroup`, TLAPS |
| `WindowedCount` | a reduce task over processing-time windows, its inputs and its sink | |
| `WindowedCountProofs` | theorems about `WindowedCount` | `WindowedCount`, TLAPS |
| `MC*` | instances for TLC | |

How they fit together: `JobPlan` shows that `schedule` keeps the promise of
`Placement`, which is all `JobManager` knows of a placement, and that the order of
deployment, a constant of `JobManager`, puts targets first, which is what lets
`DataPlane` start a source only when its target is registered. `JobManager` sees of
a worker that it deploys, stops, fails and dies; `WorkerTasks` shows what happens
there. `Framing` implements the link of whole frames that the wires of `DataPlane`
are. `SourceGroup` and `WindowedCount` are the two ends of the data path.

Definitions whose comment starts with "Mutant:" are deliberately wrong variants
of the operator they precede. No behaviour uses them; each shows which bug a
property would find.

### JobManager

An action is the code between two awaits. `frame[c]` is a suspended coroutine
with the local variables it resumes with; coroutines are `Submit(j)`,
`Cancel(j)`, `Report(t)` and `Reconcile`. `StopTasks` is the loop of
`_stop_tasks` up to the next await, `FinishStops` what follows it in the caller
(release, `_cancel_scheduled_tasks`, final transition), so `FailRun` is the whole
`_fail_run`. A refused transition raises in Python; here it is the disjunct in
which the coroutine ends with the job as it is (`DuringFailRun`, `AfterFailRun`,
`AfterCancel` hold the transition tables' verdicts).

| Actions | Code |
|---|---|
| `SubmitJob`, `RejectJob` | `submit_job` up to the first deploy |
| `DeployedNext`, `DeployedLast`, `DeployedTooLate`, `DeployFails` | the loop of `submit_job` after an answer |
| `CancelJob`, `ReportArrives`, `ReportOther`, `StopSucceeds`, `StopFails` | `cancel_job`, `report_task_status`, answers of `stop_task` |
| `SweepStarts`, `SweepResumes` | `_reconcile_loop`, `reconcile_worker_health` with the snapshot of healthy workers it took before its awaits |
| `RegisterWorker`, `Heartbeat`, `HeartbeatExpires` | `WorkerRegistry` |
| `DeployReaches`, `TaskFails`, `ReportLost`, `WorkerCrashes` | the workers and the network |

Abstractions. The graph is a constant: tasks of a job in graph order and in
deployment order. The placement is any member of `Placements`; `SlotScheduler`
shows, within `JobPlan`, that the algorithm's choice is one. A stop or deployment that a worker
carries out after its caller's timeout is carried out before the timeout instead
(`StopFails`, `DeployReaches`): until the caller resumes nothing distinguishes the
two, and a later effect of a deployment is what the run `leftover` is about.
Heartbeat times are the set `fresh`. Deleted job records do not exist in the
code, and the job manager's own restart loses everything by design
(src/docs/architecture.md:125), so neither is modelled.

### SlotScheduler and JobPlan

`SlotScheduler.schedule` step by step: the capacity check, the spread target, the
candidates, the least loaded of them by exact fraction with its tie-breaks, and
the slots `WorkerNode.reserve` picks; `release`; workers entering and leaving the
healthy set.

`JobPlan` puts the way from `job.yaml` to placed tasks in front of it. A definition
is a sequence of operators and one of edges. `WellFormed`, `UniqueIds`, `ValidEdges`,
`TopologicalOrder`, `Keyed`, `Partitioning` are the checks and passes of
`StreamGraph` in the order of its constructor, `TasksOf`, `Channels`,
`DeploymentOrder`, `Endpoint` those of `build_execution_graph`, `Route` the subtasks
`ShuffleRouter` may pick: the one of the key's hash, or any to which its cursor comes.
`Submit` accepts and places, `Refuse` answers an unsound graph, `Finish` releases.
The properties compare the algorithms with definitions of another kind: cycles and
unkeyed paths by sets of operators instead of an order, ownership of a key by what
the routers of all upstream tasks choose.

### JobBundle

The author's directory is listed, read once for the manifest and once more for the
archive, and may be edited in between (`Edit`, bounded by `MaxEdits`). A content
is a value with a length. `ValidArchive` is `_validate_archive`, which compares
names and sizes; `Extractable` is `extract_job_bundle`, which compares digests.
`Submit` is `_submit` up to the repository's `put`. Member names that leave the
directory, links and compression are not modelled.

The check at artifact/bundle.py:219 compares the manifest with the copy of it
just written into the archive and so cannot notice such an edit; the trial
extraction in `_submit` does. `WorkerTasks!AcceptedBundlesDeploy` says what that is
for, on the workers: without it an accepted job fails on every one of them, as the
mutant of that property shows.

### WorkerTasks

`step[r]` is where the handler of deployment request r is: in the queue of the lock, at
one of the awaits or file steps under it, or answered. `current` is the manager's
table. A request also names the runtime it builds, whose `state` is
`TaskRuntime.state`, and `holds` what it has taken: the source with its consumer,
output channels, input registrations, the UDF module. `_cleanup` takes a lock and gives
these back in order with an await at each. A consumer whose `start()` is under way or
raised is held apart (`consumer`): `KafkaJsonSource.open` keeps it in a local variable
and forgets it on an exception, so no cleanup reaches it (`InReach`), and what it had
taken by then, connections or a place in the group, is let go by the Kafka client or
stays. `FailedDeployLeavesConsumerAtMost` names it as its one exception; `waiting[r]`
are the callers in it (a failing start, stop, `_fail`, the end of the run loop) and
`cleaning[r]` how far it is. `cut` is a cleanup that ended because `stop` cancelled the
run loop it ran in: nobody takes it up again, and `StopMeansClean` names it as its one
exception. Crashes forget everything but the disk. `CrashOf` says what a file operation
leaves when the process dies in it, which is nothing under a final name.

| Actions | Code |
|---|---|
| `Arrives`, `TakesLock`, `Fetched`, `FetchFails`, `PublishZip`, `Extract` | `_deploy`, `deploy`, `_prepare_artifact` |
| `Build`, `BuildFails`, `Opened`, `Connected`, `StartFails`, `StartUndone` | the rest of `deploy`, `TaskRuntime.start`, `_connect_outputs` |
| `Cleans`, `GivesBack`, `Resumes` | `_cleanup` and its callers |
| `Fails`, `Ends`, `Stop`, `Crashes` | `_fail`, the end of `_run`, `stop`, the death of the process |

A stop reaches a runtime once, as `JobManager!OneStopPerTask` shows for the only
caller there is.

### DataPlane

A composition of five components: source runtimes, their channels, the
connections, the server's handlers, and one receiving task. Its variables are
grouped the same way (`sourceVars`, `wireVars`, `serverVars`, `taskVars`).
`closing[u]` is the await at which `channel.close()` or `abort()` of a source is
suspended: waiting for room for the CLOSE mark (`put`), for the sender (`join`),
writing END_OF_STREAM (`eos`, `drain`), or flushing after an abort (`abort`).
`stray[u]` is the `queue.put` task that `_guarded_put` leaves behind when the run
loop is cancelled in it. `hand[u]` is what the connection handler has decoded and
not yet put into the input queue. `failing` counts calls of `_fail` between the
change of state and the report, during which the run loop goes on.

As a `RecordChannel`, the channel of a source reaches from `send` to the operator:
`sent` counts what was put, `processed` what was taken, and it is closed when its writer
puts no more (`ChannelState`), broken when its line is cut or its reader is gone, ended when
the task has taken its end.

Abstractions. A record is its number. A frame is read whole or not at all. A
connection that breaks loses a suffix of what was under way, and writes to it may
be dropped silently before one raises, as with TCP. `drain()` returns while
fewer than `WireCapacity` frames are in flight. A sender that goes on after its
writer was closed writes into the void. The receiving task is a sink; its timers
have no effect here. Malformed frames, duplicate connections, heartbeat and error
frames are left out: PyStream's own sender produces none of them, and `Framing`
says what the handler makes of them.

### Framing

A byte is a number below `Radix`, a length prefix two of them, a body its type and a
few bytes. `Deliver` moves any number of bytes from the wire to the `StreamReader`
and hands the same piece to an `IncrementalFrameDecoder`. `ReadPrefix`, `ReadBody` and
`EofFails` are the two awaits of `read_frame` and their failure; behind each frame
the handler decides in the same step (`Continues`, `Handles`). `Breaks` loses any
suffix of the bytes, those the `StreamReader` has buffered included, because asyncio
raises the connection's error before it looks at them. `FeedData` drops, as the code
does, frames of a piece in which a later body is malformed. Its `while` loop is
`DrainStep`, one round as a function of what the decoder holds, iterated as often as the
buffer has bytes (`Drained`): a round that finds a frame takes at least one, and a round
that finds none changes nothing.

### SourceGroup

A source task opens its consumer, polls a record, puts it into the queue of every
route, commits, polls. `position` and `committed` are the consumer's and the group's
offsets; `Commit` takes the positions of all partitions assigned at that moment,
`Rebalance` reassigns them at any moment, and what was read but not committed is read
again. A bad record is passed over or fails the task, by policy. The group itself is
external: any assignment to the members that are left.

### WindowedCount

The run loop of a reduce task between its inputs and its sink. `windows` is
`ReduceWindowOperator._windows`, a function from <<window start, key>> to the set of
records reduced so far (empty: no entry); `out` holds the rows `on_timer` has
returned and `_emit_many` has yet to send. `process` and the `on_timer` behind it
run without an await and are one action (`Processes`); the sends of the rows are
actions of their own, and between them the clock moves, inputs grow, and the task
may be stopped or fail. The time of a record is read from the clock of its source,
up to `MaxSkew` off the clock of the reduce task.

Abstractions. A channel is a bounded FIFO queue with an end mark, which is what
`RecordChannel` promises of the real one as long as it does not break. Times are ticks; the accumulator is the set of records
behind it, so that a record counted twice or lost shows. The sink is assumed to
run on: its failure fails the whole job.

## Runs

`tlc -config <cfg> <module>`; every run takes less than four minutes on two
cores.

| Run | Instance | Question |
|---|---|---|
| `failures` | one job of three tasks, two workers with one or two slots, one crash, answers and reports get lost | can the statuses claim what is not so, or the two books of the slots disagree, under any interleaving of cleanups? |
| `jobs` | two jobs on one worker that dies or comes back, RUNNING reported at any time, fair | does a settled job hold no slot, is the slot lease implemented, does the sweep reach the second job, does every deployment, cancel and cleanup end? |
| `leftover` (violated) | one job of two tasks, nothing lost | is nothing of a FAILED job left on a worker? |
| `plan` | some 260 graphs of five operators and a few broken ones, beside a job of two tasks; workers of 1, 3 and 6 slots | is what is accepted sound, deployed targets first, routed by key, placed as promised? |
| `worker` | one bundle of two files edited once; a task deployed twice and a source task; one crash | is nothing half-made used, does an accepted bundle never fail a deployment, what may a failed one leave behind, is every one answered? |
| `stream` | one source, one record more than fits on its way, batches of two, every fault, fair | is a channel a bounded queue in order with a complete end, however slow its reader is; do broken inputs surface, do closes return? |
| `merge` | two sources, one record each, two frames per wire, queues of one place | does the task complete only when both inputs ended whole; are wires frame links? |
| `stopping` (violated) | one idle source, no faults, upstream stopped first | does stopping a healthy task report no failure? |
| `framing` | three frames of nine kinds, every cut into pieces, fair | are exactly the frames written found, and is an end of file never a normal end? |
| `sources` | two subtasks, a partition good-bad-good and one of two good records, two routes, two rebalances, fair | does no commit pass an unsent record, is at most one record of a partition sent again, is every good one sent? |
| `window` | two inputs of two records, clocks one tick apart, two windows, channels of one place, fair | is every record counted once, never before its window's end, and written in the end? |
| `late` (violated) | one input, equal clocks, no stop | is there one row per window and key? |

Bounds and why they suffice. Two jobs are what it takes to compete for a slot and
to stand one behind the other in the sweep; three tasks are what it takes to have
one task before, one in and one after the deployment in flight and to have two
cleanups stop different tasks. One crash (`MaxCrashes`) makes one worker's slots
stale, and workers may register again any number of times. In `failures` it
may come back with another slot count.

The graphs of `plan` are all choices of six further edges over a source, a sink and
three operators between them in four declarations (an inner source, a key_by, a map
and a reduce in two orders, parallelism 1 and 2), so cycles, by-passed key_bys,
diamonds and dangling operators all occur, and five defective definitions beside
them. The second job makes the workers unequally loaded.

In `worker` a second request for one task is what redelivery needs; the source task
adds the lock's queue and a consumer. Contents of equal and of other length make
edits that the length check sees and that it misses; one edit (`MaxEdits`) and one
crash (`MaxCrashes`) at any step each. One directory lacks `job.yaml`.

In `DataPlane` capacities of one and two make every bounded queue block; batches of
two are full, partial or have the CLOSE mark behind one record; `WireCapacity` two in
`merge` lets END_OF_STREAM be written while a batch is still unread. In `stream` seven records fill
every place (`Room`) and the eighth must wait; with a `Room` smaller by one
`ChannelsDeliver` fails. In `framing` three frames give a first, a middle and a last one; sizes
lie on both sides of both limits and need both digits of the length; `WireCapacity`
lets a piece hold the end of one frame and whole ones behind it. In `sources` two
rebalances that nobody's leaving causes (`MaxRebalances`) let a partition go away and
come back between a poll and its commit. In `WindowedCount` two windows of two ticks
and two records per input make on time, late and early records of either window;
channels of one place make every send wait.

`DataPlane`, `Framing`, `SourceGroup`, `WorkerTasks` and `WindowedCount` are checked
without deadlock check because tasks stop for good, connections end and times, logs
and requests run out.

Fairness. `JobManager`: while a coroutine can resume, some one does; an answer awaited
through the gateway comes or times out (10 s, `HttpWorkerGateway`), and the reconcile
loop is an endless loop that catches its exceptions. Nothing is assumed of workers,
heartbeats, reports, cancels or submits, nor that the event loop is fair to each
coroutine, which it is. `WorkerTasks`: the deployment lock is handed on, and
waits for downloads and connections end because the HTTP client and TCP have time
limits; that an answer ever is a good one is not assumed. Nothing limits the wait for
`consumer.start()` (operators/connectors.py:151), so it may go on for ever, lock in hand:
`DeploysAnswered` says that every deployment of the worker is answered or some consumer's
start never ends. That `consumer.stop()` returns in a cleanup is assumed of the Kafka
client. `DataPlane`: a coroutine that
can go on does (senders, closers, handlers, the receiving run loop, a stop that has
begun). Nothing is assumed of sources producing, of failures or of stops being called.
`Framing`: bytes under way arrive, or are lost and the end is noticed; the handler
runs; nothing is assumed of the writer. `SourceGroup`: the run loop goes on and the
coordinator replaces members that are gone; a source is never obliged to live.
`WindowedCount`: time passes, the wait for an item times out, the merged input queue is
first come, first served, and the sink keeps reading.

## What the runs show

The properties of the passing runs hold for the instances above. Three promises of
the documents do not hold; each is a finding in `PROJECT.json` with the lines
concerned:

1. `leftover` (control/manager.py:172): a task whose deployment is answered after its
   job has failed is marked RUNNING and stays on its worker, its slot being free
   again; so does one whose deployment was carried out after its time limit.
2. `stopping` (runtime/task.py:436): a task that is stopped closes its own input
   connections, takes the resulting EOF for a failure and reports it; during a cancel
   such a report turns the job FAILED.
3. `late` (operators/window.py:161): a record stamped before the end of its window and
   taken after it gets a second row for the same window and word.

Further exposures that no document speaks about are listed as hazards with a
note: the unrepeated failure report, the worker that restarts faster than its
heartbeat timeout, the job manager that restarts with an empty registry, the handler
left waiting on the full queue of a stopped task, the idle source that does not
notice a lost connection, the stop that interrupts the cleanup of an ending task.

## Proofs

Each theorem is of its module's `Spec`, without fairness and for every value of the
constants its assumptions admit.

| Module | Theorem | Shows |
|---|---|---|
| `JobManagerProofs` | `TypeCorrect` | `[]TypeOK` |
| | `SlotBooksCorrect` | `[]SlotBooksAgree` |
| | `SettledJobsReleased` | `[]SettledJobsHoldNoSlots` |
| | `LeaseImplemented` | `JobManager` implements `SlotLease` |
| | `RunningJobsWhole` | `[]RunningJobsAreWhole`, if workers report failures only |
| | `DeploymentIsDownstreamFirst` | `[]DownstreamFirst`, under the same assumption |
| `JobStopProofs` | `StopsAreSingle` | `[]OneStopPerTask` |
| | `SettledJobsAreNotDeployed` | `NoDeployOnceSettled` |
| | `CancelledJobsStopped` | `[]CancelledJobsAreGone`, if workers report failures only |
| `JobPlanProofs` | `SlotsKeepTheBooks` | `[]SlotsMatchAssignments` |
| | `PlacementPromiseKept` | `KeepsPlacementPromise` |
| | `TargetsComeFirst` | `[]TargetsDeployedFirst` |
| | `RoutesMeetChannels` | `[]RoutesHaveChannels` |
| | `KeysHaveOneOwner` | `[]OneOwnerPerKey` |
| | `AnswersAreSound` | `AnsweredSoundly` |
| `WorkerTasksProofs` | `AcceptedBundlesAreGood` | `AcceptedBundlesDeploy` |
| | `DiskStaysWhole` | `[]DiskIsWhole` |
| | `OneRuntime` | `[]OneRuntimePerTask` |
| | `FailuresLeaveConsumerAtMost` | `[]FailedDeployLeavesConsumerAtMost` |
| | `StopsAreClean` | `[]StopMeansClean` |
| `SourceGroupProofs` | `CommitsAreSafe` | `[]CommittedWasAccepted` |
| | `ResendsBounded` | `[]ResendsOneAtMost` |
| `DataPlaneProofs` | `WiresImplemented` | the wire of every channel implements `FrameLink` |
| | `QueuesBounded` | `[]TypeOK`, capacities included |
| | `RecordsInOrder` | `OrderPerChannel` |
| | `EndsAreComplete` | `[]EndMeansComplete` |
| | `OnlyWholeCompletes` | `[]CompletesOnlyWhole` |
| | `ChannelsImplemented` | every channel of `DataPlane` implements `RecordChannel` |
| `FramingProofs` | `FramesAreWhole` | `[]FramesArriveWhole` |
| | `DecodersAreExact` | `[]DecoderIsExact` |
| | `FrameLinkImplemented` | `Framing` implements `FrameLink` |
| `WindowedCountProofs` | `ShapesKept` | `[]TypeOK`, capacities included |
| | `RecordsCountedOnce` | `[]CountedOnce` |

Assumptions are those the modules state for their constants. `JobManager`: the graph's
orders enumerate the tasks of each job once, a job has a task, slot counts are within
`MaxSlots`, the markers are no tasks, workers or jobs. `RunningJobsWhole`,
`DeploymentIsDownstreamFirst` and `CancelledJobsStopped` also assume
`OtherReports = {}`: the status endpoint accepts reports of other statuses, which may
declare a job RUNNING in the middle of its deployment or change a task that its worker
still runs, but `HttpJobManagerClient` sends FAILED only. The other theorems
hold for reports of every status. `jobs` adds RUNNING; a CANCELLED reported while a
cancel awaits the stop of that task would leave the job in CANCELLING, so that
`JobsSettle` speaks of workers that do not report it. `SlotScheduler` and `JobPlan`: worker
ids and keys are numbers, for their order and their hash, a worker has a slot, the
operators of a definition are a list, and the marker is no task. The graphs offered
are otherwise any: with cycles, edges into nowhere, repeated ids. There may be
infinitely many workers; that finitely many are healthy is part of the invariant. `WorkerTasks` and
`JobBundle`: a task has a job, the markers are no values. `SourceGroup`: logs are finite sequences, there are finitely many routes and
at least one, numbered in the order in which a record is put on them. `DataPlane`:
capacities are positive, and the receiving task is none of its sources. `Framing`: a byte
has at least two values, a body is a non-empty sequence of bytes whose length fits the
prefix (`encode_frame` refuses others), limits are positive; bodies may be infinitely many.
`WindowedCount`: keys and bounds are numbers, the window and the capacity positive;
inputs may be infinitely many.

### The job manager

Types first, split in the part a cleanup touches (`StopTyped`) and the
rest, so that one lemma about `StopTasks` serves every caller. For slots,
`SlotBooksAgree` is not inductive alone: releasing a job's slots needs the fact
that jobs which are unknown or settled hold none, so the invariant is
`SlotInv == SlotBooksAgree /\ NothingOutsideLease`. `NextSlots` reduces every step
to one of three effects on the slots (a job takes, a job releases, nothing), and
invariant and refinement are shown for these three. For deployments the invariant
is `DeployInv`: besides the two properties, coroutines that stop tasks do so for jobs
that have left DEPLOYING and RUNNING, a deploying coroutine and a worker know only
submitted jobs. Every cleanup moves its job out of what `DeployInv` claims about
before it touches a task (`CleansUp`), which is why claims survive any number of
them.

For stops the invariant is `StopInv`: a task that somebody stops is past, that is
CANCELLING, CANCELLED or FAILED, and nobody has coroutines of a job that was not
submitted. Every step lets at most one coroutine go on, and one that goes on to a
stop takes a task that was not past (`GoesOn`); a past task never comes back
(`NothingReturns`). A deployment in flight needs a slot of its job, and a settled
job has none: that is how `NoDeployOnceSettled` rests on `SettledJobsReleased`.

For cancels the invariant is `CancelInv`. While a job is CANCELLING nobody but
`cancel_job` stops its tasks: it goes from the task deployed last to the first, the
task at which it is may be in flight, those still to come are RUNNING, and of those
behind it any that may still run is in its list of errors (`CancelStops`). So an empty
list at the end means that no worker runs one. Every other cleanup first moves the job
to FAILING, and of such a job `CancelInv` claims nothing; `cancel_job` resumes, sees
it, and does not mark it CANCELLED. That a cancel starts with every task deployed is
`DeployInv` together with the count of deployed tasks.

### The job plan

`PlanInv` says that every definition that was not refused is one that was offered and
every accepted one passed the checks (`Offered`), that finitely many workers are
healthy, and that slots and assignments name each other (`Booked`). Booked is easy to
keep once the plan is known to give distinct free slots, and that is where the work is:
the *k*th slot a plan takes of a worker is its *k*th free slot, which a lemma on ranks
in sets of numbers states (`ReservedRank`, `SlotsReserved`); and there is always a worker
left to pick, by counting (`RoomLeft`, `CandidateLeft`), when the job fits at all. Exact
fractions are compared by products of integers; that this is an order with a least
worker is `BeforeOrders` and `LeastLoadedExists`. TLC checked `PlanInv` on the instance of
`plan` before it was proved.

`PlacementPromiseKept` is read off the picks (`PlanPicks`). A job that is not placed
was refused, and then no slot has changed its owner (`Unplaced`). For one that is
placed the theorem speaks of the slots before and after, its balance of loads when
everything is placed: a worker's load after the plan is its load before it and its
planned tasks (`UsedAfter`), and when the plan took the last task of *w*, the first two
apart, it preferred *w* to any *u* that has room even afterwards, and whose load has
only grown since (`LastOfWorker`, `BalanceKept`).

The graph's algorithms are recursive functions and folds, about which nothing can be
proved by a library theorem with an operator parameter; they are handled by least
counterexample (`LeastNumber`, `Iterated`, `Gathered`). A prefix that Kahn's algorithm
has sorted is always in order and duplicate-free (`SortSteps`); it stops early only with
a set of operators left of which each waits for another one, and a cycle cannot be sorted
(`AcyclicIsSorted`, `SortedIsAcyclic`). The keyed set that is gathered along the order
solves the equation of the stream graph (`KeyedMeans`) and is thus the complement of what
a source reaches without `key_by` (`UnkeyedIsReached`): soundness and completeness of the
answer. Deployment lays blocks of subtasks end to end (`JoinedPlaces`, `ExpandedPlaces`), so
that tasks follow the order of their operators (`TargetBeforeSource`). Behind a `key_by`
every edge is a hash edge, and hash edges into one operator send a key to one subtask
(`KeyHasOneOwner`).

### The worker

`DiskInv` adds to `DiskIsWhole` that a request which has arrived, and a directory on
the disk, are of a job whose bundle was accepted, and that every bundle the repository
took unpacks to what was published (`AcceptedUnpack`). `AcceptedBundlesDeploy` is about
the other end: a deployment fetches, extracts and loads what arrived, perhaps after a
crash, and fails at none of these steps by the files it found; it follows from both
parts. `RuntimeInv` says how the five owners of a runtime divide it: one handler works
at a time (`OneDeploys`); the task's entry is a runtime that is being started or was
(`EntrySound`); nobody waits for a cleanup of a runtime before its start has ended, but
the start itself (`StartSound`); an answered deployment has such an entry
(`AnswerSound`), and only a runtime in the entry holds anything a cleanup reaches
(`HoldsSound`, `InReach`). The last is the reason for all properties of resources; it
needs the others because each of `start`, `stop` and `_fail` may remove the entry.

### The source

`CommittedWasAccepted` speaks of committed offsets, `Commit` takes the positions. The
invariant `GroupInv` therefore says what has been read and is not committed: by the
member that has the partition, the one record in its hand and no other (`ReadSound`),
which is on the routes before the one it waits for (`HandSound`); and a record in any
queue has no older one that is not committed (`QueuedSound`), whoever put it there
before the partition changed hands. `ResendsOneAtMost` follows from the last part.

### The connections

`WireInv` ties a connection to its users: only a source that was not started has none,
and whoever reads or still holds items has had one. Every step does one of five things
to a connection, opens it, writes, takes, closes its writer or cuts it (`WireStep`),
and each of these is a step of `FrameLink`.

### The frames

The invariant `FrameInv` does not compute the bytes that were written; it says that there
is a sequence *B* in which the written frames lie one behind the other, each as its length
and its body (`Spells`), such that what the `StreamReader` holds, what is on
the wire and what the decoder has left are pieces of *B* at known positions
(`InPlace`, `Found`): the reader's behind the frames it has returned and the prefix it has
read, the decoder's behind its own frames, the wire's behind what has arrived. A size that
is read at such a position is the length of the next written body (`SizeThere`), hence the
bytes cut there are that body (`BodyThere`). A new frame extends *B* at its end
(`SpellsNext`); a cut shortens only the wire or, with the wire empty, the reader's piece;
and what is refused or malformed ends the handler and with it every claim about the reader.

For the loop of `feed_data` each round keeps `Finds`: with the frames returned before, those
found so far are the first *k* written ones, and the rest lies behind them in *B*
(`StepFinds`). That the loop has really ended after as many rounds as there are bytes
(`DrainedStopped`) follows because a round that changes the decoder shortens its rest
(`RoundsShrink`). `Total` and the count of whole frames are recursive over a sequence of any
length; facts about them are again proved by least counterexample (`SumsGrow`,
`LastExists`, `WholeCount`).

For the refinement, the frames of the link are those written ones that lie whole in the bytes
still under way (`UnderWayIs`). A cut, at whatever byte, cuts that sequence behind some whole
frame (`CutShorter`), a delivered piece leaves it alone, and a read body takes its first
(`CutTail`). With `WiresImplemented`, both the bytes of
`Framing` and the wires of `DataPlane` are thus shown to be links of whole frames.
TLC checked `FrameInv`, with the concatenated encodings for *B*, on the instance of `framing`.

### The data path

A record moves from a channel's queue into the batch of its sender, onto the wire, into
the handler's hand, into the input queue and to the operator; each of these places loses
what it holds in its own way when something breaks. `FlowInv` says that for every channel
there are numbers *a* <= *b* <= *c* of the last record that the handler has put into the
input queue, that it has read, and that the sender has taken (`Flow`, `Stages`). The queue
starts behind *c* (`QueueHolds`); the frames of the wire lead from *b* on without a gap, and
to *c* as long as the line is open (`FramesHold`); the hand leads from *a* to *b*; and the
input queue has, between the items of other channels, exactly the records after the
processed one up to *a*, in order (`InputHolds`). An END_OF_STREAM, wherever it is, has
everything sent before it and a source that closed normally (`EndSound`): that `close` puts
its CLOSE mark behind every record, except one that a stopped source may still put, is
`MarkQueued`, and that the mark ends the sender without loss is `sender = "done"`. When the
receiving task's loop has ended nothing is claimed about its input queue, which nobody
reads any more.

The numbers are hidden by quantifiers, so one lemma per place says how it behaves
(`TakesBatch`, `FramesAppended`, `FramesTaken`, `PutsRecord`, `RecordProcessed`, ...) and
one per step puts the stages together again (`InputFlow`, `NextFlow`). Steps of another
channel or of the environment leave the stages alone, except that a cut drops frames, which
only shortens the lead of the wire. How many records one batch takes is the least position of
a mark or the batch size; that this position exists is `LeastNatural`, from the library's
theorem that the naturals are well founded. `RecordsInOrder` is read off the steps
(no run checks it by itself: `ChannelsDeliver`, whose `taken` counts the same records, implies it),
`EndsAreComplete` off `EndSound` for closed inputs, and `OnlyWholeCompletes` adds `DownSound`:
a failure leaves the task FAILED until it is stopped.

`FlowInv` was checked with TLC before it was proved, on four instances with faults.

That a channel is a `RecordChannel` says more than the order of its records. What is put
and not processed is, while both ends are there, in one of four places, and `FlowInv` has the
number at which each begins: the queue holds at most as many as there are after *c*
(`QueueBound`), the wire at most a batch per frame (`FramesBound`), the hand one batch
(`CarriesBound`), and the input queue, where records of other channels stand between them, by
the pigeonhole principle no more than its length (`InputBound`). Added up, a send finds room
only if fewer than `Room` are under way (`RoomIsKept`). `PutsSound`, the one addition to the
invariant, says that a channel which is RUNNING belongs to a source that runs, and has not
closed its writer. A record taken was put, except for the put that a stop cancelled
(`NextWasPut`), an end comes from a channel that puts no more (`EndWasPut`), and any other
step of anybody at most breaks the channel or closes it (`OthersCloseOrBreak`).

### The reduce task

`CountInv` says that the rows, wherever they are, and the windows hold sets of records
that are apart, that together they are what was taken while the task runs, and that a
channel holds only records of its input that were sent, each of them once
(`ChannelSound`). A record at the head of a channel is therefore in no row and no window
(`TakenFirst`), and `process` may add it to one. `on_timer` moves windows that have ended
into rows: which rows, and in which order, is given by `Sorted`, some listing of the windows
in order of their start and key. That such a listing exists is `CanBeListed`, shown by
taking the least remaining one again and again, and needs that finitely many windows hold
anything, which is part of the invariant (`Typed`). Rows that are sent only move
(`RowsMoveOn`), and what a stop or failure drops leaves the rest apart (`ShorterIsPart`,
`AbortedIsPart`).

### Not proved

Only model-checked:

* The liveness properties `DeadWorkersFailJobs`, `JobsSettle`, `GoodRecordsAreSent`,
  `DeploysAnswered`, `BrokenInputSurfaces`, `CloseReturns`, `EverythingWritten` and
  `EofSurfaces`: fairness and ENABLED are out of the prover's reach.

Every other invariant and action property of the passing runs is a theorem.

## Not modelled

* Service wiring, environment variables and logging keep no state of the system.
* HTTP parsing, JSON of records, snapshots and metrics, the text of `job.yaml`, name
  patterns and connector options are formats.
* Rules for the member names of archives, and the contracts of UDFs (loading one may
  fail, and a runtime holds the module).
* The output of the command line and its polling for the end of a cancel; the
  benchmark script.
* `WorkerTaskManager.close` at the orderly end of a worker: what it stops is lost by
  a crash, which is modelled.
* Power loss and disk faults: crashes are those of a process.
* A `group_id` that two jobs share; by default each job and source has its own.
* A second connection for a channel that has an active one: no task opens one.
* A whole task with inputs and outputs in one module: its lifecycle is in
  `WorkerTasks`, its data path in `DataPlane`, `SourceGroup` and `WindowedCount`.

## Plan

Left to do: `DataPlane` with a task that has inputs and outputs, so that failure and end
travel two hops.
