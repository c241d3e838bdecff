----------------------------- MODULE DataPlane -----------------------------
(***************************************************************************)
(* Records on their way from source tasks, each over a BoundedDataChannel  *)
(* and a TCP connection, into the input queue of one downstream task.      *)
(*                                                                         *)
(* The coroutines: the run loop of a source (TaskRuntime._run), the sender *)
(* of its channel, the connection handler of the downstream DataPlane-     *)
(* Server, the run loop of the downstream task, and stop() of any task,    *)
(* called by its worker.  The tasks run on different workers, so steps of  *)
(* different coroutines interleave freely.  A record is its number in the  *)
(* order in which its source produced it; the downstream task is a sink.   *)
(***************************************************************************)
EXTENDS Integers, Sequences, FiniteSets

CONSTANTS
  Sources,       \* upstream tasks, one channel each
  MaxRecords,    \* bound on the records of one source
  QueueCapacity, \* channel_queue_capacity
  BatchSize,     \* channel_batch_size
  WireCapacity,  \* frames in flight at which drain() waits
  InputCapacity, \* input_queue_capacity
  Finite,        \* whether a source may be exhausted
  Faults         \* whether connections break, sources and operators fail, and
                 \* tasks are stopped in an order other than upstream first

ASSUME CapacityAssumption ==
  /\ MaxRecords \in Nat
  /\ {QueueCapacity, BatchSize, WireCapacity, InputCapacity} \subseteq Nat \ {0}
  /\ Finite \in BOOLEAN /\ Faults \in BOOLEAN

\* The name of the downstream task.
Down == "down"

ASSUME NameAssumption == Down \notin Sources

VARIABLES
  up,         \* TaskRuntime.state of a source
  channel,    \* BoundedDataChannel.state
  closing,    \* where channel.close() or abort() of a source waits
  stray,      \* a put that outlived the cancellation of the run loop
  sent,       \* records the channel accepted from the run loop
  queue,      \* BoundedDataChannel._queue
  sender,     \* the sender coroutine
  frames,     \* frames between writer and reader
  line,       \* the connection: none, open, fin (the writer closed it), cut
  handler,    \* the connection handler at the server
  hand,       \* items the handler has yet to put into the input queue
  down,       \* TaskRuntime.state of the downstream task
  registered, \* its input channels are registered at the server
  stopping,   \* where its stop() is
  loop,       \* its run loop
  failing,    \* calls of _fail that have not reported yet
  input,      \* its input queue
  closed,     \* _closed_inputs
  processed,  \* the last record of each source it processed
  reports     \* failure callbacks called, per task

sourceVars == <<up, channel, closing, stray, sent, queue, sender>>
wireVars == <<frames, line>>
serverVars == <<handler, hand>>
taskVars == <<down, registered, stopping, loop, failing, input, closed, processed>>
vars == <<sourceVars, wireVars, serverVars, taskVars, reports>>

\* Items beside the records, which are numbered from 1.
CloseMark == 0
EndMark == -1

\* A frame is the items it carries.
Hello == << >>
EndOfStream == <<EndMark>>
IsBatch(f) == f # Hello /\ f # EndOfStream

Init ==
  /\ up = [u \in Sources |-> "CREATED"]
  /\ channel = [u \in Sources |-> "NEW"]
  /\ closing = [u \in Sources |-> "no"]
  /\ stray = [u \in Sources |-> FALSE]
  /\ sent = [u \in Sources |-> 0]
  /\ queue = [u \in Sources |-> << >>]
  /\ sender = [u \in Sources |-> "none"]
  /\ frames = [u \in Sources |-> << >>]
  /\ line = [u \in Sources |-> "none"]
  /\ handler = [u \in Sources |-> "none"]
  /\ hand = [u \in Sources |-> << >>]
  /\ down = "RUNNING" /\ registered = TRUE
  /\ stopping = "no" /\ loop = "running" /\ failing = 0
  /\ input = << >> /\ closed = {}
  /\ processed = [u \in Sources |-> 0]
  /\ reports = [t \in Sources \cup {Down} |-> 0]

\* writer.close(): what was written is still delivered.
Finished(l) == IF l = "open" THEN "fin" ELSE l

-----------------------------------------------------------------------------
(* The source: start, run loop, stop *)

\* start: connect, HELLO, sender.  The downstream task was deployed before.
Start(u) ==
  /\ up[u] = "CREATED"
  /\ up' = [up EXCEPT ![u] = "RUNNING"]
  /\ channel' = [channel EXCEPT ![u] = "RUNNING"]
  /\ sender' = [sender EXCEPT ![u] = "running"]
  /\ frames' = [frames EXCEPT ![u] = <<Hello>>]
  /\ line' = [line EXCEPT ![u] = "open"]
  /\ handler' = [handler EXCEPT ![u] = "hello"]
  /\ UNCHANGED <<closing, stray, sent, queue, hand, taskVars, reports>>

Emitting(u) == up[u] = "RUNNING" /\ closing[u] = "no"

\* The run loop sends a record; while the queue is full it waits.
Send(u) ==
  /\ Emitting(u) /\ channel[u] = "RUNNING"
  /\ sent[u] < MaxRecords /\ Len(queue[u]) < QueueCapacity
  /\ queue' = [queue EXCEPT ![u] = Append(@, sent[u] + 1)]
  /\ sent' = [sent EXCEPT ![u] = @ + 1]
  /\ UNCHANGED <<up, channel, closing, stray, sender, wireVars, serverVars, taskVars,
                 reports>>

\* _cleanup(graceful) calls close(); a failed channel only closes its writer, and
\* its error is suppressed.
BeginsClose(u, during) ==
  \/ /\ channel[u] = "RUNNING"
     /\ up' = [up EXCEPT ![u] = during]
     /\ channel' = [channel EXCEPT ![u] = "CLOSING"]
     /\ closing' = [closing EXCEPT ![u] = "put"]
     /\ UNCHANGED line
  \/ /\ channel[u] = "FAILED"
     /\ up' = [up EXCEPT ![u] = "STOPPED"]
     /\ line' = [line EXCEPT ![u] = Finished(@)]
     /\ UNCHANGED <<channel, closing>>

\* The source is exhausted.
SourceEnds(u) ==
  /\ Finite /\ Emitting(u) /\ BeginsClose(u, "RUNNING")
  /\ UNCHANGED <<stray, sent, queue, sender, frames, serverVars, taskVars, reports>>

\* stop cancels the run loop, perhaps in a put, which lives on.
StopSource(u) ==
  /\ Emitting(u) /\ BeginsClose(u, "STOPPING")
  /\ \E b \in BOOLEAN :
       /\ b => /\ channel[u] = "RUNNING" /\ sent[u] < MaxRecords
               /\ Len(queue[u]) = QueueCapacity
       /\ stray' = [stray EXCEPT ![u] = b]
  /\ UNCHANGED <<sent, queue, sender, frames, serverVars, taskVars, reports>>

\* An exception in the run loop, its own or of a send into a failed channel: _fail
\* aborts the channel.
SourceFails(u) ==
  /\ Emitting(u)
  /\ Faults \/ channel[u] = "FAILED"
  /\ up' = [up EXCEPT ![u] = "FAILED"]
  /\ channel' = [channel EXCEPT ![u] = "CLOSED"]
  /\ closing' = [closing EXCEPT ![u] = "abort"]
  /\ sender' = [sender EXCEPT ![u] = IF @ = "running" THEN "cancelled" ELSE @]
  /\ line' = [line EXCEPT ![u] = Finished(@)]
  /\ UNCHANGED <<stray, sent, queue, frames, serverVars, taskVars, reports>>

\* Mutant: write_frame does not wait for drain().
DrainSkipped(u) == TRUE

Drained(u) == line[u] \in {"open", "fin"} => Len(frames[u]) < WireCapacity

\* The writer is closed and flushed; then _fail reports.
AbortEnds(u) ==
  /\ closing[u] = "abort" /\ Drained(u)
  /\ closing' = [closing EXCEPT ![u] = "no"]
  /\ reports' = [reports EXCEPT ![u] = @ + 1]
  /\ UNCHANGED <<up, channel, stray, sent, queue, sender, wireVars, serverVars, taskVars>>

\* stop while the run loop is closing its channel: close() turns the cancellation
\* into ChannelError, which _cleanup suppresses.  What a sender still writes after
\* writer.close() is dropped, or sent as if the stop had come later.
StopInterruptsClose(u) ==
  /\ up[u] = "RUNNING" /\ closing[u] \in {"put", "join", "eos", "drain"}
  /\ up' = [up EXCEPT ![u] = "STOPPED"]
  /\ channel' = [channel EXCEPT ![u] = "FAILED"]
  /\ closing' = [closing EXCEPT ![u] = "no"]
  /\ sender' = [sender EXCEPT ![u] = IF @ = "running" THEN "cancelled" ELSE @]
  /\ line' = [line EXCEPT ![u] = Finished(@)]
  /\ UNCHANGED <<stray, sent, queue, frames, serverVars, taskVars, reports>>

-----------------------------------------------------------------------------
(* The channel: sender and close *)

\* How many records the sender takes from a queue: those before a CLOSE.
BatchLength(q) ==
  CHOOSE n \in 0..BatchSize :
    /\ n <= Len(q) /\ \A i \in 1..n : q[i] # CloseMark
    /\ n = BatchSize \/ n = Len(q) \/ q[n + 1] = CloseMark

\* A write to a connection that is gone may be dropped silently.
Write(u, f) ==
  frames' = [frames EXCEPT ![u] = IF line[u] = "open" THEN Append(@, f) ELSE @]

\* The sender takes a batch, and with one that is not full the CLOSE behind it.
SenderWrites(u) ==
  LET q == queue[u]
      n == BatchLength(q)
      ends == n < BatchSize /\ n < Len(q)
  IN
  /\ sender[u] = "running" /\ q # << >> /\ Drained(u)
  /\ queue' = [queue EXCEPT ![u] = SubSeq(q, IF ends THEN n + 2 ELSE n + 1, Len(q))]
  /\ sender' = [sender EXCEPT ![u] = IF ends THEN "done" ELSE @]
  /\ IF n > 0 THEN Write(u, SubSeq(q, 1, n)) ELSE UNCHANGED frames
  /\ UNCHANGED <<up, channel, closing, stray, sent, line, serverVars, taskVars, reports>>

\* write or drain raises on a connection that is gone; a drain with nothing behind it in
\* the queue, when the next item comes.
SenderFails(u) ==
  /\ sender[u] = "running" /\ queue[u] # << >> /\ line[u] = "cut"
  /\ sender' = [sender EXCEPT ![u] = "failed"]
  /\ channel' = [channel EXCEPT ![u] = "FAILED"]
  /\ UNCHANGED <<up, closing, stray, sent, queue, wireVars, serverVars, taskVars, reports>>

\* The put that outlived its run loop: the record may precede or follow the CLOSE.
StrayPut(u) ==
  /\ stray[u] /\ Len(queue[u]) < QueueCapacity
  /\ queue' = [queue EXCEPT ![u] = Append(@, sent[u] + 1)]
  /\ stray' = [stray EXCEPT ![u] = FALSE]
  /\ UNCHANGED <<up, channel, closing, sent, sender, wireVars, serverVars, taskVars,
                 reports>>

ClosePuts(u) ==
  /\ closing[u] = "put" /\ sender[u] = "running" /\ Len(queue[u]) < QueueCapacity
  /\ queue' = [queue EXCEPT ![u] = Append(@, CloseMark)]
  /\ closing' = [closing EXCEPT ![u] = "join"]
  /\ UNCHANGED <<up, channel, stray, sent, sender, wireVars, serverVars, taskVars, reports>>

\* Mutant: close does not wait for the sender.
CloseSkipsJoin(u) ==
  /\ closing[u] = "join"
  /\ closing' = [closing EXCEPT ![u] = "eos"]
  /\ UNCHANGED <<up, channel, stray, sent, queue, sender, wireVars, serverVars, taskVars,
                 reports>>

CloseJoins(u) ==
  /\ closing[u] = "join" /\ sender[u] = "done"
  /\ closing' = [closing EXCEPT ![u] = "eos"]
  /\ UNCHANGED <<up, channel, stray, sent, queue, sender, wireVars, serverVars, taskVars,
                 reports>>

CloseWrites(u) ==
  /\ closing[u] = "eos" /\ Drained(u)
  /\ Write(u, EndOfStream)
  /\ closing' = [closing EXCEPT ![u] = "drain"]
  /\ UNCHANGED <<up, channel, stray, sent, queue, sender, line, serverVars, taskVars,
                 reports>>

\* close() is over; then the run loop or stop() of the task ends as well.
ClosedAs(u, state) ==
  /\ channel' = [channel EXCEPT ![u] = state]
  /\ closing' = [closing EXCEPT ![u] = "no"]
  /\ up' = [up EXCEPT ![u] = "STOPPED"]
  /\ line' = [line EXCEPT ![u] = Finished(@)]
  /\ UNCHANGED <<stray, sent, queue, sender, frames, serverVars, taskVars, reports>>

\* Mutant: while the queue is full, close waits for room only.
CloseWaitsForRoom(u) ==
  /\ \/ closing[u] = "join" /\ sender[u] = "failed"
     \/ closing[u] \in {"eos", "drain"} /\ line[u] = "cut"
  /\ ClosedAs(u, "FAILED")

\* A failed sender or write fails close(), and _cleanup suppresses the error.
CloseFails(u) ==
  /\ \/ closing[u] \in {"put", "join"} /\ sender[u] = "failed"
     \/ closing[u] \in {"eos", "drain"} /\ line[u] = "cut"
  /\ ClosedAs(u, "FAILED")

CloseEnds(u) ==
  /\ closing[u] = "drain" /\ Drained(u)
  /\ ClosedAs(u, "CLOSED")

-----------------------------------------------------------------------------
(* The connections and their handlers *)

Prefixes(s) == {SubSeq(s, 1, k) : k \in 0..Len(s)}

\* The connection breaks; what was under way may be lost from some point on.
Breaks(u) ==
  /\ Faults /\ line[u] \in {"open", "fin"}
  /\ line' = [line EXCEPT ![u] = "cut"]
  /\ \E s \in Prefixes(frames[u]) : frames' = [frames EXCEPT ![u] = s]
  /\ UNCHANGED <<sourceVars, serverVars, taskVars, reports>>

\* read_frame raises: the connection has ended and no whole frame is left.
InputGone(u) == frames[u] = << >> /\ line[u] \in {"fin", "cut"}

\* Mutant: a refused connection is read no more, but not closed.
HandshakesUnclosed(u) ==
  /\ handler[u] = "hello"
  /\ \/ /\ frames[u] # << >> /\ registered
        /\ frames' = [frames EXCEPT ![u] = Tail(@)]
        /\ handler' = [handler EXCEPT ![u] = "reading"]
     \/ /\ ~registered
        /\ frames' = [frames EXCEPT ![u] = << >>]
        /\ handler' = [handler EXCEPT ![u] = "ended"]
  /\ UNCHANGED <<sourceVars, line, hand, taskVars, reports>>

\* HELLO: the connection is accepted while the target is registered.
Handshakes(u) ==
  /\ handler[u] = "hello"
  /\ \/ /\ frames[u] # << >> /\ registered
        /\ frames' = [frames EXCEPT ![u] = Tail(@)]
        /\ handler' = [handler EXCEPT ![u] = "reading"]
        /\ UNCHANGED line
     \/ /\ \/ frames[u] # << >> /\ ~registered
           \/ InputGone(u)
        /\ frames' = [frames EXCEPT ![u] = << >>]
        /\ handler' = [handler EXCEPT ![u] = "ended"]
        /\ line' = [line EXCEPT ![u] = "cut"]
  /\ UNCHANGED <<sourceVars, hand, taskVars, reports>>

Reads(u) == handler[u] = "reading" /\ hand[u] = << >>

\* accept_records and input_closed: items for the input queue.
HandlerReads(u) ==
  /\ Reads(u) /\ frames[u] # << >>
  /\ LET f == Head(frames[u]) IN
       /\ IsBatch(f) => down = "RUNNING"
       /\ hand' = [hand EXCEPT ![u] = f]
  /\ frames' = [frames EXCEPT ![u] = Tail(@)]
  /\ UNCHANGED <<sourceVars, line, handler, taskVars, reports>>

\* Mutant: the input queue takes any number of items.
HandlerPutsAtOnce(u) ==
  /\ hand[u] # << >>
  /\ input' = Append(input, <<u, Head(hand[u])>>)
  /\ hand' = [hand EXCEPT ![u] = Tail(@)]
  /\ UNCHANGED <<sourceVars, wireVars, handler, down, registered, stopping, loop, failing,
                 closed, processed, reports>>

\* One item into the input queue; while it is full the handler waits.  After the end
\* of the stream the handler closes the connection.
HandlerPuts(u) ==
  /\ hand[u] # << >> /\ Len(input) < InputCapacity
  /\ input' = Append(input, <<u, Head(hand[u])>>)
  /\ hand' = [hand EXCEPT ![u] = Tail(@)]
  /\ IF Head(hand[u]) = EndMark
     THEN /\ handler' = [handler EXCEPT ![u] = "ended"]
          /\ line' = [line EXCEPT ![u] = "cut"]
     ELSE UNCHANGED <<handler, line>>
  /\ UNCHANGED <<sourceVars, frames, down, registered, stopping, loop, failing, closed,
                 processed, reports>>

Reading == {u \in Sources : handler[u] = "reading"}

\* unregister: the accepted connections are closed; their readers may still hold some
\* of the frames that were under way.
Unregisters ==
  /\ registered' = FALSE
  /\ IF registered
     THEN /\ line' = [u \in Sources |-> IF u \in Reading THEN "cut" ELSE line[u]]
          /\ \E kept \in [Reading -> 0..(WireCapacity + 1)] :
               frames' = [u \in Sources |->
                 IF u \in Reading /\ kept[u] < Len(frames[u])
                 THEN SubSeq(frames[u], 1, kept[u]) ELSE frames[u]]
     ELSE UNCHANGED wireVars

\* _fail of the downstream task, up to its report: a task that stops, or has stopped,
\* fails too.
Fails ==
  /\ down' = "FAILED"
  /\ failing' = failing + 1
  /\ Unregisters

\* Mutant: an EOF ends the handler as END_OF_STREAM does.
EofEndsQuietly(u) ==
  /\ Reads(u) /\ InputGone(u)
  /\ handler' = [handler EXCEPT ![u] = "ended"]
  /\ UNCHANGED <<sourceVars, wireVars, hand, taskVars, reports>>

\* read_frame or accept_records raises: input_failed.
HandlerErrors(u) ==
  /\ Reads(u)
  /\ \/ InputGone(u)
     \/ frames[u] # << >> /\ IsBatch(Head(frames[u])) /\ down # "RUNNING"
  /\ handler' = [handler EXCEPT ![u] = "ended"]
  /\ IF down = "FAILED"
     THEN /\ line' = [line EXCEPT ![u] = "cut"]
          /\ UNCHANGED <<frames, down, failing, registered>>
     ELSE Fails
  /\ UNCHANGED <<sourceVars, hand, stopping, loop, input, closed, processed, reports>>

-----------------------------------------------------------------------------
(* The downstream task: run loop, failure, stop *)

Processes ==
  /\ loop = "running" /\ input # << >>
  /\ LET u == Head(input)[1]
         item == Head(input)[2]
     IN IF item = EndMark
        THEN closed' = closed \cup {u} /\ UNCHANGED processed
        ELSE processed' = [processed EXCEPT ![u] = item] /\ UNCHANGED closed
  /\ input' = Tail(input)
  /\ UNCHANGED <<sourceVars, wireVars, serverVars, down, registered, stopping, loop,
                 failing, reports>>

\* Mutant: the first input that ends ends the task.
FinishesEarly ==
  /\ loop = "running" /\ closed # {}
  /\ loop' = "ended"
  /\ down' = IF down = "RUNNING" THEN "STOPPED" ELSE down
  /\ Unregisters
  /\ UNCHANGED <<sourceVars, serverVars, stopping, failing, input, closed, processed,
                 reports>>

\* All inputs have ended.
Finishes ==
  /\ loop = "running" /\ closed = Sources
  /\ loop' = "ended"
  /\ down' = IF down = "RUNNING" THEN "STOPPED" ELSE down
  /\ Unregisters
  /\ UNCHANGED <<sourceVars, serverVars, stopping, failing, input, closed, processed,
                 reports>>

\* The operator raises.
OperatorFails ==
  /\ Faults /\ loop = "running" /\ input # << >> /\ Head(input)[2] # EndMark
  /\ loop' = "ended"
  /\ input' = Tail(input)
  /\ IF down = "FAILED"
     THEN UNCHANGED <<wireVars, down, registered, failing>>
     ELSE Fails
  /\ UNCHANGED <<sourceVars, serverVars, stopping, closed, processed, reports>>

\* The failure callback, and the end of the run loop if it did not fail itself.
FailureReported ==
  /\ failing > 0
  /\ failing' = failing - 1
  /\ reports' = [reports EXCEPT ![Down] = @ + 1]
  /\ loop' = "ended"
  /\ UNCHANGED <<sourceVars, wireVars, serverVars, down, registered, stopping, input,
                 closed, processed>>

\* stop: the job manager stops upstream tasks first, and goes on after a timeout.
StopDown ==
  /\ down = "RUNNING" /\ stopping = "no"
  /\ Faults \/ \A u \in Sources : up[u] \in {"STOPPED", "FAILED"}
  /\ down' = "STOPPING"
  /\ loop' = "ended"
  /\ stopping' = "cleanup"
  /\ UNCHANGED <<sourceVars, wireVars, serverVars, registered, failing, input, closed,
                 processed, reports>>

StopCleans ==
  /\ stopping = "cleanup"
  /\ stopping' = "clean"
  /\ Unregisters
  /\ UNCHANGED <<sourceVars, serverVars, down, loop, failing, input, closed, processed,
                 reports>>

\* The state becomes STOPPED whatever it was.
StopEnds ==
  /\ stopping = "clean"
  /\ stopping' = "done"
  /\ down' = "STOPPED"
  /\ UNCHANGED <<sourceVars, wireVars, serverVars, registered, loop, failing, input,
                 closed, processed, reports>>

-----------------------------------------------------------------------------
SourceStep(u) ==
  \/ Start(u) \/ Send(u) \/ SourceEnds(u) \/ StopSource(u) \/ SourceFails(u)
  \/ AbortEnds(u) \/ StopInterruptsClose(u)

ChannelStep(u) ==
  \/ SenderWrites(u) \/ SenderFails(u) \/ StrayPut(u) \/ ClosePuts(u) \/ CloseJoins(u)
  \/ CloseWrites(u) \/ CloseFails(u) \/ CloseEnds(u)

HandlerStep(u) == Handshakes(u) \/ HandlerReads(u) \/ HandlerPuts(u) \/ HandlerErrors(u)

TaskStep == Processes \/ Finishes \/ FailureReported \/ StopCleans \/ StopEnds

Next ==
  \/ \E u \in Sources : SourceStep(u) \/ ChannelStep(u) \/ Breaks(u) \/ HandlerStep(u)
  \/ TaskStep \/ OperatorFails \/ StopDown

\* A coroutine that can go on does; sources, failures and stops may never come.
Fairness ==
  /\ \A u \in Sources : /\ WF_vars(ChannelStep(u)) /\ WF_vars(HandlerStep(u))
                        /\ WF_vars(AbortEnds(u))
  /\ WF_vars(TaskStep)

Spec == Init /\ [][Next]_vars
FairSpec == Spec /\ Fairness

-----------------------------------------------------------------------------
(* Properties *)

TaskStates == {"RUNNING", "STOPPING", "STOPPED", "FAILED"}
Items == {EndMark, CloseMark} \cup 1..(MaxRecords + 1)
ItemSeqs(n) == UNION {[1..k -> Items] : k \in 0..n}

\* Every variable keeps its shape, and the bounded queues their capacities: a slow
\* reader makes its writers wait (asyncio.Queue(maxsize), StreamWriter.drain).
TypeOK ==
  /\ up \in [Sources -> TaskStates \cup {"CREATED"}]
  /\ channel \in [Sources -> {"NEW", "RUNNING", "CLOSING", "CLOSED", "FAILED"}]
  /\ closing \in [Sources -> {"no", "put", "join", "eos", "drain", "abort"}]
  /\ stray \in [Sources -> BOOLEAN] /\ sent \in [Sources -> 0..MaxRecords]
  /\ sender \in [Sources -> {"none", "running", "done", "failed", "cancelled"}]
  /\ line \in [Sources -> {"none", "open", "fin", "cut"}]
  /\ handler \in [Sources -> {"none", "hello", "reading", "ended"}]
  /\ \A u \in Sources : /\ queue[u] \in ItemSeqs(QueueCapacity)
                        /\ hand[u] \in ItemSeqs(BatchSize)
                        /\ Len(frames[u]) <= WireCapacity
  /\ down \in TaskStates /\ registered \in BOOLEAN
  /\ stopping \in {"no", "cleanup", "clean", "done"} /\ loop \in {"running", "ended"}
  /\ failing \in Nat /\ Len(input) <= InputCapacity
  /\ closed \subseteq Sources
  /\ processed \in [Sources -> 0..(MaxRecords + 1)]
  /\ reports \in [Sources \cup {Down} -> Nat]

\* The records of one channel are processed in the order sent, none skipped and none
\* twice, whatever breaks (send_many, accept_records, _run_operator).
OrderPerChannel ==
  [][\A u \in Sources : processed'[u] \in {processed[u], processed[u] + 1}]_processed

\* An input counts as ended only when every record its channel accepted has been
\* processed: a gap in the data is never taken for the normal end (close drains the
\* queue before END_OF_STREAM; an EOF without it is an error), nor the failure of the
\* source task (abort sends no END_OF_STREAM).
EndMeansComplete ==
  \A u \in closed : processed[u] >= sent[u] /\ up[u] # "FAILED"

\* A task that completes by itself has processed all its sources sent, none of them
\* failed, and it has not failed either (_run reaches STOPPED only after every input
\* ended).
CompletesOnlyWhole ==
  down = "STOPPED" /\ stopping = "no" =>
    /\ reports[Down] = 0
    /\ \A u \in Sources : up[u] # "FAILED" /\ processed[u] >= sent[u]

\* A connection that is gone while its input has not ended stops the running task:
\* it never waits for the rest forever (input_failed).
BrokenInputSurfaces ==
  \A u \in Sources : (handler[u] = "reading" /\ line[u] # "open")
                       ~> (down # "RUNNING" \/ u \in closed)

\* close() and abort() of a channel return, though the queue is full and the reader is
\* slow or gone (_guarded_put waits for the sender as well), and a failure is reported.
CloseReturns == \A u \in Sources : closing[u] # "no" ~> closing[u] = "no"

Wire(u) == INSTANCE FrameLink WITH frames <- frames[u], line <- line[u]

\* The wire of a channel behaves as the connections that protocol.py makes of a byte
\* stream (Framing!ImplementsFrameLink), whoever closes or reads it: frames are lost only
\* from the end, and only of a connection that ends.
WiresAreFrameLinks ==
  /\ \A u \in Sources : Wire(u)!Init
  /\ [][\A u \in Sources : Wire(u)!Next \/ UNCHANGED <<frames[u], line[u]>>]_wireVars

\* The records that fit between a source and the operator: in the channel's queue, on the
\* wire, with the handler, and in the input queue.
Room == QueueCapacity + WireCapacity * BatchSize + BatchSize + InputCapacity

ChannelState(u) ==
  IF u \in closed THEN "ended"
  ELSE IF channel[u] \notin {"NEW", "RUNNING"} THEN "closed"
  ELSE IF line[u] = "cut" \/ loop = "ended" THEN "broken"
  ELSE "open"

Channel(u) == INSTANCE RecordChannel WITH
  Capacity <- Room, put <- sent[u], taken <- processed[u], state <- ChannelState(u)

\* From the send of a source to the operator of the next task, a channel is a bounded FIFO
\* queue with an end: a task that is slow holds its sources back (each stage waits for the
\* next, down to writer.drain()), so that what is under way never grows with the input; and
\* its end is seen once, behind all records, or never.
ChannelsDeliver ==
  /\ \A u \in Sources : Channel(u)!Init
  /\ [][\A u \in Sources :
          Channel(u)!Next \/ UNCHANGED <<sent[u], processed[u], ChannelState(u)>>
       ]_<<sent, channel, line, loop, closed, processed>>

\* Stopping tasks, none of which failed, upstream tasks first, makes none of them
\* report a failure.
StoppingIsNotFailing == \A t \in Sources \cup {Down} : reports[t] = 0
=============================================================================
