--------------------------- MODULE WindowedCount ---------------------------
(***************************************************************************)
(* A reduce task over tumbling windows of processing time, between the     *)
(* upstream tasks that feed it and the file sink behind it.                *)
(*                                                                         *)
(* A record gets its processing time from the clock of the source that     *)
(* decodes it, and its window is the one that time lies in; a window is    *)
(* emitted when the clock of the reduce task has reached its end.  What    *)
(* the channels do is the subject of DataPlane: here each is a bounded     *)
(* FIFO queue.  A record is <<input, number>>, and the accumulator of a    *)
(* window and key is the set of records reduced into it.                   *)
(***************************************************************************)
EXTENDS Integers, Sequences, SequencesExt

CONSTANTS
  Inputs,        \* upstream tasks
  Keys,          \* keys, numbered in the order of their canonical JSON
  Size,          \* length of a window
  MaxRecords,    \* bound on the records of one input
  MaxTime,       \* bound on the clock; no window ends later
  MaxSkew,       \* how far the clock of a source may be ahead or behind
  QueueCapacity, \* room in each channel
  Stops          \* whether inputs end, and the task may be stopped or fail

ASSUME TimeAssumption ==
  /\ Keys \subseteq Nat /\ {MaxRecords, MaxTime, MaxSkew} \subseteq Nat
  /\ {Size, QueueCapacity} \subseteq Nat \ {0} /\ Stops \in BOOLEAN

VARIABLES
  clock,   \* the clock of the reduce task
  sent,    \* records sent by each input
  channel, \* what each input has sent and the task has not taken
  closed,  \* _closed_inputs
  windows, \* ReduceWindowOperator._windows: accumulator per <<start, key>>
  state,   \* running, finishing (all inputs ended), stopped, failed
  out,     \* rows that on_timer returned and _emit_many has yet to send
  toSink,  \* rows on their way to the sink
  rows     \* rows in the file

inputVars == <<sent, channel>>
taskVars == <<closed, windows, state, out>>
sinkVars == <<toSink, rows>>
vars == <<clock, inputVars, taskVars, sinkVars>>

Ids == Inputs \X (1..MaxRecords)
Windows == {w \in 0..MaxTime : w % Size = 0 /\ w + Size <= MaxTime}
States == Windows \X Keys
End == [id |-> << >>]

\* The start of the window a time lies in; windows are aligned to the epoch.
Assign(time) == (time \div Size) * Size

Init ==
  /\ clock = 0
  /\ sent = [u \in Inputs |-> 0]
  /\ channel = [u \in Inputs |-> << >>]
  /\ closed = {} /\ windows = [s \in States |-> {}] /\ state = "running"
  /\ out = << >> /\ toSink = << >> /\ rows = << >>

-----------------------------------------------------------------------------
(* Time and the inputs *)

Tick ==
  /\ clock < MaxTime
  /\ clock' = clock + 1
  /\ UNCHANGED <<inputVars, taskVars, sinkVars>>

Ended(u) == channel[u] # << >> /\ Last(channel[u]) = End

\* A source stamps a record, which reaches the channel of input u.
Sends(u) ==
  /\ u \notin closed /\ ~Ended(u)
  /\ sent[u] < MaxRecords /\ Len(channel[u]) < QueueCapacity
  /\ \E time \in (clock - MaxSkew)..(clock + MaxSkew), k \in Keys :
       /\ <<Assign(time), k>> \in States
       /\ channel' = [channel EXCEPT ![u] =
            Append(@, [id |-> <<u, sent[u] + 1>>, time |-> time, key |-> k])]
  /\ sent' = [sent EXCEPT ![u] = @ + 1]
  /\ UNCHANGED <<clock, taskVars, sinkVars>>

Ends(u) ==
  /\ Stops /\ u \notin closed /\ ~Ended(u) /\ Len(channel[u]) < QueueCapacity
  /\ channel' = [channel EXCEPT ![u] = Append(@, End)]
  /\ UNCHANGED <<clock, sent, taskVars, sinkVars>>

-----------------------------------------------------------------------------
(* The operator *)

Due(win) == {s \in States : win[s] # {} /\ s[1] + Size <= clock}

\* Mutant: the windows to delete are found by reading the clock once more.
ClearedAnew(win, due) ==
  [s \in States |-> IF s[1] + Size <= clock + 1 THEN {} ELSE win[s]]

Cleared(win, due) == [s \in States |-> IF s \in due THEN {} ELSE win[s]]

Earlier(s, t) == s[1] < t[1] \/ (s[1] = t[1] /\ s[2] < t[2])

Sorted(due) ==
  CHOOSE q \in [1..Cardinality(due) -> due] : \A i, j \in DOMAIN q : i < j => Earlier(q[i], q[j])

Rows(win, due) ==
  LET order == Sorted(due)
  IN [i \in DOMAIN order |->
        [window |-> order[i][1], key |-> order[i][2], records |-> win[order[i]]]]

\* on_timer: rows for the windows that have ended, whose state is deleted.
OnTimer(win) ==
  /\ out' = Rows(win, Due(win))
  /\ windows' = Cleared(win, Due(win))

-----------------------------------------------------------------------------
(* The run loop of the reduce task *)

\* The loop waits for its next item; all rows have been sent.
Waiting == state = "running" /\ out = << >>

\* process, then trigger_timers.
Processes(u) ==
  /\ Waiting /\ channel[u] # << >> /\ Head(channel[u]) # End
  /\ LET r == Head(channel[u])
         s == <<Assign(r.time), r.key>>
     IN OnTimer([windows EXCEPT ![s] = @ \cup {r.id}])
  /\ channel' = [channel EXCEPT ![u] = Tail(@)]
  /\ UNCHANGED <<clock, sent, closed, state, sinkVars>>

\* The end of an input; after the last the timers are triggered once more.
TakesEnd(u) ==
  /\ Waiting /\ channel[u] # << >> /\ Head(channel[u]) = End
  /\ channel' = [channel EXCEPT ![u] = Tail(@)]
  /\ closed' = closed \cup {u}
  /\ IF closed' = Inputs
     THEN OnTimer(windows) /\ state' = "finishing"
     ELSE UNCHANGED <<windows, out, state>>
  /\ UNCHANGED <<clock, sent, sinkVars>>

\* Mutant: timers are triggered after an item only.
TimerNeverFires == FALSE /\ UNCHANGED vars

\* No item came for the timer interval.
TimerFires ==
  /\ Waiting /\ OnTimer(windows)
  /\ UNCHANGED <<clock, inputVars, closed, state, sinkVars>>

\* Mutant: rows are sent without waiting for room.
EmitsAtOnce ==
  /\ out # << >>
  /\ toSink' = Append(toSink, Head(out))
  /\ out' = Tail(out)
  /\ UNCHANGED <<clock, inputVars, closed, windows, state, rows>>

\* _emit_many sends the next row; while the channel is full it waits.
Emits ==
  /\ out # << >> /\ Len(toSink) < QueueCapacity
  /\ toSink' = Append(toSink, Head(out))
  /\ out' = Tail(out)
  /\ UNCHANGED <<clock, inputVars, closed, windows, state, rows>>

\* close of the operator drops the windows that have not ended.
Leaves(as) ==
  /\ state' = as
  /\ windows' = [s \in States |-> {}]
  /\ UNCHANGED <<clock, inputVars, closed, rows>>

Finishes == state = "finishing" /\ out = << >> /\ Leaves("stopped") /\ UNCHANGED <<out, toSink>>

\* stop cancels the loop: rows not yet sent are lost, but a put that waits for room
\* may outlive the loop.
StopTask ==
  /\ Stops /\ state \in {"running", "finishing"}
  /\ out' \in {<< >>} \cup (IF Len(toSink) = QueueCapacity /\ out # << >>
                            THEN {<<Head(out)>>} ELSE {})
  /\ Leaves("stopped") /\ UNCHANGED toSink

\* The reduce function raises, or an input breaks: the channel to the sink is aborted
\* with what it had not written.
TaskFails ==
  /\ Stops /\ state \in {"running", "finishing"}
  /\ out' = << >>
  /\ \E n \in 0..Len(toSink) : toSink' = SubSeq(toSink, 1, n)
  /\ Leaves("failed")

\* The sink appends a row to its file and flushes it.
SinkWrites ==
  /\ toSink # << >>
  /\ rows' = Append(rows, Head(toSink))
  /\ toSink' = Tail(toSink)
  /\ UNCHANGED <<clock, inputVars, taskVars>>

-----------------------------------------------------------------------------
Takes(u) == Processes(u) \/ TakesEnd(u)

Next ==
  \/ Tick
  \/ \E u \in Inputs : Sends(u) \/ Ends(u) \/ Takes(u)
  \/ TimerFires \/ Emits \/ Finishes \/ StopTask \/ TaskFails \/ SinkWrites

\* Time passes; the input queue is first come, first served; a wait for an item times
\* out; the sink keeps reading.
Fairness ==
  /\ WF_vars(Tick) /\ WF_vars(TimerFires) /\ WF_vars(Emits) /\ WF_vars(SinkWrites)
  /\ \A u \in Inputs : WF_vars(Takes(u))

Spec == Init /\ [][Next]_vars
FairSpec == Spec /\ Fairness

-----------------------------------------------------------------------------
(* Properties *)

RowType == [window : Windows, key : Keys, records : SUBSET Ids]
IsRows(q) == \A i \in DOMAIN q : q[i] \in RowType

\* Every variable keeps its shape, and the channels their capacity: a slow sink makes
\* the reduce task wait (send waits for room in the queue).
TypeOK ==
  /\ clock \in 0..MaxTime
  /\ sent \in [Inputs -> 0..MaxRecords]
  /\ \A u \in Inputs : Len(channel[u]) <= QueueCapacity
  /\ closed \subseteq Inputs
  /\ windows \in [States -> SUBSET Ids]
  /\ state \in {"running", "finishing", "stopped", "failed"}
  /\ IsRows(out) /\ IsRows(toSink) /\ IsRows(rows)
  /\ Len(toSink) <= QueueCapacity

AllRows == rows \o toSink \o out
Counted == UNION {AllRows[i].records : i \in DOMAIN AllRows}
Held == UNION {windows[s] : s \in States}
Taken(id) ==
  /\ id[2] <= sent[id[1]]
  /\ \A i \in DOMAIN channel[id[1]] : channel[id[1]][i].id # id

\* Every record that the running task has taken is counted in exactly one row or held
\* in exactly one window, however timers, full channels and late records fall
\* together; and none is ever counted twice, also when the task stops or fails
\* (process, on_timer).  No row of a window exists before the window has ended, so that
\* all records of a key that the task takes in time are in one row.
CountedOnce ==
  /\ \A i, j \in DOMAIN AllRows : i # j => AllRows[i].records \cap AllRows[j].records = {}
  /\ \A s, t \in States : s # t => windows[s] \cap windows[t] = {}
  /\ Counted \cap Held = {}
  /\ state = "running" => Counted \cup Held = {id \in Ids : Taken(id)}
  /\ \A i \in DOMAIN AllRows : AllRows[i].window + Size <= clock

\* Every record sent is in the file in the end, if the task runs on: also when no other
\* record follows it (the timeout of the wait for the next item triggers the timers).
EverythingWritten ==
  \A id \in Ids :
    id[2] <= sent[id[1]]
      ~> (state # "running" \/ \E i \in DOMAIN rows : id \in rows[i].records)

\* The records of one key whose processing times lie in one window are counted in one
\* row, as the window requirement says.
OneRowPerWindow ==
  \A i, j \in DOMAIN AllRows :
    AllRows[i].window = AllRows[j].window /\ AllRows[i].key = AllRows[j].key => i = j
=============================================================================
