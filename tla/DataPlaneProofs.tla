-------------------------- MODULE DataPlaneProofs --------------------------
(***************************************************************************)
(* For any sources, capacities and faults: the wire of every channel is a  *)
(* FrameLink, what arrives at the downstream task and when an input counts *)
(* as ended, and every channel is a bounded queue, a RecordChannel.        *)
(***************************************************************************)
EXTENDS DataPlane, FiniteSetTheorems, TLAPS, WellFoundedInduction

-----------------------------------------------------------------------------
(* Sequences of frames, whatever the frames are *)

IsSeq(s) == \E S : s \in Seq(S)

LEMMA EmptyIsSeq == IsSeq(<< >>)
<1>1. << >> \in Seq({})
  OBVIOUS
<1> QED
  BY <1>1 DEF IsSeq

LEMMA AppendIsSeq ==
  ASSUME NEW s, IsSeq(s), NEW f
  PROVE  /\ IsSeq(Append(s, f)) /\ Len(Append(s, f)) = Len(s) + 1
         /\ SubSeq(Append(s, f), 1, Len(s)) = s
<1>1. PICK S : s \in Seq(S)
  BY DEF IsSeq
<1>2. s \in Seq(S \cup {f}) /\ Append(s, f) \in Seq(S \cup {f})
  BY <1>1
<1> QED
  BY <1>2 DEF IsSeq

LEMMA TailIsSeq == ASSUME NEW s, IsSeq(s), s # << >> PROVE IsSeq(Tail(s))
BY DEF IsSeq

LEMMA PrefixIsSeq ==
  ASSUME NEW s, IsSeq(s), NEW k \in 0..Len(s)
  PROVE  IsSeq(SubSeq(s, 1, k))
<1>1. PICK S : s \in Seq(S)
  BY DEF IsSeq
<1>2. SubSeq(s, 1, k) \in Seq(S)
  BY <1>1
<1> QED
  BY <1>2 DEF IsSeq

LEMMA WholeAndNone ==
  ASSUME NEW s, IsSeq(s)
  PROVE  Len(s) \in Nat /\ SubSeq(s, 1, Len(s)) = s /\ SubSeq(s, 1, 0) = << >>
BY DEF IsSeq

-----------------------------------------------------------------------------
(* The invariant: who uses a connection, and which steps it sees *)

Lines == {"none", "open", "fin", "cut"}

Shape ==
  /\ frames = [u \in Sources |-> frames[u]] /\ line = [u \in Sources |-> line[u]]
  /\ up = [u \in Sources |-> up[u]] /\ handler = [u \in Sources |-> handler[u]]
  /\ hand = [u \in Sources |-> hand[u]]

\* Only a source that is not started has no connection, and no handler either.
WireInv ==
  /\ Shape
  /\ \A u \in Sources :
       /\ IsSeq(frames[u]) /\ line[u] \in Lines
       /\ up[u] = "CREATED" => line[u] = "none" /\ frames[u] = << >>
       /\ handler[u] \in {"hello", "reading"} => line[u] # "none"
       /\ hand[u] # << >> => line[u] # "none"

Opened(u) ==
  /\ up[u] = "CREATED" /\ up'[u] # "CREATED"
  /\ line'[u] = "open" /\ \E f : frames'[u] = <<f>>

Written(u) == line[u] = "open" /\ line'[u] = line[u] /\ \E f : frames'[u] = Append(frames[u], f)

Taken(u) == frames[u] # << >> /\ frames'[u] = Tail(frames[u]) /\ line'[u] = line[u]

Closed(u) == frames'[u] = frames[u] /\ line'[u] \in {line[u], Finished(line[u])}

Cut(u) ==
  /\ line[u] # "none" /\ line'[u] = "cut"
  /\ \E k \in 0..Len(frames[u]) : frames'[u] = SubSeq(frames[u], 1, k)

\* What a step may do to the connection of u.
WireStep(u) ==
  /\ Opened(u) \/ Written(u) \/ Taken(u) \/ Closed(u) \/ Cut(u)
  /\ up'[u] = "CREATED" => up[u] = "CREATED"
  /\ handler'[u] \in {"hello", "reading"} =>
       handler[u] \in {"hello", "reading"} \/ line'[u] # "none"
  /\ hand'[u] # << >> => hand[u] # << >> \/ handler[u] = "reading"

LEMMA WireStepIsLinkStep ==
  ASSUME WireInv, NEW u \in Sources, WireStep(u)
  PROVE  /\ Wire(u)!Next \/ UNCHANGED <<frames[u], line[u]>>
         /\ IsSeq(frames'[u]) /\ line'[u] \in Lines
         /\ line[u] # "none" => line'[u] # "none"
         /\ up'[u] = "CREATED" => line'[u] = "none" /\ frames'[u] = << >>
<1>0. IsSeq(frames[u]) /\ line[u] \in Lines
  BY DEF WireInv
<1>1. CASE Opened(u)
  <2>1. PICK f : frames'[u] = <<f>>
    BY <1>1 DEF Opened
  <2>2. IsSeq(<<f>>) /\ Len(<<f>>) = 1
    <3>1. <<f>> \in Seq({f})
      OBVIOUS
    <3> QED
      BY <3>1 DEF IsSeq
  <2>3. line[u] = "none" /\ line'[u] = "open" /\ up'[u] # "CREATED"
    BY <1>1 DEF Opened, WireInv
  <2>4. Wire(u)!Opens
    BY <2>1, <2>2, <2>3 DEF Wire!Opens
  <2> QED
    BY <2>1, <2>2, <2>3, <2>4 DEF Wire!Next, Lines
<1>2. CASE Written(u)
  <2>1. PICK f : frames'[u] = Append(frames[u], f)
    BY <1>2 DEF Written
  <2>2. Wire(u)!Send
    BY <1>0, <1>2, <2>1, AppendIsSeq DEF Written, Wire!Send
  <2> QED
    BY <1>0, <1>2, <2>1, <2>2, AppendIsSeq DEF Written, Wire!Next, WireInv, WireStep
<1>3. CASE Taken(u)
  <2>1. Wire(u)!Take
    BY <1>3 DEF Taken, Wire!Take
  <2> QED
    BY <1>0, <1>3, <2>1, TailIsSeq DEF Taken, Wire!Next, WireInv, WireStep
<1>4. CASE Closed(u)
  <2>1. UNCHANGED <<frames[u], line[u]>> \/ Wire(u)!WriterCloses
    BY <1>4 DEF Closed, Finished, Wire!WriterCloses
  <2> QED
    BY <1>0, <1>4, <2>1 DEF Closed, Finished, Wire!Next, WireInv, WireStep, Lines
<1>5. CASE Cut(u)
  <2>1. PICK k \in 0..Len(frames[u]) : frames'[u] = SubSeq(frames[u], 1, k)
    BY <1>5 DEF Cut
  <2>2. Wire(u)!Ends
    BY <1>5, <2>1 DEF Cut, Wire!Ends, Wire!Prefixes
  <2> QED
    BY <1>0, <1>5, <2>1, <2>2, PrefixIsSeq DEF Cut, Wire!Next, WireInv, WireStep, Lines
<1> QED
  BY <1>1, <1>2, <1>3, <1>4, <1>5 DEF WireStep

\* Such steps keep the invariant.
LEMMA WireStepsKeep ==
  ASSUME WireInv, Shape', \A u \in Sources : WireStep(u)
  PROVE  WireInv'
<1> SUFFICES ASSUME NEW u \in Sources
             PROVE  /\ IsSeq(frames'[u]) /\ line'[u] \in Lines
                    /\ up'[u] = "CREATED" => line'[u] = "none" /\ frames'[u] = << >>
                    /\ handler'[u] \in {"hello", "reading"} => line'[u] # "none"
                    /\ hand'[u] # << >> => line'[u] # "none"
  BY DEF WireInv, IsSeq
<1> QED
  BY WireStepIsLinkStep DEF WireStep, WireInv

-----------------------------------------------------------------------------
(* Every action makes such steps *)

WireSteps == Shape' /\ \A v \in Sources : WireStep(v)

LEMMA InitWire == Init => WireInv /\ \A u \in Sources : Wire(u)!Init
BY EmptyIsSeq DEF Init, WireInv, Shape, Lines, Wire!Init

\* A source ends, or another step of it closes its writer.
EndsOf(u) ==
  /\ \E s : s # "CREATED" /\ up' = [up EXCEPT ![u] = s]
  /\ line' = line \/ line' = [line EXCEPT ![u] = Finished(@)]
  /\ UNCHANGED <<frames, handler, hand>>

LEMMA QuietSteps ==
  ASSUME WireInv, UNCHANGED <<frames, line, up, handler, hand>>
  PROVE  WireSteps
BY DEF WireInv, Shape, WireSteps, WireStep, Closed

LEMMA EndsOfSteps ==
  ASSUME WireInv, NEW u \in Sources, EndsOf(u)
  PROVE  WireSteps
BY DEF WireInv, Shape, EndsOf, WireSteps, WireStep, Closed

LEMMA StartSteps ==
  ASSUME WireInv, NEW u \in Sources, Start(u)
  PROVE  WireSteps
<1>1. Shape'
  BY DEF Start, WireInv, Shape
<1>2. ASSUME NEW v \in Sources, v # u PROVE WireStep(v)
  BY <1>2 DEF Start, WireInv, Shape, WireStep, Closed
<1>3. WireStep(u)
  BY DEF Start, WireInv, Shape, WireStep, Opened, Hello
<1> QED
  BY <1>1, <1>2, <1>3 DEF WireSteps

LEMMA WriteSteps ==
  ASSUME WireInv, NEW u \in Sources, NEW f, Write(u, f), UNCHANGED <<line, up, handler, hand>>
  PROVE  WireSteps
<1>1. Shape'
  BY DEF Write, WireInv, Shape
<1>2. ASSUME NEW v \in Sources, v # u \/ line[u] # "open" PROVE WireStep(v)
  BY <1>2 DEF Write, WireInv, Shape, WireStep, Closed
<1>3. ASSUME line[u] = "open" PROVE WireStep(u)
  <2>1. frames'[u] = Append(frames[u], f)
    BY <1>3 DEF Write, WireInv, Shape
  <2>2. Written(u)
    BY <1>3, <2>1 DEF Written
  <2> QED
    BY <2>2 DEF WireStep
<1> QED
  BY <1>1, <1>2, <1>3 DEF WireSteps

\* The writers: run loop, sender, close, stop.
LEMMA WriterSteps ==
  ASSUME WireInv, NEW u \in Sources, SourceStep(u) \/ ChannelStep(u)
  PROVE  WireSteps
<1>1. CASE Start(u)
  BY <1>1, StartSteps
<1>2. CASE Send(u) \/ AbortEnds(u) \/ SenderFails(u) \/ StrayPut(u) \/ ClosePuts(u) \/ CloseJoins(u)
  <2>1. UNCHANGED <<frames, line, up, handler, hand>>
    BY <1>2 DEF Send, AbortEnds, SenderFails, StrayPut, ClosePuts, CloseJoins, wireVars, serverVars
  <2> QED
    BY <2>1, QuietSteps
<1>3. CASE SourceEnds(u) \/ StopSource(u)
  <2>1. EndsOf(u)
    BY <1>3 DEF SourceEnds, StopSource, BeginsClose, EndsOf, serverVars
  <2> QED
    BY <2>1, EndsOfSteps
<1>4. CASE SourceFails(u) \/ StopInterruptsClose(u)
  <2>1. EndsOf(u)
    BY <1>4 DEF SourceFails, StopInterruptsClose, EndsOf, serverVars
  <2> QED
    BY <2>1, EndsOfSteps
<1>5. CASE CloseFails(u) \/ CloseEnds(u)
  <2>1. EndsOf(u)
    BY <1>5 DEF CloseFails, CloseEnds, ClosedAs, EndsOf, serverVars
  <2> QED
    BY <2>1, EndsOfSteps
<1>6. CASE CloseWrites(u)
  BY <1>6, WriteSteps DEF CloseWrites, sourceVars, serverVars
<1>7. CASE SenderWrites(u)
  <2> DEFINE n == BatchLength(queue[u])
  <2>1. UNCHANGED <<line, up, handler, hand>>
    BY <1>7 DEF SenderWrites, serverVars
  <2>2. Write(u, SubSeq(queue[u], 1, n)) \/ UNCHANGED frames
    BY <1>7 DEF SenderWrites
  <2> QED
    BY <2>1, <2>2, WriteSteps, QuietSteps
<1> QED
  BY <1>1, <1>2, <1>3, <1>4, <1>5, <1>6, <1>7 DEF SourceStep, ChannelStep

LEMMA BreaksSteps ==
  ASSUME WireInv, NEW u \in Sources, Breaks(u)
  PROVE  WireSteps
<1>1. PICK k \in 0..Len(frames[u]) : frames' = [frames EXCEPT ![u] = SubSeq(frames[u], 1, k)]
  BY DEF Breaks, Prefixes
<1>2. Shape'
  BY <1>1 DEF Breaks, WireInv, Shape, sourceVars, serverVars
<1>3. ASSUME NEW v \in Sources, v # u PROVE WireStep(v)
  BY <1>1, <1>3 DEF Breaks, WireInv, Shape, WireStep, Closed, sourceVars, serverVars
<1>4. Cut(u)
  BY <1>1 DEF Breaks, Cut, WireInv, Shape
<1>5. WireStep(u)
  BY <1>4 DEF WireStep, Breaks, sourceVars, serverVars
<1> QED
  BY <1>2, <1>3, <1>5 DEF WireSteps

LEMMA HandshakesSteps ==
  ASSUME WireInv, NEW u \in Sources, Handshakes(u)
  PROVE  WireSteps
<1>1. Shape'
  BY DEF Handshakes, WireInv, Shape, sourceVars
<1>2. ASSUME NEW v \in Sources, v # u PROVE WireStep(v)
  BY <1>2 DEF Handshakes, WireInv, Shape, WireStep, Closed, sourceVars
<1>3. Taken(u) \/ Cut(u)
  <2>1. CASE frames[u] # << >> /\ frames' = [frames EXCEPT ![u] = Tail(@)] /\ UNCHANGED line
    BY <2>1 DEF WireInv, Shape, Taken
  <2>2. CASE frames' = [frames EXCEPT ![u] = << >>] /\ line' = [line EXCEPT ![u] = "cut"]
    <3>1. frames'[u] = SubSeq(frames[u], 1, 0) /\ 0 \in 0..Len(frames[u])
      BY <2>2, WholeAndNone DEF WireInv, Shape
    <3> QED
      BY <2>2, <3>1 DEF Handshakes, WireInv, Shape, Cut
  <2> QED
    BY <2>1, <2>2 DEF Handshakes
<1>4. WireStep(u)
  BY <1>3 DEF WireStep, Handshakes, WireInv, sourceVars
<1> QED
  BY <1>1, <1>2, <1>4 DEF WireSteps

LEMMA HandlerReadsSteps ==
  ASSUME WireInv, NEW u \in Sources, HandlerReads(u)
  PROVE  WireSteps
<1>1. Shape'
  BY DEF HandlerReads, WireInv, Shape, sourceVars
<1>2. ASSUME NEW v \in Sources, v # u PROVE WireStep(v)
  BY <1>2 DEF HandlerReads, WireInv, Shape, WireStep, Closed, sourceVars
<1>3. Taken(u)
  BY DEF HandlerReads, WireInv, Shape, Taken
<1>4. WireStep(u)
  BY <1>3 DEF WireStep, HandlerReads, Reads, sourceVars
<1> QED
  BY <1>1, <1>2, <1>4 DEF WireSteps

LEMMA HandlerPutsSteps ==
  ASSUME WireInv, NEW u \in Sources, HandlerPuts(u)
  PROVE  WireSteps
<1>1. Shape'
  BY DEF HandlerPuts, WireInv, Shape, sourceVars
<1>2. ASSUME NEW v \in Sources, v # u PROVE WireStep(v)
  BY <1>2 DEF HandlerPuts, WireInv, Shape, WireStep, Closed, sourceVars
<1>3. line'[u] = line[u] \/ line'[u] = "cut"
  BY DEF HandlerPuts, WireInv, Shape
<1>4. frames'[u] = SubSeq(frames[u], 1, Len(frames[u])) /\ Len(frames[u]) \in 0..Len(frames[u])
  BY WholeAndNone DEF HandlerPuts, WireInv
<1>5. Closed(u) \/ Cut(u)
  BY <1>3, <1>4 DEF HandlerPuts, Closed, Cut, WireInv
<1>6. WireStep(u)
  BY <1>5 DEF WireStep, HandlerPuts, WireInv, Shape, sourceVars
<1> QED
  BY <1>1, <1>2, <1>6 DEF WireSteps

\* unregister cuts the connections that are read.
LEMMA UnregistersCuts ==
  ASSUME WireInv, Unregisters
  PROVE  /\ frames' = [u \in Sources |-> frames'[u]] /\ line' = [u \in Sources |-> line'[u]]
         /\ \A v \in Sources : Closed(v) \/ Cut(v)
<1>1. CASE ~registered
  BY <1>1 DEF Unregisters, WireInv, Shape, Closed, wireVars
<1>2. CASE registered
  <2>1. PICK kept \in [Reading -> 0..(WireCapacity + 1)] :
          frames' = [u \in Sources |->
                      IF u \in Reading /\ kept[u] < Len(frames[u])
                      THEN SubSeq(frames[u], 1, kept[u]) ELSE frames[u]]
    BY <1>2 DEF Unregisters
  <2>2. line' = [u \in Sources |-> IF u \in Reading THEN "cut" ELSE line[u]]
    BY <1>2 DEF Unregisters
  <2>3. ASSUME NEW v \in Sources PROVE Closed(v) \/ Cut(v)
    <3>1. CASE v \notin Reading
      BY <2>1, <2>2, <3>1 DEF Closed
    <3>2. CASE v \in Reading
      <4>1. line[v] # "none" /\ line'[v] = "cut"
        BY <2>2, <3>2 DEF Reading, WireInv
      <4>2. Len(frames[v]) \in Nat /\ SubSeq(frames[v], 1, Len(frames[v])) = frames[v]
        BY WholeAndNone DEF WireInv
      <4>3. kept[v] \in 0..(WireCapacity + 1) /\ WireCapacity \in Nat
        BY <2>1, <3>2, CapacityAssumption DEF CapacityAssumption
      <4>4. CASE kept[v] < Len(frames[v])
        <5>1. kept[v] \in 0..Len(frames[v])
          BY <4>2, <4>3, <4>4
        <5>2. frames'[v] = SubSeq(frames[v], 1, kept[v])
          BY <2>1, <3>2, <4>4
        <5> QED
          BY <4>1, <5>1, <5>2 DEF Cut
      <4>5. CASE ~(kept[v] < Len(frames[v]))
        <5>1. frames'[v] = frames[v]
          BY <2>1, <4>5
        <5> QED
          BY <4>1, <4>2, <5>1 DEF Cut
      <4> QED
        BY <4>4, <4>5
    <3> QED
      BY <3>1, <3>2
  <2> QED
    BY <2>1, <2>2, <2>3
<1> QED
  BY <1>1, <1>2

\* unregister, with whatever its caller does to the handlers.
LEMMA UnregistersSteps ==
  ASSUME WireInv, Unregisters, UNCHANGED <<up, hand>>,
         handler' = handler \/ \E u \in Sources : handler' = [handler EXCEPT ![u] = "ended"]
  PROVE  WireSteps
<1>1. Shape'
  BY UnregistersCuts DEF WireInv, Shape
<1>2. ASSUME NEW v \in Sources PROVE WireStep(v)
  BY UnregistersCuts DEF WireStep, WireInv, Shape
<1> QED
  BY <1>1, <1>2 DEF WireSteps

LEMMA HandlerErrorsSteps ==
  ASSUME WireInv, NEW u \in Sources, HandlerErrors(u)
  PROVE  WireSteps
<1>1. CASE down = "FAILED"
  <2>1. Shape'
    BY <1>1 DEF HandlerErrors, WireInv, Shape, sourceVars
  <2>2. ASSUME NEW v \in Sources, v # u PROVE WireStep(v)
    BY <1>1, <2>2 DEF HandlerErrors, WireInv, Shape, WireStep, Closed, sourceVars
  <2>3. frames'[u] = SubSeq(frames[u], 1, Len(frames[u])) /\ Len(frames[u]) \in 0..Len(frames[u])
    BY <1>1, WholeAndNone DEF HandlerErrors, WireInv
  <2>4. Cut(u)
    BY <1>1, <2>3 DEF HandlerErrors, Reads, WireInv, Shape, Cut
  <2>5. WireStep(u)
    BY <1>1, <2>4 DEF WireStep, HandlerErrors, Reads, sourceVars
  <2> QED
    BY <2>1, <2>2, <2>5 DEF WireSteps
<1>2. CASE down # "FAILED"
  BY <1>2, UnregistersSteps DEF HandlerErrors, Fails, sourceVars
<1> QED
  BY <1>1, <1>2

LEMMA NextSteps ==
  ASSUME WireInv, [Next]_vars
  PROVE  WireSteps
<1>1. CASE \E u \in Sources : SourceStep(u) \/ ChannelStep(u)
  BY <1>1, WriterSteps
<1>2. CASE \E u \in Sources : Breaks(u) \/ HandlerStep(u)
  BY <1>2, BreaksSteps, HandshakesSteps, HandlerReadsSteps, HandlerPutsSteps, HandlerErrorsSteps
     DEF HandlerStep
<1>3. CASE Processes \/ FailureReported \/ StopDown \/ StopEnds
  <2>1. UNCHANGED <<frames, line, up, handler, hand>>
    BY <1>3 DEF Processes, FailureReported, StopDown, StopEnds, sourceVars, wireVars, serverVars
  <2> QED
    BY <2>1, QuietSteps
<1>4. CASE Finishes \/ StopCleans
  BY <1>4, UnregistersSteps DEF Finishes, StopCleans, sourceVars, serverVars
<1>5. CASE OperatorFails
  <2>1. UNCHANGED <<up, handler, hand>> /\ (UNCHANGED wireVars \/ Unregisters)
    BY <1>5 DEF OperatorFails, Fails, sourceVars, serverVars
  <2> QED
    BY <2>1, UnregistersSteps, QuietSteps DEF wireVars
<1>6. CASE UNCHANGED vars
  <2>1. UNCHANGED <<frames, line, up, handler, hand>>
    BY <1>6 DEF vars, sourceVars, wireVars, serverVars
  <2> QED
    BY <2>1, QuietSteps
<1> QED
  BY <1>1, <1>2, <1>3, <1>4, <1>5, <1>6 DEF Next, TaskStep

\* Every connection, whoever closes, breaks or reads it and however many frames it may
\* hold, is a FrameLink: what its reader gets is what its writer wrote, in order, and it
\* loses frames only from the end on, and only when it ends (protocol.py, runtime/task.py).
THEOREM WiresImplemented == Spec => WiresAreFrameLinks
<1>1. Init => WireInv /\ \A u \in Sources : Wire(u)!Init
  BY InitWire
<1>2. ASSUME WireInv, [Next]_vars
      PROVE  /\ WireInv'
             /\ \A u \in Sources : Wire(u)!Next \/ UNCHANGED <<frames[u], line[u]>>
  <2>1. Shape' /\ \A v \in Sources : WireStep(v)
    BY <1>2, NextSteps DEF WireSteps
  <2> QED
    BY <1>2, <2>1, WireStepsKeep, WireStepIsLinkStep
<1> QED
  BY <1>1, <1>2, PTL DEF Spec, WiresAreFrameLinks

-----------------------------------------------------------------------------
(* Types *)

Frames == {f \in Seq(Items) : Len(f) <= BatchSize}

TypedSources ==
  /\ up \in [Sources -> TaskStates \cup {"CREATED"}]
  /\ channel \in [Sources -> {"NEW", "RUNNING", "CLOSING", "CLOSED", "FAILED"}]
  /\ closing \in [Sources -> {"no", "put", "join", "eos", "drain", "abort"}]
  /\ stray \in [Sources -> BOOLEAN] /\ sent \in [Sources -> 0..MaxRecords]
  /\ sender \in [Sources -> {"none", "running", "done", "failed", "cancelled"}]

TypedQueue ==
  /\ queue \in [Sources -> Seq(Items)]
  /\ \A u \in Sources : Len(queue[u]) <= QueueCapacity

TypedWire ==
  /\ line \in [Sources -> {"none", "open", "fin", "cut"}]
  /\ frames \in [Sources -> Seq(Frames)]
  /\ \A u \in Sources : Len(frames[u]) <= WireCapacity

TypedServer ==
  /\ handler \in [Sources -> {"none", "hello", "reading", "ended"}]
  /\ hand \in [Sources -> Frames]

TypedTask ==
  /\ down \in TaskStates /\ registered \in BOOLEAN
  /\ stopping \in {"no", "cleanup", "clean", "done"} /\ loop \in {"running", "ended"}
  /\ failing \in Nat /\ closed \subseteq Sources
  /\ input \in Seq(Sources \X Items) /\ Len(input) <= InputCapacity
  /\ processed \in [Sources -> 0..(MaxRecords + 1)]
  /\ reports \in [Sources \cup {Down} -> Nat]

Typed == TypedSources /\ TypedQueue /\ TypedWire /\ TypedServer /\ TypedTask

\* A set of numbers has a least one, which is what induction over positions needs.
LEMMA LeastNatural ==
  ASSUME NEW T, T \subseteq Nat, T # {}
  PROVE  \E m \in T : \A k \in T : m <= k
<1>1. PICK m \in T : \A k \in T : <<k, m>> \notin OpToRel(<, Nat)
  BY NatLessThanWellFounded, WFMin
<1>2. ASSUME NEW k \in T PROVE ~(k < m)
  <2>1. k \in Nat /\ m \in Nat
    OBVIOUS
  <2>2. <<k, m>> \notin {p \in Nat \X Nat : p[1] < p[2]}
    BY <1>1 DEF OpToRel
  <2> QED
    BY <2>1, <2>2
<1>3. \A k \in T : m <= k
  BY <1>2
<1> QED
  BY <1>3

\* How many records the sender takes.
LEMMA BatchLengthType ==
  ASSUME NEW q \in Seq(Items)
  PROVE  LET n == BatchLength(q) IN
         /\ n \in 0..BatchSize /\ n <= Len(q) /\ \A i \in 1..n : q[i] # CloseMark
         /\ n = BatchSize \/ n = Len(q) \/ q[n + 1] = CloseMark
<1> DEFINE T == {n \in 0..Len(q) : n = BatchSize \/ n = Len(q) \/ q[n + 1] = CloseMark}
           Good(n) == /\ n <= Len(q) /\ \A i \in 1..n : q[i] # CloseMark
                      /\ n = BatchSize \/ n = Len(q) \/ q[n + 1] = CloseMark
<1>1. BatchSize \in Nat /\ Len(q) \in T /\ T \subseteq Nat
  BY CapacityAssumption DEF CapacityAssumption
<1>2. PICK m \in T : \A k \in T : m <= k
  <2> HIDE DEF T
  <2> QED
    BY <1>1, LeastNatural
<1>3. m \in 0..BatchSize
  <2>1. CASE BatchSize <= Len(q)
    <3>1. BatchSize \in T
      BY <1>1, <2>1
    <3>2. m <= BatchSize /\ m \in Nat
      BY <1>2, <3>1
    <3> QED
      BY <1>1, <3>2
  <2>2. CASE ~(BatchSize <= Len(q))
    BY <1>1, <1>2, <2>2
  <2> QED
    BY <2>1, <2>2
<1>4. ASSUME NEW i \in 1..m, q[i] = CloseMark PROVE FALSE
  <2>1. i - 1 \in T
    BY <1>2, <1>4
  <2>2. m <= i - 1 /\ m \in Nat
    BY <1>2, <2>1
  <2> QED
    BY <2>2
<1>5. \E n \in 0..BatchSize : Good(n)
  BY <1>2, <1>3, <1>4
<1>6. BatchLength(q) = CHOOSE n \in 0..BatchSize : Good(n)
  BY DEF BatchLength
<1>7. BatchLength(q) \in 0..BatchSize /\ Good(BatchLength(q))
  <2> HIDE DEF Good
  <2> QED
    BY <1>5, <1>6
<1> QED
  BY <1>7

\* What Typed says of a batch, and of what is taken from a sequence.
LEMMA ItemTypes ==
  /\ Items \subseteq Int /\ EndMark \in Items /\ CloseMark \in Items
  /\ BatchSize \in Nat \ {0} /\ WireCapacity \in Nat \ {0} /\ QueueCapacity \in Nat \ {0}
  /\ InputCapacity \in Nat \ {0} /\ MaxRecords \in Nat
  /\ Hello \in Frames /\ EndOfStream \in Frames
<1>1. BatchSize \in Nat \ {0} /\ MaxRecords \in Nat
  BY CapacityAssumption DEF CapacityAssumption
<1>2. EndMark \in Items /\ << >> \in Seq(Items)
  BY DEF Items
<1>3. <<EndMark>> \in Seq(Items) /\ Len(<<EndMark>>) = 1 /\ Len(<< >>) = 0
  BY <1>2
<1>4. Hello \in Frames /\ EndOfStream \in Frames
  BY <1>1, <1>2, <1>3 DEF Frames, Hello, EndOfStream
<1> QED
  BY <1>1, <1>4, CapacityAssumption DEF CapacityAssumption, Items, EndMark, CloseMark

LEMMA AppendType ==
  ASSUME NEW S, NEW q \in Seq(S), NEW e \in S
  PROVE  Append(q, e) \in Seq(S) /\ Len(Append(q, e)) = Len(q) + 1
OBVIOUS

LEMMA TailType ==
  ASSUME NEW S, NEW q \in Seq(S), q # << >>
  PROVE  /\ Tail(q) \in Seq(S) /\ Len(Tail(q)) = Len(q) - 1
         /\ Head(q) \in S /\ Head(q) = q[1] /\ Len(q) \in Nat \ {0}
OBVIOUS

LEMMA SubSeqType ==
  ASSUME NEW S, NEW q \in Seq(S), NEW m \in Nat \ {0}, NEW n \in 0..Len(q)
  PROVE  /\ SubSeq(q, m, n) \in Seq(S)
         /\ Len(SubSeq(q, m, n)) = IF m <= n THEN n - m + 1 ELSE 0
OBVIOUS

LEMMA InitTyped == Init => Typed
<1> SUFFICES ASSUME Init PROVE Typed
  OBVIOUS
<1>1. TypedSources
  BY ItemTypes DEF Init, TypedSources
<1>2. TypedQueue /\ TypedWire
  BY ItemTypes DEF Init, TypedQueue, TypedWire
<1>3. TypedServer
  BY ItemTypes DEF Init, TypedServer, Hello
<1>4. TypedTask
  BY ItemTypes DEF Init, TypedTask, TaskStates
<1> QED
  BY <1>1, <1>2, <1>3, <1>4 DEF Typed

LEMMA SourceStepsTyped ==
  ASSUME Typed, NEW u \in Sources, SourceStep(u)
  PROVE  Typed'
<1> USE DEF Typed
<1>1. TypedSources'
  <2>1. CASE Start(u) \/ AbortEnds(u) \/ StopInterruptsClose(u) \/ SourceFails(u)
    BY <2>1 DEF Start, AbortEnds, StopInterruptsClose, SourceFails, TypedSources, TaskStates
  <2>2. CASE SourceEnds(u) \/ StopSource(u)
    <3>1. PICK s \in {"RUNNING", "STOPPING"} : BeginsClose(u, s)
      BY <2>2 DEF SourceEnds, StopSource
    <3>2. /\ up' \in [Sources -> TaskStates \cup {"CREATED"}]
          /\ channel' \in [Sources -> {"NEW", "RUNNING", "CLOSING", "CLOSED", "FAILED"}]
          /\ closing' \in [Sources -> {"no", "put", "join", "eos", "drain", "abort"}]
      BY <3>1 DEF BeginsClose, TypedSources, TaskStates
    <3>3. stray' \in [Sources -> BOOLEAN] /\ UNCHANGED <<sent, sender>>
      BY <2>2 DEF SourceEnds, StopSource, TypedSources
    <3> QED
      BY <3>2, <3>3 DEF TypedSources
  <2>3. CASE Send(u)
    <3>1. sent[u] + 1 \in 0..MaxRecords
      BY <2>3, ItemTypes DEF Send, TypedSources
    <3> QED
      BY <2>3, <3>1 DEF Send, TypedSources
  <2> QED
    BY <2>1, <2>2, <2>3 DEF SourceStep
<1>2. TypedQueue'
  <2>1. CASE Send(u)
    <3>1. sent[u] + 1 \in Items /\ queue[u] \in Seq(Items)
      BY <2>1, ItemTypes DEF Send, TypedSources, TypedQueue, Items
    <3> DEFINE q == Append(queue[u], sent[u] + 1)
    <3>2. q \in Seq(Items) /\ Len(q) = Len(queue[u]) + 1
      BY <3>1
    <3>3. Len(q) <= QueueCapacity
      BY <2>1, <3>1, <3>2, ItemTypes DEF Send
    <3>4. queue' = [queue EXCEPT ![u] = q]
      BY <2>1 DEF Send
    <3> HIDE DEF q
    <3> QED
      BY <3>2, <3>3, <3>4 DEF TypedQueue
  <2>2. CASE UNCHANGED queue
    BY <2>2 DEF TypedQueue
  <2> QED
    BY <2>1, <2>2 DEF SourceStep, Start, AbortEnds, StopInterruptsClose, SourceFails, SourceEnds,
       StopSource
<1>3. TypedWire'
  <2>1. CASE Start(u)
    <3>1. <<Hello>> \in Seq(Frames) /\ Len(<<Hello>>) = 1
      BY ItemTypes
    <3> QED
      BY <2>1, <3>1, ItemTypes DEF Start, TypedWire
  <2>2. CASE SourceEnds(u) \/ StopSource(u)
    BY <2>2 DEF SourceEnds, StopSource, BeginsClose, TypedWire, Finished
  <2>3. CASE StopInterruptsClose(u) \/ SourceFails(u)
    BY <2>3 DEF StopInterruptsClose, SourceFails, TypedWire, Finished
  <2>4. CASE Send(u) \/ AbortEnds(u)
    BY <2>4 DEF Send, AbortEnds, TypedWire, wireVars
  <2> QED
    BY <2>1, <2>2, <2>3, <2>4 DEF SourceStep
<1>4. TypedServer'
  BY DEF SourceStep, Start, Send, AbortEnds, StopInterruptsClose, SourceFails, SourceEnds,
     StopSource, TypedServer, serverVars
<1>5. TypedTask'
  <2>1. CASE UNCHANGED <<taskVars, reports>>
    BY <2>1 DEF TypedTask, taskVars
  <2>2. CASE AbortEnds(u)
    BY <2>2 DEF AbortEnds, TypedTask, taskVars
  <2> QED
    BY <2>1, <2>2 DEF SourceStep, Start, Send, StopInterruptsClose, SourceFails, SourceEnds,
       StopSource
<1> QED
  BY <1>1, <1>2, <1>3, <1>4, <1>5

\* Puts into a channel's queue.
LEMMA PutTyped ==
  ASSUME TypedQueue, NEW u \in Sources, NEW e \in Items, Len(queue[u]) < QueueCapacity,
         queue' = [queue EXCEPT ![u] = Append(@, e)]
  PROVE  TypedQueue'
<1> DEFINE q == Append(queue[u], e)
<1>1. q \in Seq(Items) /\ Len(q) = Len(queue[u]) + 1 /\ Len(queue[u]) \in Nat
  BY DEF TypedQueue
<1>2. Len(q) <= QueueCapacity
  BY <1>1, ItemTypes
<1> HIDE DEF q
<1>3. queue' = [queue EXCEPT ![u] = q]
  BY DEF q
<1> QED
  BY <1>1, <1>2, <1>3 DEF TypedQueue

\* Frames on their way.
LEMMA WriteTyped ==
  ASSUME TypedWire, NEW u \in Sources, NEW f \in Frames, Drained(u), Write(u, f), UNCHANGED line
  PROVE  TypedWire'
<1> DEFINE w == Append(frames[u], f)
<1>1. w \in Seq(Frames) /\ Len(w) = Len(frames[u]) + 1 /\ Len(frames[u]) \in Nat
  BY DEF TypedWire
<1>2. line[u] = "open" => Len(w) <= WireCapacity
  BY <1>1, ItemTypes DEF Drained
<1> HIDE DEF w
<1>3. frames' = [frames EXCEPT ![u] = IF line[u] = "open" THEN w ELSE @]
  BY DEF w, Write
<1> QED
  BY <1>1, <1>2, <1>3 DEF TypedWire

LEMMA ChannelStepsTyped ==
  ASSUME Typed, NEW u \in Sources, ChannelStep(u)
  PROVE  Typed'
<1> USE DEF Typed
<1>1. TypedSources'
  <2>1. CASE SenderWrites(u) \/ SenderFails(u) \/ StrayPut(u) \/ ClosePuts(u) \/ CloseJoins(u)
             \/ CloseWrites(u)
    BY <2>1 DEF SenderWrites, SenderFails, StrayPut, ClosePuts, CloseJoins, CloseWrites,
       TypedSources
  <2>2. CASE CloseFails(u) \/ CloseEnds(u)
    BY <2>2 DEF CloseFails, CloseEnds, ClosedAs, TypedSources, TaskStates
  <2> QED
    BY <2>1, <2>2 DEF ChannelStep
<1>2. CASE SenderWrites(u)
  <2> DEFINE q == queue[u]
             n == BatchLength(q)
             k == IF n < BatchSize /\ n < Len(q) THEN n + 2 ELSE n + 1
             f == SubSeq(q, 1, n)
             r == SubSeq(q, k, Len(q))
  <2>1. q \in Seq(Items) /\ Len(q) <= QueueCapacity /\ Len(q) \in Nat
    BY DEF TypedQueue
  <2>2. n \in 0..BatchSize /\ n \in 0..Len(q)
    <3> HIDE DEF q
    <3> QED
      BY <2>1, BatchLengthType, ItemTypes
  <2>3. /\ queue' = [queue EXCEPT ![u] = r] /\ Drained(u)
        /\ Write(u, f) \/ UNCHANGED frames
        /\ UNCHANGED <<line, serverVars, taskVars, reports>>
    BY <1>2 DEF SenderWrites
  <2> HIDE DEF q, n
  <2>4. f \in Frames
    BY <2>1, <2>2, SubSeqType, ItemTypes DEF Frames
  <2>5. r \in Seq(Items) /\ Len(r) <= Len(q)
    BY <2>1, <2>2
  <2> HIDE DEF f, r
  <2>6. TypedQueue'
    <3>1. Len(r) <= QueueCapacity
      BY <2>1, <2>5, ItemTypes
    <3> QED
      BY <2>3, <2>5, <3>1 DEF TypedQueue
  <2>7. TypedWire'
    <3>1. CASE Write(u, f)
      BY <2>3, <2>4, <3>1, WriteTyped
    <3>2. CASE UNCHANGED frames
      BY <2>3, <3>2 DEF TypedWire
    <3> QED
      BY <2>3, <3>1, <3>2
  <2>8. TypedServer' /\ TypedTask'
    BY <2>3 DEF TypedServer, TypedTask, serverVars, taskVars
  <2> QED
    BY <1>1, <2>6, <2>7, <2>8
<1>3. CASE StrayPut(u) \/ ClosePuts(u)
  <2>1. TypedQueue'
    <3>1. sent[u] + 1 \in Items
      BY ItemTypes DEF TypedSources, Items
    <3>2. CASE StrayPut(u)
      BY <3>1, <3>2, PutTyped DEF StrayPut
    <3>3. CASE ClosePuts(u)
      BY <3>3, PutTyped, ItemTypes DEF ClosePuts
    <3> QED
      BY <1>3, <3>2, <3>3
  <2>2. UNCHANGED <<frames, line, serverVars, taskVars, reports>>
    BY <1>3 DEF StrayPut, ClosePuts, wireVars
  <2>3. TypedWire' /\ TypedServer' /\ TypedTask'
    BY <2>2 DEF TypedWire, TypedServer, TypedTask, serverVars, taskVars
  <2> QED
    BY <1>1, <2>1, <2>3
<1>4. CASE SenderFails(u) \/ CloseJoins(u) \/ CloseFails(u) \/ CloseEnds(u) \/ CloseWrites(u)
  <2>1. UNCHANGED <<queue, serverVars, taskVars, reports>>
    BY <1>4 DEF SenderFails, CloseJoins, CloseFails, CloseEnds, ClosedAs, CloseWrites
  <2>2. TypedQueue' /\ TypedServer' /\ TypedTask'
    BY <2>1 DEF TypedQueue, TypedServer, TypedTask, serverVars, taskVars
  <2>3. TypedWire'
    <3>1. CASE SenderFails(u) \/ CloseJoins(u)
      BY <3>1 DEF SenderFails, CloseJoins, TypedWire, wireVars
    <3>2. CASE CloseFails(u) \/ CloseEnds(u)
      BY <3>2 DEF CloseFails, CloseEnds, ClosedAs, TypedWire, Finished
    <3>3. CASE CloseWrites(u)
      BY <3>3, WriteTyped, ItemTypes DEF CloseWrites
    <3> QED
      BY <1>4, <3>1, <3>2, <3>3
  <2> QED
    BY <1>1, <2>2, <2>3
<1> QED
  BY <1>2, <1>3, <1>4 DEF ChannelStep

\* What is left of the frames of a connection.
LEMMA LessTyped ==
  ASSUME TypedWire, line' \in [Sources -> {"none", "open", "fin", "cut"}],
         frames' \in [Sources -> Seq(Frames)],
         \A u \in Sources : Len(frames'[u]) <= Len(frames[u])
  PROVE  TypedWire'
<1>1. \A u \in Sources : Len(frames[u]) \in Nat /\ Len(frames'[u]) \in Nat
  BY DEF TypedWire
<1> QED
  BY <1>1, ItemTypes DEF TypedWire

LEMMA BreaksTyped ==
  ASSUME Typed, NEW u \in Sources, Breaks(u)
  PROVE  Typed'
<1> USE DEF Typed
<1>1. PICK k \in 0..Len(frames[u]) : frames' = [frames EXCEPT ![u] = SubSeq(frames[u], 1, k)]
  BY DEF Breaks, Prefixes
<1> DEFINE s == SubSeq(frames[u], 1, k)
<1>2. s \in Seq(Frames) /\ Len(s) <= Len(frames[u]) /\ \A v \in Sources : Len(frames[v]) \in Nat
  BY SubSeqType DEF TypedWire
<1> HIDE DEF s
<1>3. TypedWire'
  <2>1. line' \in [Sources -> {"none", "open", "fin", "cut"}]
    BY DEF Breaks, TypedWire
  <2>2. frames' \in [Sources -> Seq(Frames)] /\ \A v \in Sources : Len(frames'[v]) <= Len(frames[v])
    BY <1>1, <1>2 DEF TypedWire, s
  <2> QED
    BY <2>1, <2>2, LessTyped
<1> QED
  BY <1>3 DEF Breaks, sourceVars, serverVars, taskVars, TypedSources, TypedQueue, TypedServer, TypedTask

\* The handler takes the first frame, and perhaps gives it up with the others.
LEMMA TakeTyped ==
  ASSUME TypedWire, NEW u \in Sources, NEW s \in Seq(Frames), Len(s) <= Len(frames[u]),
         frames' = [frames EXCEPT ![u] = s], line' = line \/ line' = [line EXCEPT ![u] = "cut"]
  PROVE  TypedWire'
<1>1. line' \in [Sources -> {"none", "open", "fin", "cut"}]
  BY DEF TypedWire
<1>2. frames' \in [Sources -> Seq(Frames)]
  BY DEF TypedWire
<1>3. \A v \in Sources : Len(frames'[v]) <= Len(frames[v])
  BY DEF TypedWire
<1> QED
  BY <1>1, <1>2, <1>3, LessTyped

LEMMA UnregistersTyped ==
  ASSUME Typed, Unregisters
  PROVE  TypedWire' /\ registered' \in BOOLEAN
<1> USE DEF Typed
<1>1. CASE ~registered
  BY <1>1 DEF Unregisters, TypedWire, wireVars
<1>2. CASE registered
  <2>1. PICK kept \in [Reading -> 0..(WireCapacity + 1)] :
          frames' = [u \in Sources |->
                      IF u \in Reading /\ kept[u] < Len(frames[u])
                      THEN SubSeq(frames[u], 1, kept[u]) ELSE frames[u]]
    BY <1>2 DEF Unregisters
  <2>2. line' \in [Sources -> {"none", "open", "fin", "cut"}]
    BY <1>2 DEF Unregisters, TypedWire
  <2>3. ASSUME NEW u \in Sources
        PROVE  frames'[u] \in Seq(Frames) /\ Len(frames'[u]) <= Len(frames[u])
    <3>1. frames[u] \in Seq(Frames) /\ Len(frames[u]) \in Nat
      BY DEF TypedWire
    <3>2. CASE u \in Reading /\ kept[u] < Len(frames[u])
      <4>1. kept[u] \in 0..Len(frames[u])
        BY <2>1, <3>1, <3>2, ItemTypes
      <4>2. frames'[u] = SubSeq(frames[u], 1, kept[u])
        BY <2>1, <3>2
      <4>3. Len(frames'[u]) = IF 1 <= kept[u] THEN kept[u] - 1 + 1 ELSE 0
        BY <3>1, <4>1, <4>2, SubSeqType
      <4>4. frames'[u] \in Seq(Frames)
        BY <3>1, <4>1, <4>2, SubSeqType
      <4> QED
        BY <3>1, <4>1, <4>3, <4>4
    <3>3. CASE ~(u \in Reading /\ kept[u] < Len(frames[u]))
      BY <2>1, <3>1, <3>3
    <3> QED
      BY <3>2, <3>3
  <2>4. frames' \in [Sources -> Seq(Frames)]
    BY <2>1, <2>3
  <2> QED
    BY <2>2, <2>3, <2>4, LessTyped DEF Unregisters
<1> QED
  BY <1>1, <1>2 DEF TypedTask

LEMMA HandlerStepsTyped ==
  ASSUME Typed, NEW u \in Sources, HandlerStep(u)
  PROVE  Typed'
<1> USE DEF Typed
<1>0. frames[u] \in Seq(Frames) /\ Len(frames[u]) \in Nat
  BY DEF TypedWire
<1>1. TypedSources' /\ TypedQueue'
  BY DEF HandlerStep, Handshakes, HandlerReads, HandlerPuts, HandlerErrors, sourceVars, TypedSources,
     TypedQueue
<1>2. CASE Handshakes(u)
  <2>1. PICK s \in Seq(Frames) : Len(s) <= Len(frames[u]) /\ frames' = [frames EXCEPT ![u] = s]
    <3>1. << >> \in Seq(Frames) /\ Len(<< >>) = 0
      OBVIOUS
    <3>2. frames[u] # << >> => Tail(frames[u]) \in Seq(Frames) /\ Len(Tail(frames[u])) <= Len(frames[u])
      BY <1>0, TailType
    <3>3. \/ frames[u] # << >> /\ frames' = [frames EXCEPT ![u] = Tail(frames[u])]
          \/ frames' = [frames EXCEPT ![u] = << >>]
      BY <1>2 DEF Handshakes
    <3>4. CASE frames[u] # << >> /\ frames' = [frames EXCEPT ![u] = Tail(frames[u])]
      BY <3>2, <3>4
    <3>5. CASE frames' = [frames EXCEPT ![u] = << >>]
      <4>1. Len(<< >>) <= Len(frames[u])
        BY <1>0, <3>1
      <4> QED
        BY <3>1, <3>5, <4>1
    <3> QED
      BY <3>3, <3>4, <3>5
  <2>2. TypedWire'
    BY <1>2, <2>1, TakeTyped DEF Handshakes
  <2> QED
    BY <1>1, <1>2, <2>2 DEF Handshakes, TypedServer, TypedTask, taskVars
<1>3. CASE HandlerReads(u)
  <2>1. frames[u] # << >>
    BY <1>3 DEF HandlerReads
  <2>2. Tail(frames[u]) \in Seq(Frames) /\ Head(frames[u]) \in Frames /\ Len(Tail(frames[u])) <= Len(frames[u])
    BY <1>0, <2>1, TailType
  <2>3. TypedWire'
    BY <1>3, <2>2, TakeTyped DEF HandlerReads
  <2>4. TypedServer'
    BY <1>3, <2>2 DEF HandlerReads, TypedServer
  <2> QED
    BY <1>1, <1>3, <2>3, <2>4 DEF HandlerReads, TypedTask, taskVars
<1>4. CASE HandlerPuts(u)
  <2>1. hand[u] \in Seq(Items) /\ Len(hand[u]) <= BatchSize /\ hand[u] # << >> /\ input \in Seq(Sources \X Items)
    BY <1>4 DEF HandlerPuts, TypedServer, TypedTask, Frames
  <2>2. Tail(hand[u]) \in Frames /\ Head(hand[u]) \in Items
    BY <2>1, TailType, ItemTypes DEF Frames
  <2>3. TypedServer'
    BY <1>4, <2>2 DEF HandlerPuts, TypedServer
  <2>4. <<u, Head(hand[u])>> \in Sources \X Items
    BY <2>2
  <2>5. input' \in Seq(Sources \X Items) /\ Len(input') = Len(input) + 1 /\ Len(input) \in Nat
    BY <1>4, <2>1, <2>4, AppendType DEF HandlerPuts
  <2>6. Len(input') <= InputCapacity
    BY <1>4, <2>5, ItemTypes DEF HandlerPuts
  <2>7. TypedTask'
    BY <1>4, <2>5, <2>6 DEF HandlerPuts, TypedTask
  <2>8. TypedWire'
    BY <1>4 DEF HandlerPuts, TypedWire
  <2> QED
    BY <1>1, <2>3, <2>7, <2>8
<1>5. CASE HandlerErrors(u)
  <2>1. TypedServer'
    BY <1>5 DEF HandlerErrors, TypedServer
  <2>2. CASE down = "FAILED"
    BY <1>1, <1>5, <2>1, <2>2 DEF HandlerErrors, TypedWire, TypedTask
  <2>3. CASE down # "FAILED"
    <3>1. TypedWire' /\ registered' \in BOOLEAN
      BY <1>5, <2>3, UnregistersTyped DEF HandlerErrors, Fails
    <3>2. TypedTask'
      BY <1>5, <2>3, <3>1 DEF HandlerErrors, Fails, TypedTask, TaskStates
    <3> QED
      BY <1>1, <2>1, <3>1, <3>2
  <2> QED
    BY <2>2, <2>3
<1> QED
  BY <1>2, <1>3, <1>4, <1>5 DEF HandlerStep

LEMMA TaskStepsTyped ==
  ASSUME Typed, TaskStep \/ OperatorFails \/ StopDown
  PROVE  Typed'
<1> USE DEF Typed
<1>1. TypedSources' /\ TypedQueue' /\ TypedServer'
  <2>1. UNCHANGED <<sourceVars, serverVars>>
    BY DEF TaskStep, Processes, Finishes, FailureReported, StopCleans, StopEnds, OperatorFails, StopDown
  <2> QED
    BY <2>1 DEF sourceVars, serverVars, TypedSources, TypedQueue, TypedServer
<1>2. CASE Processes
  <2>1. input \in Seq(Sources \X Items) /\ input # << >>
    BY <1>2 DEF Processes, TypedTask
  <2>2. /\ input' \in Seq(Sources \X Items) /\ Len(input') = Len(input) - 1 /\ Len(input) \in Nat
        /\ Head(input) \in Sources \X Items
    BY <1>2, <2>1, TailType DEF Processes
  <2>3. Head(input)[1] \in Sources /\ Head(input)[2] \in Items
    BY <2>2
  <2>4. Head(input)[2] = EndMark \/ Head(input)[2] \in 0..(MaxRecords + 1)
    BY <2>3, ItemTypes DEF Items, CloseMark
  <2>5. closed' \subseteq Sources /\ processed' \in [Sources -> 0..(MaxRecords + 1)]
    BY <1>2, <2>3, <2>4 DEF Processes, TypedTask
  <2>6. Len(input') <= InputCapacity
    BY <2>2, ItemTypes DEF TypedTask
  <2> QED
    BY <1>1, <1>2, <2>2, <2>5, <2>6 DEF Processes, TypedTask, TypedWire, wireVars
<1>3. CASE Finishes \/ StopCleans
  <2>1. TypedWire' /\ registered' \in BOOLEAN
    BY <1>3, UnregistersTyped DEF Finishes, StopCleans
  <2>2. TypedTask'
    BY <1>3, <2>1 DEF Finishes, StopCleans, TypedTask, TaskStates
  <2> QED
    BY <1>1, <2>1, <2>2
<1>4. CASE OperatorFails
  <2>1. input \in Seq(Sources \X Items) /\ input # << >>
    BY <1>4 DEF OperatorFails, TypedTask
  <2>2. input' \in Seq(Sources \X Items) /\ Len(input') = Len(input) - 1 /\ Len(input) \in Nat
    BY <1>4, <2>1, TailType DEF OperatorFails
  <2>3. Len(input') <= InputCapacity
    BY <2>2, ItemTypes DEF TypedTask
  <2>4. TypedWire' /\ registered' \in BOOLEAN
    <3>1. CASE Unregisters
      BY <3>1, UnregistersTyped
    <3>2. CASE UNCHANGED <<wireVars, registered>>
      BY <3>2 DEF TypedWire, TypedTask, wireVars
    <3> QED
      BY <1>4, <3>1, <3>2 DEF OperatorFails, Fails
  <2>5. TypedTask'
    BY <1>4, <2>2, <2>3, <2>4 DEF OperatorFails, Fails, TypedTask, TaskStates
  <2> QED
    BY <1>1, <2>4, <2>5
<1>5. CASE FailureReported
  BY <1>1, <1>5 DEF FailureReported, TypedTask, TypedWire, wireVars
<1>6. CASE StopEnds \/ StopDown
  BY <1>1, <1>6 DEF StopEnds, StopDown, TypedTask, TypedWire, wireVars, TaskStates
<1> QED
  BY <1>2, <1>3, <1>4, <1>5, <1>6 DEF TaskStep

LEMMA NextTyped == Typed /\ [Next]_vars => Typed'
<1> SUFFICES ASSUME Typed, [Next]_vars PROVE Typed'
  OBVIOUS
<1>1. CASE UNCHANGED vars
  BY <1>1 DEF vars, sourceVars, wireVars, serverVars, taskVars, Typed, TypedSources, TypedQueue,
     TypedWire, TypedServer, TypedTask
<1>2. CASE Next
  BY <1>2, SourceStepsTyped, ChannelStepsTyped, BreaksTyped, HandlerStepsTyped, TaskStepsTyped
     DEF Next
<1> QED
  BY <1>1, <1>2

LEMMA SeqWithin ==
  ASSUME NEW q \in Seq(Items), NEW n \in Nat, Len(q) <= n
  PROVE  q \in ItemSeqs(n)
<1>1. q \in [1..Len(q) -> Items] /\ Len(q) \in 0..n
  OBVIOUS
<1> QED
  BY <1>1 DEF ItemSeqs

LEMMA TypedIsTypeOK == Typed => TypeOK
<1> SUFFICES ASSUME Typed PROVE TypeOK
  OBVIOUS
<1> USE DEF Typed
<1>1. ASSUME NEW u \in Sources
      PROVE  queue[u] \in ItemSeqs(QueueCapacity) /\ hand[u] \in ItemSeqs(BatchSize)
  <2>1. queue[u] \in Seq(Items) /\ Len(queue[u]) <= QueueCapacity
    BY DEF TypedQueue
  <2>2. hand[u] \in Seq(Items) /\ Len(hand[u]) <= BatchSize
    BY DEF TypedServer, Frames
  <2> QED
    BY <2>1, <2>2, SeqWithin, ItemTypes
<1> QED
  BY <1>1 DEF TypedSources, TypedWire, TypedServer, TypedTask, TypeOK

\* The bounded queues keep their capacities, so that a slow reader makes its writers wait,
\* for any capacities and any number of sources.
THEOREM QueuesBounded == Spec => []TypeOK
<1> QED
  BY InitTyped, NextTyped, TypedIsTypeOK, PTL DEF Spec

-----------------------------------------------------------------------------
(* The invariant: numbers a <= b <= c of the last records that the handler has put into *)
(* the input queue, that it has read, and that the sender has taken.                    *)

Nums == 0..(MaxRecords + 1)

\* The records m + 1, ..., n.
Run(m, n) == [k \in 1..(n - m) |-> m + k]

\* close() has put its CLOSE mark.
ClosePut(u) == closing[u] \in {"join", "eos", "drain"} \/ (closing[u] = "no" /\ up[u] = "STOPPED")

\* close() has written the end of the stream.
Final(u) ==
  /\ sender[u] = "done" /\ up[u] \in {"RUNNING", "STOPPING", "STOPPED"}
  /\ closing[u] = "drain" \/ (closing[u] = "no" /\ up[u] = "STOPPED")

\* The end of the stream may follow record n.
EndSound(u, n) == Final(u) /\ sent[u] <= n

\* A frame, or what is left of one, that follows record m and is followed by n + 1.
Carries(u, f, m, n) ==
  \/ m <= n /\ f = Run(m, n)
  \/ m = n /\ f = EndOfStream /\ EndSound(u, n)

\* The queue of the channel, without and with a CLOSE mark at p.
AllQueued(u, c) ==
  \E t \in {sent[u], sent[u] + 1} :
    /\ c <= t /\ queue[u] = Run(c, t)
    /\ t = sent[u] + 1 => ~stray[u] /\ up[u] \notin {"CREATED", "RUNNING"}

MarkQueued(u, c) ==
  /\ ClosePut(u)
  /\ \E p \in DOMAIN queue[u] :
       /\ queue[u][p] = CloseMark /\ sent[u] <= c + p - 1 /\ c + p - 1 <= sent[u] + 1
       /\ \A i \in 1..(p - 1) : queue[u][i] = c + i

QueueHolds(u, c) ==
  /\ sender[u] = "done" => sent[u] <= c /\ c <= sent[u] + 1
  /\ sender[u] # "done" => AllQueued(u, c) \/ MarkQueued(u, c)

FramesHold(u, b, c) ==
  \E g \in [0..Len(frames[u]) -> 0..c] :
    /\ g[0] = b
    /\ line[u] = "open" => g[Len(frames[u])] = c
    /\ \A i \in 1..Len(frames[u]) : Carries(u, frames[u][i], g[i - 1], g[i])

HandHolds(u, a, b) == Carries(u, hand[u], a, b)

\* The input queue has the records after the one processed, in order, and behind them the
\* end of the stream if the handler has put it there.
InputHolds(u, a) ==
  /\ processed[u] <= a
  /\ \A i \in DOMAIN input :
       input[i][1] = u => input[i][2] = EndMark \/ input[i][2] \in (processed[u] + 1)..a
  /\ \A n \in (processed[u] + 1)..a : \E i \in DOMAIN input : input[i] = <<u, n>>
  /\ \A i, j \in DOMAIN input :
       i < j /\ input[i][1] = u /\ input[j][1] = u =>
         input[i][2] # EndMark /\ (input[j][2] = EndMark \/ input[i][2] < input[j][2])

EndQueued(u) == \E i \in DOMAIN input : input[i] = <<u, EndMark>>

InputEnds(u, a) ==
  /\ EndQueued(u) => handler[u] = "ended" /\ EndSound(u, a)
  /\ u \in closed => handler[u] = "ended" /\ \A i \in DOMAIN input : input[i][1] # u

SourceSound(u) ==
  /\ up[u] = "CREATED" => closing[u] = "no" /\ sent[u] = 0
  /\ stray[u] => up[u] \in {"STOPPING", "STOPPED"}
  /\ closing[u] \in {"eos", "drain"} => sender[u] = "done"
  /\ closing[u] \in {"put", "join", "eos", "drain"} => up[u] \in {"RUNNING", "STOPPING"}
  /\ sender[u] = "done" => ClosePut(u)

\* The first frame of a connection is the HELLO, which its handler awaits.
ServerSound(u) ==
  /\ up[u] = "CREATED" => handler[u] = "none"
  /\ handler[u] = "hello" => IF frames[u] = << >> THEN line[u] # "open" ELSE frames[u][1] = Hello
  /\ handler[u] # "reading" => hand[u] = << >>

Stages(u, a, b, c) ==
  /\ QueueHolds(u, c) /\ FramesHold(u, b, c) /\ HandHolds(u, a, b)
  /\ loop = "running" => InputHolds(u, a) /\ InputEnds(u, a)

Flow(u) ==
  /\ SourceSound(u) /\ ServerSound(u)
  /\ \E a, b, c \in Nums : Stages(u, a, b, c)
  /\ u \in closed => EndSound(u, processed[u])

FlowInv == Typed /\ WireInv /\ \A u \in Sources : Flow(u)

-----------------------------------------------------------------------------
(* Runs of records *)

LEMMA NumsType == Nums \subseteq Nat /\ MaxRecords + 1 \in Nums
BY ItemTypes DEF Nums

LEMMA SameSeq ==
  ASSUME NEW S, NEW T, NEW s \in Seq(S), NEW t \in Seq(T), Len(s) = Len(t),
         \A i \in 1..Len(t) : s[i] = t[i]
  PROVE  s = t
OBVIOUS

LEMMA RunFacts ==
  ASSUME NEW m \in Nat, NEW n \in Nat, m <= n
  PROVE  /\ Run(m, n) \in Seq(Nat) /\ Len(Run(m, n)) = n - m /\ DOMAIN Run(m, n) = 1..(n - m)
         /\ \A i \in 1..(n - m) : Run(m, n)[i] = m + i
<1>1. \A i \in 1..(n - m) : m + i \in Nat
  OBVIOUS
<1>2. n - m \in Nat
  OBVIOUS
<1> QED
  BY <1>1, <1>2 DEF Run

LEMMA NoRun == ASSUME NEW m \in Nat PROVE Run(m, m) = << >>
<1>1. Run(m, m) \in Seq(Nat) /\ Len(Run(m, m)) = m - m
  BY RunFacts
<1> QED
  BY <1>1

LEMMA LongerRun ==
  ASSUME NEW m \in Nat, NEW n \in Nat, m <= n
  PROVE  Append(Run(m, n), n + 1) = Run(m, n + 1)
<1> DEFINE r == Run(m, n)
           s == Run(m, n + 1)
<1>1. r \in Seq(Nat) /\ Len(r) = n - m /\ \A i \in 1..(n - m) : r[i] = m + i
  BY RunFacts
<1>2. s \in Seq(Nat) /\ Len(s) = n + 1 - m /\ \A i \in 1..(n + 1 - m) : s[i] = m + i
  BY RunFacts
<1> HIDE DEF r, s
<1>3. Append(r, n + 1) \in Seq(Nat) /\ Len(Append(r, n + 1)) = Len(s)
  BY <1>1, <1>2
<1>4. \A i \in 1..Len(s) : Append(r, n + 1)[i] = s[i]
  BY <1>1, <1>2
<1>5. Append(r, n + 1) = s
  <2>1. PICK t : t = Append(r, n + 1)
    OBVIOUS
  <2>2. t \in Seq(Nat) /\ s \in Seq(Nat) /\ Len(t) = Len(s) /\ \A i \in 1..Len(s) : t[i] = s[i]
    BY <1>2, <1>3, <1>4, <2>1
  <2>3. t = s
    BY <2>2
  <2> QED
    BY <2>1, <2>3
<1> QED
  BY <1>5 DEF r, s

LEMMA PartOfRun ==
  ASSUME NEW m \in Nat, NEW n \in Nat, m <= n, NEW k \in 0..(n - m)
  PROVE  /\ SubSeq(Run(m, n), 1, k) = Run(m, m + k)
         /\ SubSeq(Run(m, n), k + 1, n - m) = Run(m + k, n)
<1> DEFINE r == Run(m, n)
           s == Run(m, m + k)
           t == Run(m + k, n)
<1>1. r \in Seq(Nat) /\ Len(r) = n - m /\ \A i \in 1..(n - m) : r[i] = m + i
  BY RunFacts
<1>0. m + k \in Nat /\ m <= m + k /\ (m + k) - m = k /\ m + k <= n
  OBVIOUS
<1>2. s \in Seq(Nat) /\ Len(s) = k /\ \A i \in 1..k : s[i] = m + i
  <2>1. Len(s) = (m + k) - m /\ \A i \in 1..((m + k) - m) : s[i] = m + i
    BY <1>0, RunFacts
  <2> QED
    BY <1>0, <2>1, RunFacts
<1>3. t \in Seq(Nat) /\ Len(t) = n - (m + k) /\ \A i \in 1..(n - (m + k)) : t[i] = m + k + i
  BY <1>0, RunFacts
<1> HIDE DEF r, s, t
<1>4. SubSeq(r, 1, k) = s
  <2>1. SubSeq(r, 1, k) \in Seq(Nat) /\ Len(SubSeq(r, 1, k)) = k
    BY <1>1
  <2>2. \A i \in 1..k : SubSeq(r, 1, k)[i] = s[i]
    BY <1>1, <1>2
  <2> QED
    BY <1>2, <2>1, <2>2
<1>5. SubSeq(r, k + 1, n - m) = t
  <2>1. SubSeq(r, k + 1, n - m) \in Seq(Nat) /\ Len(SubSeq(r, k + 1, n - m)) = n - (m + k)
    BY <1>1
  <2>2. \A i \in 1..(n - (m + k)) : SubSeq(r, k + 1, n - m)[i] = t[i]
    BY <1>1, <1>3
  <2> QED
    BY <1>3, <2>1, <2>2
<1> QED
  BY <1>4, <1>5 DEF r, s, t

LEMMA RestOfRun ==
  ASSUME NEW m \in Nat, NEW n \in Nat, m < n
  PROVE  /\ Run(m, n) # << >> /\ Head(Run(m, n)) = m + 1
         /\ Tail(Run(m, n)) = Run(m + 1, n)
<1> DEFINE r == Run(m, n)
           t == Run(m + 1, n)
<1>1. r \in Seq(Nat) /\ Len(r) = n - m /\ \A i \in 1..(n - m) : r[i] = m + i
  BY RunFacts
<1>2. t \in Seq(Nat) /\ Len(t) = n - (m + 1) /\ \A i \in 1..(n - (m + 1)) : t[i] = m + 1 + i
  BY RunFacts
<1> HIDE DEF r, t
<1>3. r # << >> /\ Head(r) = m + 1
  BY <1>1
<1>4. Tail(r) \in Seq(Nat) /\ Len(Tail(r)) = Len(t)
  BY <1>1, <1>2, <1>3
<1>5. \A i \in 1..Len(t) : Tail(r)[i] = t[i]
  BY <1>1, <1>2, <1>3
<1>6. Tail(r) = t
  BY <1>2, <1>4, <1>5, SameSeq
<1> QED
  BY <1>3, <1>6 DEF r, t

-----------------------------------------------------------------------------
(* The source and its channel *)

Quiet(u) == UNCHANGED <<up[u], closing[u], stray[u], sent[u], queue[u], sender[u]>>

LEMMA OthersLeaveSource ==
  ASSUME Typed, NEW v \in Sources, [Next]_vars, ~SourceStep(v), ~ChannelStep(v)
  PROVE  Quiet(v)
<1> USE DEF Typed
<1>1. ASSUME NEW u \in Sources, SourceStep(u) PROVE Quiet(v)
  <2>1. u # v
    BY <1>1
  <2>2. CASE Start(u) \/ Send(u) \/ AbortEnds(u) \/ StopInterruptsClose(u) \/ SourceFails(u)
    BY <2>1, <2>2 DEF Start, Send, AbortEnds, StopInterruptsClose, SourceFails, TypedSources,
       TypedQueue, Quiet
  <2>3. CASE SourceEnds(u) \/ StopSource(u)
    BY <2>1, <2>3 DEF SourceEnds, StopSource, BeginsClose, TypedSources, TypedQueue, Quiet
  <2> QED
    BY <1>1, <2>2, <2>3 DEF SourceStep
<1>2. ASSUME NEW u \in Sources, ChannelStep(u) PROVE Quiet(v)
  <2>1. u # v
    BY <1>2
  <2>2. CASE SenderWrites(u)
    BY <2>1, <2>2 DEF SenderWrites, TypedSources, TypedQueue, Quiet
  <2>3. CASE SenderFails(u) \/ StrayPut(u) \/ ClosePuts(u) \/ CloseJoins(u) \/ CloseWrites(u)
    BY <2>1, <2>3 DEF SenderFails, StrayPut, ClosePuts, CloseJoins, CloseWrites, TypedSources,
       TypedQueue, Quiet
  <2>4. CASE CloseFails(u) \/ CloseEnds(u)
    BY <2>1, <2>4 DEF CloseFails, CloseEnds, ClosedAs, TypedSources, TypedQueue, Quiet
  <2> QED
    BY <1>2, <2>2, <2>3, <2>4 DEF ChannelStep
<1>3. CASE UNCHANGED sourceVars
  BY <1>3 DEF sourceVars, Quiet
<1> QED
  BY <1>1, <1>2, <1>3
     DEF Next, vars, Breaks, HandlerStep, Handshakes, HandlerReads, HandlerPuts, HandlerErrors,
         TaskStep, Processes, Finishes, FailureReported, StopCleans, StopEnds, OperatorFails, StopDown

\* What was closed stays closed.
Stays(u) ==
  /\ ClosePut(u) => ClosePut(u)'
  /\ Final(u) => Final(u)' /\ sent'[u] = sent[u]

LEMMA SourceStepSound ==
  ASSUME Typed, NEW u \in Sources, SourceSound(u), SourceStep(u)
  PROVE  SourceSound(u)' /\ Stays(u)
<1> USE DEF Typed, TypedSources, SourceSound, Stays, ClosePut, Final
<1>1. CASE Start(u)
  BY <1>1 DEF Start
<1>2. CASE Send(u)
  BY <1>2 DEF Send, Emitting
<1>3. CASE SourceEnds(u)
  BY <1>3 DEF SourceEnds, Emitting, BeginsClose
<1>4. CASE StopSource(u)
  BY <1>4 DEF StopSource, Emitting, BeginsClose
<1>5. CASE SourceFails(u)
  BY <1>5 DEF SourceFails, Emitting
<1>6. CASE AbortEnds(u)
  BY <1>6 DEF AbortEnds
<1>7. CASE StopInterruptsClose(u)
  BY <1>7 DEF StopInterruptsClose
<1> QED
  BY <1>1, <1>2, <1>3, <1>4, <1>5, <1>6, <1>7 DEF SourceStep

LEMMA ChannelStepSound ==
  ASSUME Typed, NEW u \in Sources, SourceSound(u), ChannelStep(u),
         SenderWrites(u) => (sender'[u] = "done" => ClosePut(u))
  PROVE  SourceSound(u)' /\ Stays(u)
<1> USE DEF Typed, TypedSources, SourceSound, Stays, ClosePut, Final
<1>1. CASE SenderWrites(u)
  BY <1>1 DEF SenderWrites
<1>2. CASE SenderFails(u) \/ StrayPut(u) \/ ClosePuts(u) \/ CloseJoins(u) \/ CloseWrites(u)
  BY <1>2 DEF SenderFails, StrayPut, ClosePuts, CloseJoins, CloseWrites
<1>3. CASE CloseFails(u) \/ CloseEnds(u)
  BY <1>3 DEF CloseFails, CloseEnds, ClosedAs
<1> QED
  BY <1>1, <1>2, <1>3 DEF ChannelStep

LEMMA QuietSound ==
  ASSUME NEW u \in Sources, SourceSound(u), Quiet(u)
  PROVE  SourceSound(u)' /\ Stays(u)
BY DEF Quiet, SourceSound, Stays, ClosePut, Final

\* A queue whose numbers do not change.
LEMMA QueueStays ==
  ASSUME NEW u \in Sources, NEW c \in Nums, QueueHolds(u, c), Stays(u),
         UNCHANGED <<queue[u], sent[u]>>, stray'[u] => stray[u] \/ up[u] = "RUNNING",
         sender'[u] = "done" <=> sender[u] = "done",
         up'[u] \in {"CREATED", "RUNNING"} => up[u] \in {"CREATED", "RUNNING"}
  PROVE  QueueHolds(u, c)'
<1>1. AllQueued(u, c) => AllQueued(u, c)'
  BY DEF AllQueued
<1>2. MarkQueued(u, c) => MarkQueued(u, c)'
  BY DEF MarkQueued, Stays
<1> QED
  BY <1>1, <1>2 DEF QueueHolds

\* While the source runs, its queue has the records and nothing else.
LEMMA NoMarkYet ==
  ASSUME NEW u \in Sources, NEW c \in Nums, SourceSound(u), QueueHolds(u, c), ~ClosePut(u)
  PROVE  sender[u] # "done" /\ AllQueued(u, c)
BY DEF SourceSound, QueueHolds, MarkQueued

LEMMA SendQueues ==
  ASSUME Typed, NEW u \in Sources, NEW c \in Nums, SourceSound(u), QueueHolds(u, c), Send(u)
  PROVE  QueueHolds(u, c)'
<1>1. sender[u] # "done" /\ AllQueued(u, c) /\ up[u] = "RUNNING"
  BY NoMarkYet DEF Send, Emitting, ClosePut
<1>2. c \in Nat /\ sent[u] \in Nat /\ c <= sent[u] /\ queue[u] = Run(c, sent[u])
  BY <1>1, NumsType, ItemTypes DEF AllQueued, Typed, TypedSources
<1>3. queue'[u] = Append(Run(c, sent[u]), sent[u] + 1) /\ sent'[u] = sent[u] + 1 /\ sender'[u] = sender[u]
  BY <1>2 DEF Send, Typed, TypedSources, TypedQueue
<1>4. queue'[u] = Run(c, sent'[u]) /\ c <= sent'[u] /\ sent'[u] # sent'[u] + 1
  BY <1>2, <1>3, LongerRun
<1>5. AllQueued(u, c)'
  BY <1>4 DEF AllQueued
<1> QED
  BY <1>1, <1>3, <1>5 DEF QueueHolds

LEMMA SourceStepQueue ==
  ASSUME Typed, NEW u \in Sources, NEW c \in Nums, SourceSound(u), QueueHolds(u, c), SourceStep(u)
  PROVE  QueueHolds(u, c)'
<1>1. Stays(u)
  BY SourceStepSound
<1>2. CASE Start(u) \/ SourceFails(u) \/ AbortEnds(u) \/ StopInterruptsClose(u)
  <2>1. sender[u] = "none" => up[u] = "CREATED" \/ sender[u] # "done"
    OBVIOUS
  <2>2. sender'[u] = "done" <=> sender[u] = "done"
    BY <1>2 DEF Start, SourceFails, AbortEnds, StopInterruptsClose, Typed, TypedSources,
       SourceSound, ClosePut
  <2> QED
    BY <1>1, <1>2, <2>2, QueueStays DEF Start, SourceFails, AbortEnds, StopInterruptsClose, Typed,
       TypedSources
<1>3. CASE SourceEnds(u) \/ StopSource(u)
  BY <1>1, <1>3, QueueStays DEF SourceEnds, StopSource, BeginsClose, Emitting, Typed, TypedSources
<1>4. CASE Send(u)
  BY <1>4, SendQueues
<1> QED
  BY <1>2, <1>3, <1>4 DEF SourceStep

LEMMA StrayPutQueues ==
  ASSUME Typed, NEW u \in Sources, NEW c \in Nums, SourceSound(u), QueueHolds(u, c), StrayPut(u)
  PROVE  QueueHolds(u, c)'
<1>1. c \in Nat /\ sent[u] \in Nat /\ queue[u] \in Seq(Items) /\ up[u] \in {"STOPPING", "STOPPED"}
  BY NumsType, ItemTypes DEF Typed, TypedSources, TypedQueue, SourceSound, StrayPut
<1>2. /\ queue'[u] = Append(queue[u], sent[u] + 1) /\ ~stray'[u]
      /\ UNCHANGED <<up[u], closing[u], sent[u], sender[u]>>
  BY DEF StrayPut, Typed, TypedSources, TypedQueue
<1>3. ASSUME AllQueued(u, c) PROVE AllQueued(u, c)'
  <2>1. c <= sent[u] /\ queue[u] = Run(c, sent[u])
    BY <1>1, <1>3 DEF AllQueued, StrayPut
  <2>2. Append(Run(c, sent[u]), sent[u] + 1) = Run(c, sent[u] + 1) /\ c <= sent[u] + 1
    <3>1. PICK t \in Nat : t = sent[u]
      BY <1>1
    <3>2. c \in Nat /\ c <= t /\ c <= t + 1
      BY <1>1, <2>1, <3>1
    <3>3. Append(Run(c, t), t + 1) = Run(c, t + 1)
      BY <3>1, <3>2, LongerRun
    <3> QED
      BY <3>1, <3>2, <3>3
  <2>3. queue'[u] = Run(c, sent[u] + 1)
    BY <1>2, <2>1, <2>2
  <2> QED
    BY <1>1, <1>2, <2>2, <2>3 DEF AllQueued
<1>4. ASSUME MarkQueued(u, c) PROVE MarkQueued(u, c)'
  <2>1. PICK p \in DOMAIN queue[u] :
          /\ queue[u][p] = CloseMark /\ sent[u] <= c + p - 1 /\ c + p - 1 <= sent[u] + 1
          /\ \A i \in 1..(p - 1) : queue[u][i] = c + i
    BY <1>4 DEF MarkQueued
  <2>2. /\ p \in DOMAIN queue'[u] /\ queue'[u][p] = queue[u][p]
        /\ \A i \in 1..(p - 1) : queue'[u][i] = queue[u][i]
    <3> DEFINE q == queue[u]
    <3>1. q \in Seq(Items) /\ p \in 1..Len(q) /\ sent[u] + 1 \in Items
      BY <1>1, <2>1, ItemTypes DEF Items, Typed, TypedSources
    <3> HIDE DEF q
    <3>2. \A i \in 1..p : i \in 1..Len(q) /\ Append(q, sent[u] + 1)[i] = q[i]
      BY <3>1
    <3>3. p \in DOMAIN Append(q, sent[u] + 1)
      BY <3>1
    <3> QED
      BY <1>2, <3>1, <3>2, <3>3 DEF q
  <2>3. ClosePut(u)'
    BY <1>2, <1>4 DEF MarkQueued, ClosePut
  <2> QED
    BY <1>2, <2>1, <2>2, <2>3 DEF MarkQueued
<1> QED
  BY <1>2, <1>3, <1>4 DEF QueueHolds

LEMMA ClosePutsQueues ==
  ASSUME Typed, NEW u \in Sources, NEW c \in Nums, SourceSound(u), QueueHolds(u, c), ClosePuts(u)
  PROVE  QueueHolds(u, c)'
<1>1. AllQueued(u, c)
  BY NoMarkYet DEF ClosePuts, ClosePut
<1>2. PICK t \in {sent[u], sent[u] + 1} : c <= t /\ queue[u] = Run(c, t)
  BY <1>1 DEF AllQueued
<1>3. c \in Nat /\ sent[u] \in Nat /\ t \in Nat
  BY <1>2, NumsType, ItemTypes DEF Typed, TypedSources
<1>4. queue'[u] = Append(queue[u], CloseMark) /\ closing'[u] = "join" /\ UNCHANGED <<sent[u], sender[u]>>
  BY DEF ClosePuts, Typed, TypedSources, TypedQueue
<1> DEFINE q == queue[u]
           p == t - c + 1
<1>5. q \in Seq(Items) /\ Len(q) = t - c /\ \A i \in 1..(t - c) : q[i] = c + i
  <2>1. Len(Run(c, t)) = t - c /\ \A i \in 1..(t - c) : Run(c, t)[i] = c + i
    BY <1>2, <1>3, RunFacts
  <2> QED
    BY <1>2, <2>1 DEF Typed, TypedQueue
<1>6. p \in Nat \ {0} /\ p - 1 = t - c /\ c + p - 1 = t
  BY <1>2, <1>3
<1>9. p = Len(q) + 1
  BY <1>5, <1>6
<1> HIDE DEF q, p
<1>7. /\ p \in DOMAIN Append(q, CloseMark) /\ Append(q, CloseMark)[p] = CloseMark
      /\ \A i \in 1..(p - 1) : Append(q, CloseMark)[i] = c + i
  <2>1. Append(q, CloseMark) \in Seq(Items) /\ Len(Append(q, CloseMark)) = p
    BY <1>9, <1>5, ItemTypes
  <2>2. Append(q, CloseMark)[p] = CloseMark /\ \A i \in 1..Len(q) : Append(q, CloseMark)[i] = q[i]
    BY <1>9, <1>5
  <2> QED
    BY <1>5, <1>6, <2>1, <2>2
<1>8. MarkQueued(u, c)'
  <2>1. ClosePut(u)'
    BY <1>4 DEF ClosePut
  <2>2. sent[u] <= c + p - 1 /\ c + p - 1 <= sent[u] + 1
    BY <1>2, <1>3, <1>6
  <2> QED
    BY <1>4, <1>7, <2>1, <2>2 DEF MarkQueued, q
<1> QED
  BY <1>4, <1>8 DEF QueueHolds, ClosePuts

LEMMA PartIndex ==
  ASSUME NEW S, NEW q \in Seq(S), NEW n \in 0..Len(q)
  PROVE  LET r == SubSeq(q, n + 1, Len(q)) IN
         /\ Len(r) = Len(q) - n /\ DOMAIN r = 1..Len(r)
         /\ \A i \in 1..Len(r) : r[i] = q[n + 1 + i - 1]
<1> DEFINE r == SubSeq(q, n + 1, Len(q))
<1>1. n \in Nat /\ Len(q) \in Nat /\ n <= Len(q)
  OBVIOUS
<1>2. r \in Seq(S) /\ Len(r) = Len(q) - n
  BY <1>1
<1>3. \A i \in 1..(Len(q) - n) : r[i] = q[n + 1 + i - 1]
  BY <1>1
<1> HIDE DEF r
<1>4. DOMAIN r = 1..Len(r) /\ \A i \in 1..Len(r) : r[i] = q[n + 1 + i - 1]
  BY <1>2, <1>3
<1> QED
  BY <1>2, <1>4 DEF r

\* What the sender takes of its queue, and leaves of it.
LEMMA TakesRecords ==
  ASSUME Typed, NEW u \in Sources, NEW c \in Nums, AllQueued(u, c), SenderWrites(u),
         NEW n, n = BatchLength(queue[u])
  PROVE  /\ n \in Nat /\ c + n \in Nums /\ SubSeq(queue[u], 1, n) = Run(c, c + n)
         /\ sender'[u] # "done" /\ AllQueued(u, c + n)'
<1>1. PICK t \in {sent[u], sent[u] + 1} :
        /\ c <= t /\ queue[u] = Run(c, t)
        /\ t = sent[u] + 1 => ~stray[u] /\ up[u] \notin {"CREATED", "RUNNING"}
  BY DEF AllQueued
<1>2. c \in Nat /\ t \in Nums /\ t \in Nat
  BY NumsType, ItemTypes DEF Typed, TypedSources, Nums
<1> DEFINE q == queue[u]
<1>3. q \in Seq(Items) /\ Len(q) = t - c
  <2>1. Len(Run(c, t)) = t - c
    BY <1>1, <1>2, RunFacts
  <2> QED
    BY <1>1, <2>1 DEF Typed, TypedQueue
<1>4. \A i \in 1..(t - c) : q[i] = c + i
  <2>1. \A i \in 1..(t - c) : Run(c, t)[i] = c + i
    BY <1>1, <1>2, RunFacts
  <2> QED
    BY <1>1, <2>1
<1> HIDE DEF q
<1>5. /\ n \in 0..BatchSize /\ n <= Len(q)
      /\ n = BatchSize \/ n = Len(q) \/ q[n + 1] = CloseMark
  BY <1>3, BatchLengthType DEF q
<1>6. n \in 0..(t - c) /\ ~(n < BatchSize /\ n < Len(q))
  <2>1. n \in 0..(t - c)
    BY <1>3, <1>5, ItemTypes
  <2>2. ASSUME n < BatchSize, n < Len(q) PROVE FALSE
    <3>1. q[n + 1] = CloseMark
      BY <1>5, <2>2, ItemTypes
    <3>2. n + 1 \in 1..(t - c) /\ c + (n + 1) # 0
      BY <1>2, <1>3, <2>1, <2>2
    <3> QED
      BY <1>4, <3>1, <3>2 DEF CloseMark
  <2> QED
    BY <2>1, <2>2
<1>7. /\ c + n \in Nums /\ c + n <= t /\ n \in Nat
  BY <1>2, <1>6, ItemTypes DEF Nums
<1>8. SubSeq(q, 1, n) = Run(c, c + n) /\ SubSeq(q, n + 1, Len(q)) = Run(c + n, t)
  <2>1. q = Run(c, t)
    BY <1>1 DEF q
  <2>2. SubSeq(Run(c, t), 1, n) = Run(c, c + n) /\ SubSeq(Run(c, t), n + 1, t - c) = Run(c + n, t)
    BY <1>1, <1>2, <1>6, PartOfRun
  <2> QED
    BY <1>3, <2>1, <2>2
<1>9. /\ queue'[u] = SubSeq(q, n + 1, Len(q)) /\ sender'[u] = sender[u] /\ sender[u] = "running"
      /\ UNCHANGED <<sent[u], stray[u], up[u]>>
  BY <1>6 DEF SenderWrites, Typed, TypedSources, TypedQueue, q
<1>10. AllQueued(u, c + n)'
  <2>1. PICK d : d = c + n
    OBVIOUS
  <2>2. AllQueued(u, d)'
    BY <1>1, <1>7, <1>8, <1>9, <2>1 DEF AllQueued
  <2> QED
    BY <2>1, <2>2
<1> QED
  BY <1>7, <1>8, <1>9, <1>10 DEF q

LEMMA TakesMark ==
  ASSUME Typed, NEW u \in Sources, NEW c \in Nums, MarkQueued(u, c), SenderWrites(u),
         NEW n, n = BatchLength(queue[u])
  PROVE  /\ n \in Nat /\ c + n \in Nums /\ SubSeq(queue[u], 1, n) = Run(c, c + n)
         /\ sender'[u] = "done" => sent'[u] <= c + n /\ c + n <= sent'[u] + 1
         /\ sender'[u] # "done" => MarkQueued(u, c + n)'
<1>1. PICK p \in DOMAIN queue[u] :
        /\ queue[u][p] = CloseMark /\ sent[u] <= c + p - 1 /\ c + p - 1 <= sent[u] + 1
        /\ \A i \in 1..(p - 1) : queue[u][i] = c + i
  BY DEF MarkQueued
<1>2. c \in Nat /\ sent[u] \in 0..MaxRecords /\ MaxRecords \in Nat
  BY NumsType, ItemTypes DEF Typed, TypedSources
<1> DEFINE q == queue[u]
<1>3. q \in Seq(Items) /\ p \in 1..Len(q) /\ Len(q) \in Nat
  BY DEF Typed, TypedQueue
<1>4. q[p] = CloseMark /\ \A i \in 1..(p - 1) : q[i] = c + i
  BY <1>1
<1> HIDE DEF q
<1>5. /\ n \in 0..BatchSize /\ n <= Len(q) /\ \A i \in 1..n : q[i] # CloseMark
      /\ n = BatchSize \/ n = Len(q) \/ q[n + 1] = CloseMark
  BY <1>3, BatchLengthType DEF q
<1>6. n \in 0..(p - 1)
  <2>1. n \in Nat /\ p \in Nat
    BY <1>3, <1>5, ItemTypes
  <2>2. p \notin 1..n
    BY <1>4, <1>5
  <2> QED
    BY <1>3, <2>1, <2>2
<1>7. c + n \in Nums /\ n \in Nat /\ (c + n) - c = n /\ c <= c + n
  BY <1>1, <1>2, <1>3, <1>6 DEF Nums
<1>8. SubSeq(q, 1, n) = Run(c, c + n)
  <2>1. Run(c, c + n) \in Seq(Nat) /\ Len(Run(c, c + n)) = n /\ \A i \in 1..n : Run(c, c + n)[i] = c + i
    <3>1. c + n \in Nat
      BY <1>2, <1>7
    <3>2. Len(Run(c, c + n)) = (c + n) - c /\ \A i \in 1..((c + n) - c) : Run(c, c + n)[i] = c + i
      BY <1>2, <1>7, <3>1, RunFacts
    <3>3. Run(c, c + n) \in Seq(Nat)
      BY <1>2, <1>7, <3>1, RunFacts
    <3> QED
      BY <1>7, <3>2, <3>3
  <2>2. SubSeq(q, 1, n) \in Seq(Items) /\ Len(SubSeq(q, 1, n)) = n
    BY <1>3, <1>6, <1>7
  <2>3. \A i \in 1..n : SubSeq(q, 1, n)[i] = c + i
    <3>1. \A i \in 1..n : i \in 1..(p - 1) /\ SubSeq(q, 1, n)[i] = q[i]
      BY <1>3, <1>6, <1>7
    <3> QED
      BY <1>4, <3>1
  <2> QED
    BY <2>1, <2>2, <2>3, SameSeq
<1>9. /\ sender[u] = "running" /\ UNCHANGED <<sent[u], up[u], closing[u]>>
      /\ sender'[u] = IF n < BatchSize /\ n < Len(q) THEN "done" ELSE sender[u]
      /\ queue'[u] = SubSeq(q, IF n < BatchSize /\ n < Len(q) THEN n + 2 ELSE n + 1, Len(q))
  BY DEF SenderWrites, Typed, TypedSources, TypedQueue, q
<1>10. ASSUME sender'[u] = "done" PROVE sent'[u] <= c + n /\ c + n <= sent'[u] + 1
  <2>1. n < BatchSize /\ n < Len(q)
    BY <1>9, <1>10
  <2>2. q[n + 1] = CloseMark
    BY <1>3, <1>5, <2>1, ItemTypes
  <2>3. n + 1 \notin 1..(p - 1)
    <3>1. n + 1 \in 1..(p - 1) => c + (n + 1) # 0
      BY <1>2, <1>7
    <3> QED
      BY <1>4, <2>2, <3>1 DEF CloseMark
  <2>4. n = p - 1
    BY <1>3, <1>6, <2>3
  <2> QED
    BY <1>1, <1>2, <1>3, <1>9, <2>4
<1>11. ASSUME sender'[u] # "done" PROVE MarkQueued(u, c + n)'
  <2>1. ~(n < BatchSize /\ n < Len(q))
    BY <1>9, <1>11
  <2>2. PICK d, o : d = c + n /\ o = p - n
    OBVIOUS
  <2>3. PICK r : r = queue'[u] /\ r = SubSeq(q, n + 1, Len(q))
    BY <1>9, <2>1
  <2>4. /\ Len(r) = Len(q) - n /\ \A i \in 1..Len(r) : r[i] = q[n + i]
        /\ o \in 1..Len(r) /\ n + o = p /\ d + o - 1 = c + p - 1
        /\ DOMAIN r = 1..Len(r)
    <3>1. n \in 0..Len(q) /\ n <= p - 1 /\ p \in Nat
      BY <1>3, <1>6, <1>7
    <3>2. /\ Len(r) = Len(q) - n /\ DOMAIN r = 1..Len(r)
          /\ \A i \in 1..Len(r) : r[i] = q[n + 1 + i - 1]
      <4>1. PICK x : x = q
        OBVIOUS
      <4>2. x \in Seq(Items) /\ n \in 0..Len(x)
        BY <1>3, <3>1, <4>1
      <4>3. r = SubSeq(x, n + 1, Len(x))
        BY <2>3, <4>1
      <4>4. /\ Len(r) = Len(x) - n /\ DOMAIN r = 1..Len(r)
            /\ \A i \in 1..Len(r) : r[i] = x[n + 1 + i - 1]
        BY <4>2, <4>3, PartIndex
      <4>5. \A i \in 1..Len(r) : r[i] = q[n + 1 + i - 1]
        BY <4>1, <4>4
      <4> QED
        BY <4>1, <4>4, <4>5
    <3>3. \A i \in 1..Len(r) : n + 1 + i - 1 = n + i
      BY <3>1, <3>2
    <3>4. o \in Nat /\ d \in Nat /\ n + o = p
      <4>1. c \in Nat /\ n \in Nat /\ p \in Nat /\ n <= p - 1
        BY <1>2, <3>1
      <4>2. c + n \in Nat /\ p - n \in Nat /\ n + (p - n) = p
        BY <4>1
      <4> QED
        BY <2>2, <4>2
    <3>5. o \in 1..Len(r)
      <4>1. p <= Len(q) /\ Len(q) \in Nat /\ n <= p - 1 /\ n \in Nat /\ p \in Nat
        BY <1>3, <3>1
      <4> QED
        BY <3>2, <3>4, <4>1
    <3>6. d + o - 1 = c + p - 1
      <4>1. c \in Nat /\ n \in Nat /\ p \in Nat
        BY <1>2, <3>1
      <4>2. (c + n) + (p - n) - 1 = c + p - 1
        BY <4>1
      <4> QED
        BY <2>2, <4>2
    <3> QED
      BY <3>2, <3>3, <3>4, <3>5, <3>6
  <2>5. \A i \in 1..(o - 1) : r[i] = d + i
    <3>1. \A i \in 1..(o - 1) : i \in 1..Len(r) /\ n + i \in 1..(p - 1) /\ c + (n + i) = d + i
      <4>1. c \in Nat /\ n \in Nat /\ p \in Nat
        BY <1>2, <1>3, <1>7
      <4>2. Len(r) \in Nat /\ o \in 1..Len(r)
        <5>1. Len(q) - n \in Nat
          BY <1>3, <1>6, <1>7
        <5> QED
          BY <2>4, <5>1
      <4>3. \A i \in 1..(o - 1) : i \in Nat /\ i \in 1..Len(r) /\ n + i \in 1..(n + o - 1)
        BY <4>1, <4>2
      <4>4. \A i \in Nat : c + (n + i) = (c + n) + i
        BY <4>1
      <4>5. \A i \in Nat : c + (n + i) = d + i
        BY <2>2, <4>4
      <4>6. n + o - 1 = p - 1
        <5>1. n + o = p
          BY <2>4
        <5>2. n \in Nat /\ p \in Nat /\ o \in Nat
          BY <4>1, <4>2
        <5> QED
          BY <5>1, <5>2
      <4> QED
        BY <4>3, <4>5, <4>6
    <3> QED
      BY <1>4, <2>4, <3>1
  <2>6. ClosePut(u)'
    BY <1>9 DEF MarkQueued, ClosePut
  <2>7. MarkQueued(u, d)'
    BY <1>1, <1>4, <1>9, <2>3, <2>4, <2>5, <2>6 DEF MarkQueued
  <2> QED
    BY <2>2, <2>7
<1> QED
  BY <1>7, <1>8, <1>10, <1>11 DEF q

LEMMA TakesBatch ==
  ASSUME Typed, NEW u \in Sources, NEW c \in Nums, SourceSound(u), QueueHolds(u, c), SenderWrites(u),
         NEW n, n = BatchLength(queue[u])
  PROVE  /\ n \in Nat /\ c + n \in Nums /\ SubSeq(queue[u], 1, n) = Run(c, c + n)
         /\ sender'[u] = "done" => ClosePut(u)
         /\ QueueHolds(u, c + n)'
<1>1. AllQueued(u, c) \/ MarkQueued(u, c)
  BY DEF QueueHolds, SenderWrites
<1>2. CASE AllQueued(u, c)
  BY <1>2, TakesRecords DEF QueueHolds
<1>3. CASE MarkQueued(u, c)
  BY <1>3, TakesMark DEF QueueHolds, MarkQueued
<1> QED
  BY <1>1, <1>2, <1>3

-----------------------------------------------------------------------------
(* The frames on the wire *)

LEMMA CarriesStays ==
  ASSUME NEW u \in Sources, NEW f, NEW m \in Nat, NEW n \in Nat, Stays(u), Carries(u, f, m, n)
  PROVE  Carries(u, f, m, n)'
BY DEF Carries, EndSound, Stays

\* What FramesHold(u, b, c) says, of given frames and of the state after the step.
LEMMA FramesAfter ==
  ASSUME Typed, NEW u \in Sources, NEW b \in Nums, NEW c \in Nums, Stays(u), FramesHold(u, b, c)
  PROVE  \E g \in [0..Len(frames[u]) -> 0..c] :
           /\ g[0] = b
           /\ line[u] = "open" => g[Len(frames[u])] = c
           /\ \A i \in 1..Len(frames[u]) :
                /\ Carries(u, frames[u][i], g[i - 1], g[i])
                /\ \A f : f = frames[u][i] => Carries(u, f, g[i - 1], g[i])'
<1>1. PICK g \in [0..Len(frames[u]) -> 0..c] :
        /\ g[0] = b
        /\ line[u] = "open" => g[Len(frames[u])] = c
        /\ \A i \in 1..Len(frames[u]) : Carries(u, frames[u][i], g[i - 1], g[i])
  BY DEF FramesHold
<1>2. ASSUME NEW i \in 1..Len(frames[u]), NEW f, f = frames[u][i]
      PROVE  Carries(u, f, g[i - 1], g[i])'
  <2>1. Len(frames[u]) \in Nat /\ c \in Nat
    BY NumsType DEF Typed, TypedWire
  <2>2. i - 1 \in 0..Len(frames[u]) /\ i \in 0..Len(frames[u])
    BY <2>1
  <2>3. g[i - 1] \in Nat /\ g[i] \in Nat
    BY <2>1, <2>2
  <2>4. Carries(u, f, g[i - 1], g[i])
    BY <1>1, <1>2
  <2> QED
    BY <2>3, <2>4, CarriesStays
<1> QED
  BY <1>1, <1>2

LEMMA FramesStay ==
  ASSUME Typed, NEW u \in Sources, NEW b \in Nums, NEW c \in Nums, Stays(u), FramesHold(u, b, c),
         frames'[u] = frames[u], line'[u] = "open" => line[u] = "open"
  PROVE  FramesHold(u, b, c)'
<1>1. PICK g \in [0..Len(frames[u]) -> 0..c] :
        /\ g[0] = b
        /\ line[u] = "open" => g[Len(frames[u])] = c
        /\ \A i \in 1..Len(frames[u]) : \A f : f = frames[u][i] => Carries(u, f, g[i - 1], g[i])'
  BY FramesAfter
<1>2. PICK fs : fs = frames[u] /\ fs = frames'[u]
  OBVIOUS
<1>3. \A i \in 1..Len(fs) : Carries(u, fs[i], g[i - 1], g[i])'
  BY <1>1, <1>2
<1> QED
  BY <1>1, <1>2, <1>3 DEF FramesHold

LEMMA FramesCut ==
  ASSUME Typed, NEW u \in Sources, NEW b \in Nums, NEW c \in Nums, Stays(u), FramesHold(u, b, c),
         NEW k \in 0..Len(frames[u]), frames'[u] = SubSeq(frames[u], 1, k), line'[u] # "open"
  PROVE  FramesHold(u, b, c)'
<1>1. PICK g \in [0..Len(frames[u]) -> 0..c] :
        /\ g[0] = b
        /\ line[u] = "open" => g[Len(frames[u])] = c
        /\ \A i \in 1..Len(frames[u]) : \A f : f = frames[u][i] => Carries(u, f, g[i - 1], g[i])'
  BY FramesAfter
<1>2. PICK fs : fs = frames'[u]
  OBVIOUS
<1>3. k \in Nat /\ Len(fs) = k /\ \A i \in 1..k : i \in 1..Len(frames[u]) /\ fs[i] = frames[u][i]
  BY <1>2 DEF Typed, TypedWire
<1> DEFINE h == [i \in 0..k |-> g[i]]
<1>4. h \in [0..Len(fs) -> 0..c] /\ h[0] = b
  BY <1>1, <1>3
<1>5. \A i \in 1..Len(fs) : h[i] = g[i] /\ h[i - 1] = g[i - 1]
  BY <1>3
<1> HIDE DEF h
<1>6. \A i \in 1..Len(fs) : Carries(u, fs[i], h[i - 1], h[i])'
  BY <1>1, <1>3, <1>5
<1> QED
  BY <1>2, <1>4, <1>6 DEF FramesHold

LEMMA FramesTaken ==
  ASSUME Typed, NEW u \in Sources, NEW b \in Nums, NEW c \in Nums, Stays(u), FramesHold(u, b, c),
         frames[u] # << >>, frames'[u] = Tail(frames[u]), line'[u] = line[u]
  PROVE  \E n \in Nums : Carries(u, Head(frames[u]), b, n) /\ FramesHold(u, n, c)'
<1>1. PICK g \in [0..Len(frames[u]) -> 0..c] :
        /\ g[0] = b
        /\ line[u] = "open" => g[Len(frames[u])] = c
        /\ \A i \in 1..Len(frames[u]) :
             /\ Carries(u, frames[u][i], g[i - 1], g[i])
             /\ \A f : f = frames[u][i] => Carries(u, f, g[i - 1], g[i])'
  BY FramesAfter
<1>2. PICK fs : fs = frames'[u]
  OBVIOUS
<1>3. /\ Len(frames[u]) \in Nat \ {0} /\ Len(fs) = Len(frames[u]) - 1
      /\ \A i \in 1..Len(fs) : fs[i] = frames[u][i + 1] /\ i + 1 \in 1..Len(frames[u])
      /\ Head(frames[u]) = frames[u][1]
  BY <1>2 DEF Typed, TypedWire
<1> DEFINE h == [i \in 0..Len(fs) |-> g[i + 1]]
<1>4. h \in [0..Len(fs) -> 0..c] /\ h[0] = g[1] /\ h[Len(fs)] = g[Len(frames[u])] /\ g[1] \in 0..c
  <2>1. Len(fs) \in Nat /\ Len(fs) + 1 = Len(frames[u]) /\ 0 + 1 = 1
    BY <1>3
  <2>2. \A i \in 0..Len(fs) : i + 1 \in 0..Len(frames[u])
    BY <2>1
  <2>3. \A i \in 0..Len(fs) : g[i + 1] \in 0..c
    BY <1>1, <2>2
  <2>4. 0 \in 0..Len(fs) /\ Len(fs) \in 0..Len(fs)
    BY <2>1
  <2> QED
    BY <2>1, <2>3, <2>4
<1>5. \A i \in 1..Len(fs) : h[i] = g[i + 1] /\ h[i - 1] = g[i]
  BY <1>3
<1> HIDE DEF h
<1>6. ASSUME NEW i \in 1..Len(fs) PROVE Carries(u, fs[i], h[i - 1], h[i])'
  <2>1. i + 1 \in 1..Len(frames[u]) /\ fs[i] = frames[u][i + 1] /\ (i + 1) - 1 = i
    BY <1>3
  <2>2. PICK j : j = i + 1
    OBVIOUS
  <2>3. Carries(u, fs[i], g[j - 1], g[j])'
    BY <1>1, <2>1, <2>2
  <2>4. h[i] = g[j] /\ h[i - 1] = g[j - 1]
    BY <1>5, <2>1, <2>2
  <2> QED
    BY <2>3, <2>4
<1>7. g[1] \in Nums
  BY <1>4, NumsType DEF Nums
<1>8. FramesHold(u, g[1], c)'
  BY <1>1, <1>2, <1>4, <1>6 DEF FramesHold
<1>9. Carries(u, Head(frames[u]), b, g[1])
  <2>1. 1 \in 1..Len(frames[u]) /\ 1 - 1 = 0
    BY <1>3
  <2>2. Carries(u, frames[u][1], g[1 - 1], g[1])
    BY <1>1, <2>1
  <2> QED
    BY <1>1, <1>3, <2>1, <2>2
<1> QED
  BY <1>7, <1>8, <1>9

LEMMA FramesAppended ==
  ASSUME Typed, NEW u \in Sources, NEW b \in Nums, NEW c \in Nums, NEW d \in Nums, c <= d, Stays(u),
         FramesHold(u, b, c), NEW e, Carries(u, e, c, d)',
         frames'[u] = Append(frames[u], e), line[u] = "open", line'[u] = line[u]
  PROVE  FramesHold(u, b, d)'
<1>1. PICK g \in [0..Len(frames[u]) -> 0..c] :
        /\ g[0] = b
        /\ line[u] = "open" => g[Len(frames[u])] = c
        /\ \A i \in 1..Len(frames[u]) : \A f : f = frames[u][i] => Carries(u, f, g[i - 1], g[i])'
  BY FramesAfter
<1>2. PICK fs : fs = frames'[u]
  OBVIOUS
<1>3. PICK k \in Nat : k = Len(frames[u])
  BY DEF Typed, TypedWire
<1>4. Len(fs) = k + 1 /\ fs[k + 1] = e /\ \A i \in 1..k : fs[i] = frames[u][i]
  BY <1>2, <1>3 DEF Typed, TypedWire
<1> DEFINE h == [i \in 0..(k + 1) |-> IF i = k + 1 THEN d ELSE g[i]]
<1>5. h \in [0..Len(fs) -> 0..d] /\ h[0] = b /\ h[Len(fs)] = d
  <2>1. \A i \in 0..k : g[i] \in 0..d
    <3>1. c \in Nat /\ d \in Nat /\ \A i \in 0..k : g[i] \in 0..c
      BY <1>1, <1>3, NumsType
    <3> QED
      BY <3>1
  <2>2. \A i \in 0..(k + 1) : i # k + 1 => i \in 0..k
    BY <1>3
  <2>3. d \in 0..d
    BY NumsType
  <2>4. h \in [0..(k + 1) -> 0..d]
    BY <2>1, <2>2, <2>3
  <2>5. 0 \in 0..(k + 1) /\ 0 # k + 1 /\ k + 1 \in 0..(k + 1)
    BY <1>3
  <2> QED
    BY <1>1, <1>4, <2>4, <2>5
<1>6. \A i \in 1..k : h[i] = g[i] /\ h[i - 1] = g[i - 1]
  <2>1. \A i \in 1..k : i \in 0..(k + 1) /\ i # k + 1 /\ i - 1 \in 0..(k + 1) /\ i - 1 # k + 1
    BY <1>3
  <2> QED
    BY <2>1
<1>7. h[k + 1] = d /\ h[k] = c
  BY <1>1, <1>3
<1> HIDE DEF h
<1>8. ASSUME NEW i \in 1..Len(fs) PROVE Carries(u, fs[i], h[i - 1], h[i])'
  <2>1. CASE i \in 1..k
    BY <1>1, <1>3, <1>4, <1>6, <2>1
  <2>2. CASE i \notin 1..k
    <3>1. i = k + 1 /\ i - 1 = k
      BY <1>3, <1>4, <2>2
    <3> QED
      BY <1>4, <1>7, <3>1
  <2> QED
    BY <2>1, <2>2
<1> QED
  BY <1>2, <1>5, <1>8 DEF FramesHold

\* Once the connection is not open any more, what is written is lost.
LEMMA FramesDropped ==
  ASSUME Typed, NEW u \in Sources, NEW b \in Nums, NEW c \in Nums, NEW d \in Nums, c <= d, Stays(u),
         FramesHold(u, b, c), frames'[u] = frames[u], line'[u] # "open"
  PROVE  FramesHold(u, b, d)'
<1>1. PICK g \in [0..Len(frames[u]) -> 0..c] :
        /\ g[0] = b
        /\ line[u] = "open" => g[Len(frames[u])] = c
        /\ \A i \in 1..Len(frames[u]) : \A f : f = frames[u][i] => Carries(u, f, g[i - 1], g[i])'
  BY FramesAfter
<1>2. PICK fs : fs = frames[u] /\ fs = frames'[u]
  OBVIOUS
<1>3. \A i \in 1..Len(fs) : Carries(u, fs[i], g[i - 1], g[i])'
  BY <1>1, <1>2
<1>4. g \in [0..Len(fs) -> 0..d]
  BY <1>1, <1>2, NumsType
<1> QED
  BY <1>1, <1>2, <1>3, <1>4 DEF FramesHold

-----------------------------------------------------------------------------
(* Queue and frames through the steps *)

LEMMA StartUpstream ==
  ASSUME Typed, WireInv, NEW u \in Sources, NEW b \in Nums, NEW c \in Nums, SourceSound(u),
         QueueHolds(u, c), FramesHold(u, b, c), Start(u)
  PROVE  QueueHolds(u, c)' /\ FramesHold(u, b, c)'
<1>1. up[u] = "CREATED" /\ frames[u] = << >>
  BY DEF Start, WireInv
<1>2. sent[u] = 0 /\ AllQueued(u, c)
  BY <1>1, NoMarkYet DEF SourceSound, ClosePut
<1>3. c = 0
  BY <1>1, <1>2, NumsType DEF AllQueued
<1>4. b = 0
  <2>1. PICK g \in [0..Len(frames[u]) -> 0..c] : g[0] = b
    BY DEF FramesHold
  <2>2. 0 \in 0..Len(frames[u])
    BY DEF Typed, TypedWire
  <2>3. b \in 0..c
    BY <2>1, <2>2
  <2> QED
    BY <1>3, <2>3
<1>5. frames'[u] = <<Hello>>
  BY DEF Start, Typed, TypedWire
<1> DEFINE g == [i \in 0..1 |-> 0]
<1>6. PICK fs : fs = frames'[u]
  OBVIOUS
<1>7. Len(fs) = 1 /\ fs[1] = Run(0, 0)
  BY <1>5, <1>6, NoRun DEF Hello
<1>8. \A i \in 1..1 : i = 1 /\ g[i - 1] = 0 /\ g[i] = 0
  OBVIOUS
<1>9. g \in [0..Len(fs) -> 0..c] /\ g[0] = b /\ g[Len(fs)] = c
  BY <1>3, <1>4, <1>7
<1> HIDE DEF g
<1>10. \A i \in 1..Len(fs) : Carries(u, fs[i], g[i - 1], g[i])'
  BY <1>7, <1>8 DEF Carries
<1>11. FramesHold(u, b, c)'
  BY <1>6, <1>9, <1>10 DEF FramesHold
<1> QED
  BY <1>11, SourceStepQueue DEF SourceStep

LEMMA SourceStepUpstream ==
  ASSUME Typed, WireInv, NEW u \in Sources, NEW b \in Nums, NEW c \in Nums, SourceSound(u),
         QueueHolds(u, c), FramesHold(u, b, c), SourceStep(u)
  PROVE  QueueHolds(u, c)' /\ FramesHold(u, b, c)'
<1>1. CASE Start(u)
  BY <1>1, StartUpstream
<1>2. CASE ~Start(u)
  <2>1. frames'[u] = frames[u] /\ (line'[u] = "open" => line[u] = "open")
    <3>1. CASE Send(u) \/ AbortEnds(u)
      BY <3>1 DEF Send, AbortEnds, wireVars
    <3>2. CASE SourceEnds(u) \/ StopSource(u)
      BY <3>2 DEF SourceEnds, StopSource, BeginsClose, Finished, Typed, TypedWire
    <3>3. CASE SourceFails(u) \/ StopInterruptsClose(u)
      BY <3>3 DEF SourceFails, StopInterruptsClose, Finished, Typed, TypedWire
    <3> QED
      BY <1>2, <3>1, <3>2, <3>3 DEF SourceStep
  <2>2. Stays(u)
    BY SourceStepSound
  <2> QED
    BY <2>1, <2>2, SourceStepQueue, FramesStay
<1> QED
  BY <1>1, <1>2

\* The sender writes the records that follow those it has taken.
LEMMA SenderWritesUpstream ==
  ASSUME Typed, NEW u \in Sources, NEW b \in Nums, NEW c \in Nums, SourceSound(u),
         QueueHolds(u, c), FramesHold(u, b, c), SenderWrites(u)
  PROVE  /\ SourceSound(u)' /\ Stays(u)
         /\ \E d \in Nums : QueueHolds(u, d)' /\ FramesHold(u, b, d)'
<1>1. PICK n : n = BatchLength(queue[u])
  OBVIOUS
<1>2. PICK d : d = c + n
  OBVIOUS
<1>3. /\ n \in Nat /\ d \in Nums /\ SubSeq(queue[u], 1, n) = Run(c, d)
      /\ sender'[u] = "done" => ClosePut(u)
  BY <1>1, <1>2, TakesBatch
<1>4. QueueHolds(u, d)'
  BY <1>1, <1>2, TakesBatch
<1>5. SourceSound(u)' /\ Stays(u)
  BY <1>3, ChannelStepSound DEF ChannelStep
<1>6. c \in Nat /\ d \in Nat /\ c <= d
  BY <1>2, <1>3, NumsType
<1>7. line'[u] = line[u]
  BY DEF SenderWrites
<1>8. FramesHold(u, b, d)'
  <2>1. CASE n > 0 /\ line[u] = "open"
    <3>1. frames'[u] = Append(frames[u], Run(c, d))
      BY <1>1, <1>3, <2>1 DEF SenderWrites, Write, Typed, TypedWire
    <3>2. PICK e : e = Run(c, d)
      OBVIOUS
    <3>3. Carries(u, e, c, d)'
      BY <1>6, <3>2 DEF Carries
    <3> QED
      BY <1>3, <1>5, <1>6, <1>7, <2>1, <3>1, <3>2, <3>3, FramesAppended
  <2>2. CASE n > 0 /\ line[u] # "open"
    <3>1. frames'[u] = frames[u]
      BY <1>1, <2>2 DEF SenderWrites, Write, Typed, TypedWire
    <3> QED
      BY <1>3, <1>5, <1>6, <1>7, <2>2, <3>1, FramesDropped
  <2>3. CASE ~(n > 0)
    <3>1. d = c
      BY <1>2, <1>3, <1>6, <2>3
    <3>2. frames'[u] = frames[u]
      BY <1>1, <2>3 DEF SenderWrites
    <3> QED
      BY <1>5, <1>7, <3>1, <3>2, FramesStay
  <2> QED
    BY <2>1, <2>2, <2>3
<1> QED
  BY <1>3, <1>4, <1>5, <1>8

LEMMA CloseWritesUpstream ==
  ASSUME Typed, NEW u \in Sources, NEW b \in Nums, NEW c \in Nums, SourceSound(u),
         QueueHolds(u, c), FramesHold(u, b, c), CloseWrites(u)
  PROVE  QueueHolds(u, c)' /\ FramesHold(u, b, c)'
<1>1. Stays(u)
  BY ChannelStepSound DEF ChannelStep, CloseWrites, SenderWrites, Typed, TypedSources
<1>2. QueueHolds(u, c)'
  BY <1>1, QueueStays DEF CloseWrites
<1>3. line'[u] = line[u]
  BY DEF CloseWrites
<1>4. CASE line[u] = "open"
  <2>1. frames'[u] = Append(frames[u], EndOfStream)
    BY <1>4 DEF CloseWrites, Write, Typed, TypedWire
  <2>2. PICK e : e = EndOfStream
    OBVIOUS
  <2>3. sender[u] = "done" /\ sent[u] <= c /\ up[u] \in {"RUNNING", "STOPPING"}
    BY DEF CloseWrites, SourceSound, QueueHolds
  <2>4. Final(u)' /\ sent'[u] <= c
    BY <2>3 DEF CloseWrites, Final, Typed, TypedSources
  <2>5. Carries(u, e, c, c)'
    BY <2>2, <2>4 DEF Carries, EndSound
  <2>6. c <= c
    BY NumsType
  <2> QED
    BY <1>1, <1>2, <1>3, <1>4, <2>1, <2>2, <2>5, <2>6, FramesAppended
<1>5. CASE line[u] # "open"
  <2>1. frames'[u] = frames[u]
    BY <1>5 DEF CloseWrites, Write, Typed, TypedWire
  <2> QED
    BY <1>1, <1>2, <1>3, <2>1, FramesStay
<1> QED
  BY <1>4, <1>5

LEMMA ChannelStepUpstream ==
  ASSUME Typed, NEW u \in Sources, NEW b \in Nums, NEW c \in Nums, SourceSound(u),
         QueueHolds(u, c), FramesHold(u, b, c), ChannelStep(u)
  PROVE  /\ SourceSound(u)' /\ Stays(u)
         /\ \E d \in Nums : QueueHolds(u, d)' /\ FramesHold(u, b, d)'
<1>1. CASE SenderWrites(u)
  BY <1>1, SenderWritesUpstream
<1>2. CASE ~SenderWrites(u)
  <2>1. SourceSound(u)' /\ Stays(u)
    BY <1>2, ChannelStepSound
  <2>2. CASE CloseWrites(u)
    BY <2>1, <2>2, CloseWritesUpstream
  <2>3. CASE StrayPut(u) \/ ClosePuts(u)
    <3>1. QueueHolds(u, c)'
      BY <2>3, StrayPutQueues, ClosePutsQueues
    <3>2. frames'[u] = frames[u] /\ line'[u] = line[u]
      BY <2>3 DEF StrayPut, ClosePuts, wireVars
    <3> QED
      BY <2>1, <3>1, <3>2, FramesStay
  <2>4. CASE SenderFails(u) \/ CloseJoins(u) \/ CloseFails(u) \/ CloseEnds(u)
    <3>1. /\ UNCHANGED <<queue[u], sent[u], stray[u]>> /\ (sender'[u] = "done" <=> sender[u] = "done")
          /\ up'[u] \in {"CREATED", "RUNNING"} => up[u] \in {"CREATED", "RUNNING"}
      BY <2>4 DEF SenderFails, CloseJoins, CloseFails, CloseEnds, ClosedAs, Typed, TypedSources
    <3>2. QueueHolds(u, c)'
      BY <2>1, <3>1, QueueStays
    <3>3. frames'[u] = frames[u] /\ (line'[u] = "open" => line[u] = "open")
      BY <2>4 DEF SenderFails, CloseJoins, CloseFails, CloseEnds, ClosedAs, wireVars, Finished, Typed,
         TypedWire
    <3> QED
      BY <2>1, <3>2, <3>3, FramesStay
  <2> QED
    BY <1>2, <2>2, <2>3, <2>4 DEF ChannelStep
<1> QED
  BY <1>1, <1>2

\* Steps of others close or cut the connection at most.
LEMMA OthersUpstream ==
  ASSUME Typed, NEW u \in Sources, NEW b \in Nums, NEW c \in Nums, QueueHolds(u, c),
         FramesHold(u, b, c), Stays(u), Quiet(u), Closed(u) \/ Cut(u)
  PROVE  QueueHolds(u, c)' /\ FramesHold(u, b, c)'
<1>1. QueueHolds(u, c)'
  BY QueueStays DEF Quiet
<1>2. CASE Closed(u)
  BY <1>1, <1>2, FramesStay DEF Closed, Finished
<1>3. CASE Cut(u)
  BY <1>1, <1>3, FramesCut DEF Cut
<1> QED
  BY <1>2, <1>3

-----------------------------------------------------------------------------
(* The connection handler *)

LEMMA PutsCut ==
  ASSUME Typed, WireInv, NEW v \in Sources, NEW u \in Sources, HandlerPuts(u)
  PROVE  Closed(v) \/ Cut(v)
<1> USE DEF Typed, TypedWire
<1>1. frames'[v] = frames[v] /\ line'[v] \in {line[v], "cut"}
  BY DEF HandlerPuts
<1>2. CASE line'[v] = line[v]
  BY <1>1, <1>2 DEF Closed
<1>3. CASE line'[v] # line[v]
  <2>1. u = v /\ hand[v] # << >>
    BY <1>3 DEF HandlerPuts
  <2>2. line[v] # "none"
    BY <2>1 DEF WireInv
  <2>3. frames'[v] = SubSeq(frames[v], 1, Len(frames[v])) /\ Len(frames[v]) \in 0..Len(frames[v])
    BY <1>1, WholeAndNone DEF WireInv
  <2> QED
    BY <1>1, <1>3, <2>2, <2>3 DEF Cut
<1> QED
  BY <1>2, <1>3

LEMMA OthersCut ==
  ASSUME Typed, WireInv, NEW v \in Sources, [Next]_vars, ~SourceStep(v), ~ChannelStep(v),
         ~Handshakes(v), ~HandlerReads(v)
  PROVE  Closed(v) \/ Cut(v)
<1> USE DEF Typed, TypedWire
<1>1. ASSUME NEW u \in Sources, u # v, SourceStep(u) PROVE Closed(v)
  <2>1. CASE Start(u) \/ Send(u) \/ AbortEnds(u) \/ StopInterruptsClose(u) \/ SourceFails(u)
    BY <1>1, <2>1 DEF Start, Send, AbortEnds, StopInterruptsClose, SourceFails, wireVars, Closed
  <2>2. CASE SourceEnds(u) \/ StopSource(u)
    BY <1>1, <2>2 DEF SourceEnds, StopSource, BeginsClose, Closed
  <2> QED
    BY <1>1, <2>1, <2>2 DEF SourceStep
<1>2. ASSUME NEW u \in Sources, u # v, ChannelStep(u) PROVE Closed(v)
  <2>1. CASE SenderWrites(u)
    BY <1>2, <2>1 DEF SenderWrites, Write, Closed
  <2>2. CASE SenderFails(u) \/ StrayPut(u) \/ ClosePuts(u) \/ CloseJoins(u) \/ CloseWrites(u)
    BY <1>2, <2>2 DEF SenderFails, StrayPut, ClosePuts, CloseJoins, CloseWrites, Write, wireVars, Closed
  <2>3. CASE CloseFails(u) \/ CloseEnds(u)
    BY <1>2, <2>3 DEF CloseFails, CloseEnds, ClosedAs, Closed
  <2> QED
    BY <1>2, <2>1, <2>2, <2>3 DEF ChannelStep
<1>3. ASSUME NEW u \in Sources, Breaks(u) PROVE Closed(v) \/ Cut(v)
  <2>1. PICK k \in 0..Len(frames[u]) : frames' = [frames EXCEPT ![u] = SubSeq(frames[u], 1, k)]
    BY <1>3 DEF Breaks, Prefixes
  <2>2. CASE u = v
    BY <1>3, <2>1, <2>2 DEF Breaks, Cut
  <2>3. CASE u # v
    BY <1>3, <2>1, <2>3 DEF Breaks, Closed
  <2> QED
    BY <2>2, <2>3
<1>4. ASSUME NEW u \in Sources, u # v, Handshakes(u) \/ HandlerReads(u) PROVE Closed(v)
  BY <1>4 DEF Handshakes, HandlerReads, Closed
<1>5. ASSUME NEW u \in Sources, HandlerPuts(u) PROVE Closed(v) \/ Cut(v)
  BY <1>5, PutsCut
<1>6. ASSUME NEW u \in Sources, HandlerErrors(u) PROVE Closed(v) \/ Cut(v)
  <2>1. CASE down = "FAILED" /\ u # v
    BY <1>6, <2>1 DEF HandlerErrors, Closed
  <2>2. CASE down = "FAILED" /\ u = v
    <3>1. frames'[v] = SubSeq(frames[v], 1, Len(frames[v])) /\ Len(frames[v]) \in 0..Len(frames[v])
      BY <1>6, <2>2, WholeAndNone DEF HandlerErrors, WireInv
    <3> QED
      BY <1>6, <2>2, <3>1 DEF HandlerErrors, Reads, WireInv, Cut
  <2>3. CASE down # "FAILED"
    BY <1>6, <2>3, UnregistersCuts DEF HandlerErrors, Fails
  <2> QED
    BY <2>1, <2>2, <2>3
<1>7. ASSUME TaskStep \/ OperatorFails \/ StopDown PROVE Closed(v) \/ Cut(v)
  <2>1. UNCHANGED wireVars \/ Unregisters
    BY <1>7 DEF TaskStep, Processes, Finishes, FailureReported, StopCleans, StopEnds, OperatorFails,
       Fails, StopDown
  <2> QED
    BY <2>1, UnregistersCuts DEF wireVars, Closed
<1>8. CASE UNCHANGED vars
  BY <1>8 DEF vars, wireVars, Closed
<1> QED
  BY <1>1, <1>2, <1>3, <1>4, <1>5, <1>6, <1>7, <1>8 DEF Next, HandlerStep

LEMMA OthersLeaveHandler ==
  ASSUME Typed, NEW v \in Sources, [Next]_vars, ~Start(v), ~HandlerStep(v)
  PROVE  UNCHANGED <<handler[v], hand[v]>>
<1> USE DEF Typed, TypedServer
<1>1. ASSUME NEW u \in Sources, SourceStep(u) PROVE UNCHANGED <<handler[v], hand[v]>>
  BY <1>1 DEF SourceStep, Start, Send, AbortEnds, StopInterruptsClose, SourceFails, SourceEnds,
     StopSource, serverVars
<1>2. ASSUME NEW u \in Sources, ChannelStep(u) \/ Breaks(u) PROVE UNCHANGED <<handler[v], hand[v]>>
  BY <1>2 DEF ChannelStep, SenderWrites, SenderFails, StrayPut, ClosePuts, CloseJoins, CloseWrites,
     CloseFails, CloseEnds, ClosedAs, Breaks, serverVars
<1>3. ASSUME NEW u \in Sources, HandlerStep(u) PROVE UNCHANGED <<handler[v], hand[v]>>
  <2>1. u # v
    BY <1>3
  <2> QED
    BY <1>3, <2>1 DEF HandlerStep, Handshakes, HandlerReads, HandlerPuts, HandlerErrors
<1>4. ASSUME TaskStep \/ OperatorFails \/ StopDown PROVE UNCHANGED <<handler[v], hand[v]>>
  BY <1>4 DEF TaskStep, Processes, Finishes, FailureReported, StopCleans, StopEnds, OperatorFails,
     StopDown, serverVars
<1>5. CASE UNCHANGED vars
  BY <1>5 DEF vars, serverVars
<1> QED
  BY <1>1, <1>2, <1>3, <1>4, <1>5 DEF Next

\* A HELLO that waits is not lost unless the connection is.
LEMMA ServerStays ==
  ASSUME Typed, NEW v \in Sources, ServerSound(v), Written(v) \/ Closed(v) \/ Cut(v),
         UNCHANGED <<handler[v], hand[v]>>, up'[v] = "CREATED" => up[v] = "CREATED"
  PROVE  ServerSound(v)'
<1>1. ASSUME handler[v] = "hello"
      PROVE  IF frames'[v] = << >> THEN line'[v] # "open" ELSE frames'[v][1] = Hello
  <2>0. frames[v] \in Seq(Frames)
    BY DEF Typed, TypedWire
  <2>1. IF frames[v] = << >> THEN line[v] # "open" ELSE frames[v][1] = Hello
    BY <1>1 DEF ServerSound
  <2>2. CASE Closed(v)
    BY <2>1, <2>2 DEF Closed, Finished
  <2>3. CASE Written(v)
    <3>1. PICK f : frames'[v] = Append(frames[v], f)
      BY <2>3 DEF Written
    <3>2. frames[v] # << >> /\ frames[v][1] = Hello
      BY <2>1, <2>3 DEF Written
    <3>3. frames[v] \in Seq(Frames \cup {f})
      BY <2>0
    <3>4. Append(frames[v], f)[1] = frames[v][1] /\ Append(frames[v], f) # << >>
      BY <3>2, <3>3
    <3> QED
      BY <3>1, <3>2, <3>4
  <2>4. CASE Cut(v)
    <3>1. PICK k \in 0..Len(frames[v]) : frames'[v] = SubSeq(frames[v], 1, k)
      BY <2>4 DEF Cut
    <3>2. CASE k = 0
      BY <2>0, <2>4, <3>1, <3>2 DEF Cut
    <3>3. CASE k # 0
      <4>1. frames[v] # << >> /\ SubSeq(frames[v], 1, k)[1] = frames[v][1]
        BY <2>0, <3>1, <3>3
      <4> QED
        BY <2>1, <2>4, <3>1, <4>1 DEF Cut
    <3> QED
      BY <3>2, <3>3
  <2> QED
    BY <2>2, <2>3, <2>4
<1> QED
  BY <1>1 DEF ServerSound

LEMMA HandStays ==
  ASSUME NEW u \in Sources, NEW a \in Nums, NEW b \in Nums, HandHolds(u, a, b), Stays(u),
         hand'[u] = hand[u]
  PROVE  HandHolds(u, a, b)'
<1>1. PICK f : f = hand[u] /\ f = hand'[u]
  OBVIOUS
<1>2. Carries(u, f, a, b)
  BY <1>1 DEF HandHolds
<1>3. Carries(u, f, a, b)'
  BY <1>2, NumsType, CarriesStays
<1> QED
  BY <1>1, <1>3 DEF HandHolds

\* An empty frame carries nothing.
LEMMA NothingCarried ==
  ASSUME NEW u \in Sources, NEW m \in Nat, NEW n \in Nat, Carries(u, << >>, m, n)
  PROVE  m = n
<1>1. << >> # EndOfStream
  BY DEF EndOfStream
<1>2. CASE m <= n /\ << >> = Run(m, n)
  <2>1. Len(Run(m, n)) = n - m /\ Len(<< >>) = 0
    BY <1>2, RunFacts
  <2> QED
    BY <1>2, <2>1
<1> QED
  BY <1>1, <1>2 DEF Carries

LEMMA HandshakesFlow ==
  ASSUME Typed, WireInv, NEW u \in Sources, NEW a \in Nums, NEW b \in Nums, NEW c \in Nums,
         ServerSound(u), FramesHold(u, b, c), HandHolds(u, a, b), Stays(u), Handshakes(u)
  PROVE  ServerSound(u)' /\ FramesHold(u, b, c)' /\ HandHolds(u, a, b)'
<1>1. HandHolds(u, a, b)'
  BY HandStays DEF Handshakes
<1>2. handler[u] = "hello" /\ hand[u] = << >> /\ hand' = hand /\ up' = up /\ up[u] # "CREATED"
  BY DEF Handshakes, sourceVars, ServerSound
<1>3. ServerSound(u)'
  BY <1>2 DEF Handshakes, ServerSound, Typed, TypedServer
<1>4. CASE frames[u] # << >> /\ frames' = [frames EXCEPT ![u] = Tail(@)] /\ line' = line
  <2>1. frames'[u] = Tail(frames[u]) /\ line'[u] = line[u]
    BY <1>4 DEF Typed, TypedWire
  <2>2. Head(frames[u]) = << >>
    BY <1>2, <1>4 DEF ServerSound, Hello, Typed, TypedWire
  <2>3. PICK n \in Nums : Carries(u, Head(frames[u]), b, n) /\ FramesHold(u, n, c)'
    BY <1>4, <2>1, FramesTaken
  <2>4. n = b
    BY <2>2, <2>3, NothingCarried, NumsType
  <2> QED
    BY <1>1, <1>3, <2>3, <2>4
<1>5. CASE frames' = [frames EXCEPT ![u] = << >>] /\ line' = [line EXCEPT ![u] = "cut"]
  <2>1. frames'[u] = SubSeq(frames[u], 1, 0) /\ 0 \in 0..Len(frames[u]) /\ line'[u] # "open"
    BY <1>5, WholeAndNone DEF WireInv, Typed, TypedWire
  <2>2. FramesHold(u, b, c)'
    BY <2>1, FramesCut
  <2> QED
    BY <1>1, <1>3, <2>2
<1> QED
  BY <1>4, <1>5 DEF Handshakes

LEMMA HandlerReadsFlow ==
  ASSUME Typed, WireInv, NEW u \in Sources, NEW a \in Nums, NEW b \in Nums, NEW c \in Nums,
         ServerSound(u), FramesHold(u, b, c), HandHolds(u, a, b), Stays(u), HandlerReads(u)
  PROVE  /\ ServerSound(u)'
         /\ \E n \in Nums : FramesHold(u, n, c)' /\ HandHolds(u, a, n)'
<1>1. /\ handler[u] = "reading" /\ hand[u] = << >> /\ frames[u] # << >> /\ up' = up
      /\ handler' = handler /\ frames'[u] = Tail(frames[u]) /\ line'[u] = line[u]
      /\ hand'[u] = Head(frames[u])
  BY DEF HandlerReads, Reads, sourceVars, Typed, TypedWire, TypedServer
<1>2. ServerSound(u)'
  BY <1>1 DEF ServerSound
<1>3. a = b
  BY <1>1, NothingCarried, NumsType DEF HandHolds
<1>4. PICK n \in Nums : Carries(u, Head(frames[u]), b, n) /\ FramesHold(u, n, c)'
  BY <1>1, FramesTaken
<1>5. PICK f : f = Head(frames[u])
  OBVIOUS
<1>6. Carries(u, f, b, n)'
  BY <1>4, <1>5, CarriesStays, NumsType
<1>7. HandHolds(u, a, n)'
  BY <1>1, <1>3, <1>5, <1>6 DEF HandHolds
<1> QED
  BY <1>2, <1>4, <1>7

-----------------------------------------------------------------------------
(* The input queue *)

LEMMA InputStays ==
  ASSUME NEW u \in Sources, NEW a \in Nums, InputHolds(u, a), InputEnds(u, a), Stays(u),
         UNCHANGED <<input, processed[u]>>, u \in closed' => u \in closed,
         handler[u] = "ended" => handler'[u] = "ended"
  PROVE  InputHolds(u, a)' /\ InputEnds(u, a)'
<1>1. InputHolds(u, a)'
  BY DEF InputHolds
<1>2. EndSound(u, a) => EndSound(u, a)'
  BY DEF EndSound, Stays
<1> QED
  BY <1>1, <1>2 DEF InputEnds, EndQueued

LEMMA AppendIndex ==
  ASSUME NEW S, NEW q \in Seq(S), NEW e \in S, NEW r, r = Append(q, e)
  PROVE  \E k \in Nat \ {0} :
           /\ k = Len(q) + 1 /\ r[k] = e /\ k \in DOMAIN r /\ k \notin DOMAIN q
           /\ \A i \in DOMAIN r : i = k \/ (i \in DOMAIN q /\ i < k)
           /\ \A i \in DOMAIN q : i \in DOMAIN r /\ r[i] = q[i]
<1>1. Len(q) + 1 \in Nat \ {0}
  OBVIOUS
<1>2. r[Len(q) + 1] = e /\ Len(r) = Len(q) + 1 /\ r \in Seq(S)
  OBVIOUS
<1>3. \A i \in DOMAIN q : i \in DOMAIN r /\ r[i] = q[i]
  OBVIOUS
<1>4. DOMAIN q = 1..Len(q) /\ DOMAIN r = 1..(Len(q) + 1)
  BY <1>2
<1>5. \A i \in DOMAIN r : i = Len(q) + 1 \/ (i \in DOMAIN q /\ i < Len(q) + 1)
  BY <1>1, <1>4
<1> QED
  BY <1>1, <1>2, <1>3, <1>4, <1>5

LEMMA TailIndex ==
  ASSUME NEW S, NEW q \in Seq(S), q # << >>, NEW r, r = Tail(q)
  PROVE  /\ 1 \in DOMAIN q /\ Head(q) = q[1] /\ DOMAIN q \subseteq Nat /\ DOMAIN r \subseteq Nat
         /\ \A i \in DOMAIN r : i + 1 \in DOMAIN q /\ r[i] = q[i + 1] /\ 1 < i + 1
         /\ \A i \in DOMAIN q : i # 1 => 1 < i /\ i - 1 \in DOMAIN r /\ r[i - 1] = q[i]
<1>1. Len(q) \in Nat \ {0} /\ DOMAIN q = 1..Len(q) /\ Head(q) = q[1]
  OBVIOUS
<1>2. DOMAIN r = 1..(Len(q) - 1) /\ \A i \in 1..(Len(q) - 1) : r[i] = q[i + 1]
  OBVIOUS
<1>3. \A i \in DOMAIN r : i + 1 \in DOMAIN q /\ 1 < i + 1
  BY <1>1, <1>2
<1>4. \A i \in DOMAIN q : i # 1 => 1 < i /\ i - 1 \in DOMAIN r /\ (i - 1) + 1 = i
  BY <1>1, <1>2
<1> QED
  BY <1>1, <1>2, <1>3, <1>4

\* What a handler appends to the input queue r is behind everything in it, q.
Appended(q, r, x) ==
  \E k \in Nat \ {0} :
    /\ r[k] = x /\ k \in DOMAIN r
    /\ \A i \in DOMAIN r : i = k \/ (i \in DOMAIN q /\ i < k)
    /\ \A i \in DOMAIN q : i \in DOMAIN r /\ r[i] = q[i]

LEMMA ItemAppended ==
  ASSUME NEW S, NEW q \in Seq(S), NEW x, NEW r, x \in S, r = Append(q, x)
  PROVE  Appended(q, r, x)
<1>1. PICK k \in Nat \ {0} :
        /\ k = Len(q) + 1 /\ r[k] = x /\ k \in DOMAIN r /\ k \notin DOMAIN q
        /\ \A i \in DOMAIN r : i = k \/ (i \in DOMAIN q /\ i < k)
        /\ \A i \in DOMAIN q : i \in DOMAIN r /\ r[i] = q[i]
  BY AppendIndex
<1> QED
  BY <1>1 DEF Appended

\* Another handler puts an item.
LEMMA OthersPut ==
  ASSUME Typed, NEW u \in Sources, NEW w \in Sources, w # u, NEW e \in Items, NEW a \in Nums,
         InputHolds(u, a), InputEnds(u, a), Stays(u), input' = Append(input, <<w, e>>),
         UNCHANGED <<processed, closed>>, handler[u] = "ended" => handler'[u] = "ended"
  PROVE  InputHolds(u, a)' /\ InputEnds(u, a)'
<1>1. PICK q, r : q = input /\ r = input'
  OBVIOUS
<1>2. q \in Seq(Sources \X Items) /\ r = Append(q, <<w, e>>)
  BY <1>1 DEF Typed, TypedTask
<1>3. PICK k \in Nat \ {0} :
        /\ r[k] = <<w, e>> /\ k \in DOMAIN r
        /\ \A i \in DOMAIN r : i = k \/ (i \in DOMAIN q /\ i < k)
        /\ \A i \in DOMAIN q : i \in DOMAIN r /\ r[i] = q[i]
  <2>1. PICK x, S : x = <<w, e>> /\ S = Sources \X Items
    OBVIOUS
  <2>2. q \in Seq(S) /\ x \in S /\ r = Append(q, x)
    BY <1>2, <2>1
  <2>3. Appended(q, r, x)
    BY <2>2, ItemAppended
  <2> QED
    BY <2>1, <2>3 DEF Appended
<1>4. r[k][1] # u /\ r[k] # <<u, EndMark>>
  BY <1>3
<1>5. \A i \in DOMAIN r : r[i][1] = u => i \in DOMAIN q /\ r[i] = q[i] /\ q[i][1] = u
  BY <1>3, <1>4
<1>6. InputHolds(u, a)'
  <2>1. \A i \in DOMAIN r : r[i][1] = u => r[i][2] = EndMark \/ r[i][2] \in (processed[u] + 1)..a
    BY <1>1, <1>5 DEF InputHolds
  <2>2. \A n \in (processed[u] + 1)..a : \E i \in DOMAIN r : r[i] = <<u, n>>
    <3> SUFFICES ASSUME NEW n \in (processed[u] + 1)..a PROVE \E i \in DOMAIN r : r[i] = <<u, n>>
      OBVIOUS
    <3>1. PICK i \in DOMAIN q : q[i] = <<u, n>>
      BY <1>1 DEF InputHolds
    <3>2. i \in DOMAIN r /\ r[i] = <<u, n>>
      BY <1>3, <3>1
    <3> QED
      BY <3>2
  <2>3. \A i, j \in DOMAIN r : i < j /\ r[i][1] = u /\ r[j][1] = u =>
          r[i][2] # EndMark /\ (r[j][2] = EndMark \/ r[i][2] < r[j][2])
    BY <1>1, <1>5 DEF InputHolds
  <2> QED
    BY <1>1, <2>1, <2>2, <2>3 DEF InputHolds
<1>7. EndQueued(u)' => EndQueued(u)
  BY <1>1, <1>5 DEF EndQueued
<1>8. EndSound(u, a) => EndSound(u, a)'
  BY DEF EndSound, Stays
<1>9. u \in closed' => handler'[u] = "ended" /\ \A i \in DOMAIN r : r[i][1] # u
  BY <1>1, <1>5 DEF InputEnds
<1> QED
  BY <1>1, <1>6, <1>7, <1>8, <1>9 DEF InputEnds

\* Its own handler puts the next record.
LEMMA PutsRecord ==
  ASSUME Typed, NEW u \in Sources, NEW a \in Nums, a + 1 \in Nums, InputHolds(u, a), InputEnds(u, a),
         handler[u] # "ended", input' = Append(input, <<u, a + 1>>), UNCHANGED <<processed, closed>>
  PROVE  \A d : d = a + 1 => InputHolds(u, d)' /\ InputEnds(u, d)'
<1> SUFFICES ASSUME NEW d, d = a + 1 PROVE InputHolds(u, d)' /\ InputEnds(u, d)'
  OBVIOUS
<1>0. a \in Nat /\ d \in Nat /\ a < d /\ processed[u] \in Nat /\ processed[u] <= a /\ d # EndMark
      /\ d \in Items
  BY NumsType, ItemTypes DEF Typed, TypedTask, InputHolds, EndMark, Nums, Items
<1>1. PICK q, r : q = input /\ r = input'
  OBVIOUS
<1>2. q \in Seq(Sources \X Items) /\ r = Append(q, <<u, d>>)
  BY <1>1 DEF Typed, TypedTask
<1>3. PICK k \in Nat \ {0} :
        /\ r[k] = <<u, d>> /\ k \in DOMAIN r
        /\ \A i \in DOMAIN r : i = k \/ (i \in DOMAIN q /\ i < k)
        /\ \A i \in DOMAIN q : i \in DOMAIN r /\ r[i] = q[i]
  <2>1. PICK x, S : x = <<u, d>> /\ S = Sources \X Items
    OBVIOUS
  <2>2. q \in Seq(S) /\ x \in S /\ r = Append(q, x)
    BY <1>0, <1>2, <2>1
  <2>3. Appended(q, r, x)
    BY <2>2, ItemAppended
  <2> QED
    BY <2>1, <2>3 DEF Appended
<1>4. u \notin closed /\ ~EndQueued(u)
  BY DEF InputEnds
<1>5. ASSUME NEW i \in DOMAIN q, q[i][1] = u
      PROVE  q[i][2] # EndMark /\ q[i][2] \in (processed[u] + 1)..a /\ q[i][2] \in Int /\ q[i][2] < d
  <2>1. q[i] \in Sources \X Items
    BY <1>2
  <2>2. q[i] = <<q[i][1], q[i][2]>>
    BY <2>1
  <2>3. q[i][2] # EndMark
    BY <1>1, <1>4, <1>5, <2>2 DEF EndQueued
  <2>4. q[i][2] \in (processed[u] + 1)..a
    BY <1>1, <1>5, <2>3 DEF InputHolds
  <2> QED
    BY <1>0, <2>3, <2>4
<1>6. ASSUME NEW i \in DOMAIN r, r[i][1] = u
      PROVE  r[i][2] # EndMark /\ r[i][2] \in (processed[u] + 1)..d
  <2>1. CASE i = k
    BY <1>0, <1>3, <2>1
  <2>2. CASE i \in DOMAIN q
    BY <1>0, <1>3, <1>5, <1>6, <2>2
  <2> QED
    BY <1>3, <2>1, <2>2
<1>7. ASSUME NEW n \in (processed[u] + 1)..d PROVE \E i \in DOMAIN r : r[i] = <<u, n>>
  <2>1. CASE n = d
    BY <1>3, <2>1
  <2>2. CASE n # d
    <3>1. n \in (processed[u] + 1)..a
      BY <1>0, <2>2
    <3> QED
      BY <1>1, <1>3, <3>1 DEF InputHolds
  <2> QED
    BY <2>1, <2>2
<1>8. ASSUME NEW i \in DOMAIN r, NEW j \in DOMAIN r, i < j, r[i][1] = u, r[j][1] = u
      PROVE  r[i][2] < r[j][2]
  <2>1. i \in DOMAIN q /\ r[i] = q[i]
    BY <1>2, <1>3, <1>8
  <2>2. CASE j = k
    BY <1>3, <1>5, <1>8, <2>1, <2>2
  <2>3. CASE j \in DOMAIN q
    <3>1. r[j] = q[j]
      BY <1>3, <2>3
    <3> QED
      BY <1>1, <1>5, <1>8, <2>1, <2>3, <3>1 DEF InputHolds
  <2> QED
    BY <1>3, <2>2, <2>3
<1>9. InputHolds(u, d)'
  <2>1. processed'[u] = processed[u] /\ processed[u] <= d
    BY <1>0
  <2>2. \A i, j \in DOMAIN r : i < j /\ r[i][1] = u /\ r[j][1] = u =>
          r[i][2] # EndMark /\ r[i][2] < r[j][2]
    BY <1>6, <1>8
  <2> QED
    BY <1>1, <1>6, <1>7, <2>1, <2>2 DEF InputHolds
<1>10. InputEnds(u, d)'
  <2>1. ~EndQueued(u)'
    BY <1>1, <1>6 DEF EndQueued
  <2> QED
    BY <1>4, <2>1 DEF InputEnds
<1> QED
  BY <1>9, <1>10

\* It puts the end of the stream and reads no more.
LEMMA PutsEnd ==
  ASSUME Typed, NEW u \in Sources, NEW a \in Nums, InputHolds(u, a), InputEnds(u, a),
         handler[u] # "ended", handler'[u] = "ended", EndSound(u, a), Stays(u),
         input' = Append(input, <<u, EndMark>>), UNCHANGED <<processed, closed>>
  PROVE  InputHolds(u, a)' /\ InputEnds(u, a)'
<1>1. PICK q, r : q = input /\ r = input'
  OBVIOUS
<1>2. q \in Seq(Sources \X Items) /\ r = Append(q, <<u, EndMark>>)
  BY <1>1 DEF Typed, TypedTask
<1>3. PICK k \in Nat \ {0} :
        /\ r[k] = <<u, EndMark>> /\ k \in DOMAIN r
        /\ \A i \in DOMAIN r : i = k \/ (i \in DOMAIN q /\ i < k)
        /\ \A i \in DOMAIN q : i \in DOMAIN r /\ r[i] = q[i]
  <2>1. PICK x, S : x = <<u, EndMark>> /\ S = Sources \X Items
    OBVIOUS
  <2>2. q \in Seq(S) /\ x \in S /\ r = Append(q, x)
    BY <1>2, <2>1, ItemTypes
  <2>3. Appended(q, r, x)
    BY <2>2, ItemAppended
  <2> QED
    BY <2>1, <2>3 DEF Appended
<1>4. u \notin closed /\ ~EndQueued(u)
  BY DEF InputEnds
<1>5. ASSUME NEW i \in DOMAIN q, q[i][1] = u PROVE q[i][2] # EndMark
  <2>1. q[i] \in Sources \X Items
    BY <1>2
  <2>2. q[i] = <<q[i][1], q[i][2]>>
    BY <2>1
  <2> QED
    BY <1>1, <1>4, <1>5, <2>2 DEF EndQueued
<1>6. \A i \in DOMAIN r : r[i][1] = u => r[i][2] = EndMark \/ r[i][2] \in (processed[u] + 1)..a
  BY <1>1, <1>3 DEF InputHolds
<1>7. \A n \in (processed[u] + 1)..a : \E i \in DOMAIN r : r[i] = <<u, n>>
  BY <1>1, <1>3 DEF InputHolds
<1>8. ASSUME NEW i \in DOMAIN r, NEW j \in DOMAIN r, i < j, r[i][1] = u, r[j][1] = u
      PROVE  r[i][2] # EndMark /\ (r[j][2] = EndMark \/ r[i][2] < r[j][2])
  <2>1. i \in DOMAIN q /\ r[i] = q[i]
    <3>1. j \in Nat /\ i \in Nat /\ j <= k
      BY <1>2, <1>3
    <3> QED
      BY <1>3, <1>8, <3>1
  <2>2. CASE j = k
    BY <1>3, <1>5, <1>8, <2>1, <2>2
  <2>3. CASE j \in DOMAIN q
    <3>1. r[j] = q[j]
      BY <1>3, <2>3
    <3> QED
      BY <1>1, <1>5, <1>8, <2>1, <2>3, <3>1 DEF InputHolds
  <2> QED
    BY <1>3, <2>2, <2>3
<1>9. InputHolds(u, a)'
  BY <1>1, <1>6, <1>7, <1>8 DEF InputHolds
<1>10. EndSound(u, a)'
  BY DEF EndSound, Stays
<1> QED
  BY <1>4, <1>9, <1>10 DEF InputEnds

\* What Processes takes: an item of another source.
LEMMA OtherProcessed ==
  ASSUME Typed, NEW u \in Sources, NEW a \in Nums, InputHolds(u, a), InputEnds(u, a), Stays(u),
         Processes, Head(input)[1] # u
  PROVE  /\ processed'[u] = processed[u] /\ (u \in closed' <=> u \in closed)
         /\ InputHolds(u, a)' /\ InputEnds(u, a)'
<1>1. PICK q, r : q = input /\ r = input'
  OBVIOUS
<1>2. q \in Seq(Sources \X Items) /\ q # << >> /\ r = Tail(q) /\ q[1][1] # u /\ handler' = handler
  BY <1>1 DEF Typed, TypedTask, Processes, serverVars
<1>3. processed'[u] = processed[u] /\ (u \in closed' <=> u \in closed)
  BY DEF Processes, Typed, TypedTask
<1>4. /\ \A i \in DOMAIN r : i + 1 \in DOMAIN q /\ r[i] = q[i + 1] /\ 1 < i + 1
      /\ \A i \in DOMAIN q : i # 1 => i - 1 \in DOMAIN r /\ r[i - 1] = q[i]
      /\ DOMAIN r \subseteq Nat
  BY <1>2, TailIndex
<1>5. \A i, j \in DOMAIN r : i < j => i + 1 < j + 1
  BY <1>4
<1>6. \A n \in (processed[u] + 1)..a : \E i \in DOMAIN r : r[i] = <<u, n>>
  <2> TAKE n \in (processed[u] + 1)..a
  <2>1. PICK i \in DOMAIN q : q[i] = <<u, n>>
    BY <1>1 DEF InputHolds
  <2>2. i # 1
    BY <1>2, <2>1
  <2> QED
    BY <1>4, <2>1, <2>2
<1>7. \A i \in DOMAIN r : r[i][1] = u => r[i][2] = EndMark \/ r[i][2] \in (processed[u] + 1)..a
  BY <1>1, <1>4 DEF InputHolds
<1>8. \A i, j \in DOMAIN r : i < j /\ r[i][1] = u /\ r[j][1] = u =>
        r[i][2] # EndMark /\ (r[j][2] = EndMark \/ r[i][2] < r[j][2])
  BY <1>1, <1>4, <1>5 DEF InputHolds
<1>9. InputHolds(u, a)'
  <2>1. processed[u] <= a
    BY DEF InputHolds
  <2> QED
    BY <1>1, <1>3, <1>6, <1>7, <1>8, <2>1 DEF InputHolds
<1>10. EndSound(u, a) => EndSound(u, a)'
  BY DEF EndSound, Stays
<1>11. InputEnds(u, a)'
  BY <1>1, <1>2, <1>3, <1>4, <1>10 DEF InputEnds, EndQueued
<1> QED
  BY <1>3, <1>9, <1>11

\* The end of the stream: no record is left behind it.
LEMMA EndProcessed ==
  ASSUME Typed, NEW u \in Sources, NEW a \in Nums, InputHolds(u, a), InputEnds(u, a), Stays(u),
         Processes, Head(input)[1] = u, Head(input)[2] = EndMark
  PROVE  /\ processed'[u] = processed[u] /\ u \notin closed /\ EndSound(u, processed[u])
         /\ InputHolds(u, a)' /\ InputEnds(u, a)'
<1>1. PICK q, r : q = input /\ r = input'
  OBVIOUS
<1>2. q \in Seq(Sources \X Items) /\ q # << >> /\ r = Tail(q) /\ handler' = handler
  BY <1>1 DEF Typed, TypedTask, Processes, serverVars
<1>3. /\ 1 \in DOMAIN q /\ Head(q) = q[1] /\ DOMAIN q \subseteq Nat
      /\ \A i \in DOMAIN r : i + 1 \in DOMAIN q /\ r[i] = q[i + 1] /\ 1 < i + 1
      /\ \A i \in DOMAIN q : i # 1 => 1 < i
  BY <1>2, TailIndex
<1>4. q[1][1] = u /\ q[1][2] = EndMark /\ q[1] = <<u, EndMark>>
  <2>1. q[1] \in Sources \X Items
    BY <1>2, <1>3
  <2>2. q[1] = <<q[1][1], q[1][2]>>
    BY <2>1
  <2> QED
    BY <1>1, <1>3, <2>2
<1>5. \A j \in DOMAIN q : j # 1 => q[j][1] # u
  BY <1>1, <1>3, <1>4 DEF InputHolds
<1>6. processed'[u] = processed[u] /\ u \notin closed
  BY <1>1, <1>3, <1>4 DEF Processes, InputEnds
<1>7. handler[u] = "ended" /\ EndSound(u, a)
  BY <1>1, <1>3, <1>4 DEF InputEnds, EndQueued
<1>8. processed[u] = a
  <2>1. processed[u] \in Nat /\ a \in Nat /\ processed[u] <= a
    BY NumsType, ItemTypes DEF Typed, TypedTask, InputHolds
  <2>2. ASSUME processed[u] < a PROVE FALSE
    <3>1. a \in (processed[u] + 1)..a
      BY <2>1, <2>2
    <3>2. PICK i \in DOMAIN q : q[i] = <<u, a>>
      BY <1>1, <3>1 DEF InputHolds
    <3>3. i = 1
      BY <1>5, <3>2
    <3> QED
      BY <1>4, <2>1, <3>2, <3>3 DEF EndMark
  <2> QED
    BY <2>1, <2>2
<1>9. \A i \in DOMAIN r : r[i][1] # u
  <2>1. \A i \in DOMAIN r : i + 1 # 1
    BY <1>3
  <2> QED
    BY <1>3, <1>5, <2>1
<1>10. InputHolds(u, a)'
  <2>1. (processed[u] + 1)..a = {} /\ processed[u] <= a
    BY <1>8, NumsType
  <2> QED
    BY <1>1, <1>6, <1>9, <2>1 DEF InputHolds
<1>11. InputEnds(u, a)'
  BY <1>1, <1>2, <1>7, <1>9 DEF InputEnds, EndQueued
<1> QED
  BY <1>6, <1>7, <1>8, <1>10, <1>11

\* A record: the next one.
LEMMA RecordProcessed ==
  ASSUME Typed, NEW u \in Sources, NEW a \in Nums, InputHolds(u, a), InputEnds(u, a), Stays(u),
         Processes, Head(input)[1] = u, Head(input)[2] # EndMark
  PROVE  /\ processed'[u] = processed[u] + 1 /\ u \notin closed /\ u \notin closed'
         /\ InputHolds(u, a)' /\ InputEnds(u, a)'
<1>1. PICK q, r : q = input /\ r = input'
  OBVIOUS
<1>2. q \in Seq(Sources \X Items) /\ q # << >> /\ r = Tail(q) /\ handler' = handler
  BY <1>1 DEF Typed, TypedTask, Processes, serverVars
<1>3. /\ 1 \in DOMAIN q /\ Head(q) = q[1] /\ DOMAIN q \subseteq Nat /\ DOMAIN r \subseteq Nat
      /\ \A i \in DOMAIN r : i + 1 \in DOMAIN q /\ r[i] = q[i + 1] /\ 1 < i + 1
      /\ \A i \in DOMAIN q : i # 1 => 1 < i /\ i - 1 \in DOMAIN r /\ r[i - 1] = q[i]
  BY <1>2, TailIndex
<1>4. q[1][1] = u /\ q[1][2] # EndMark /\ u \notin closed
  BY <1>1, <1>3 DEF InputEnds
<1>5. processed'[u] = q[1][2] /\ closed' = closed
  BY <1>1, <1>3, <1>4 DEF Processes, Typed, TypedTask
<1>6. a \in Nat /\ processed[u] \in Nat /\ q[1][2] \in (processed[u] + 1)..a
  BY <1>1, <1>3, <1>4, NumsType, ItemTypes DEF Typed, TypedTask, InputHolds
<1>7. q[1][2] = processed[u] + 1
  <2>1. processed[u] + 1 \in (processed[u] + 1)..a
    BY <1>6
  <2>2. PICK i \in DOMAIN q : q[i] = <<u, processed[u] + 1>>
    BY <1>1, <2>1 DEF InputHolds
  <2>3. processed[u] + 1 # EndMark
    BY <1>6 DEF EndMark
  <2>4. ASSUME i # 1 PROVE q[1][2] < processed[u] + 1
    <3>1. 1 < i /\ q[i][1] = u /\ q[i][2] = processed[u] + 1
      BY <1>3, <2>2, <2>4
    <3> QED
      BY <1>1, <1>3, <1>4, <2>3, <3>1 DEF InputHolds
  <2>5. CASE i = 1
    BY <2>2, <2>5
  <2>6. CASE i # 1
    BY <1>6, <2>4, <2>6
  <2> QED
    BY <2>5, <2>6
<1> DEFINE m == processed[u] + 1
<1>8. m \in Nat /\ m <= a
  BY <1>6, <1>7
<1>9. ASSUME NEW i \in DOMAIN r, r[i][1] = u
      PROVE  r[i][2] = EndMark \/ r[i][2] \in (m + 1)..a
  <2>1. i + 1 \in DOMAIN q /\ r[i] = q[i + 1] /\ 1 < i + 1
    BY <1>3
  <2>2. q[i + 1][2] = EndMark \/ q[1][2] < q[i + 1][2]
    BY <1>1, <1>3, <1>4, <1>9, <2>1 DEF InputHolds
  <2>3. q[i + 1][2] = EndMark \/ q[i + 1][2] \in m..a
    BY <1>1, <1>9, <2>1 DEF InputHolds
  <2>4. CASE q[i + 1][2] = EndMark
    BY <2>1, <2>4
  <2>5. CASE q[i + 1][2] # EndMark
    <3>1. m < q[i + 1][2] /\ q[i + 1][2] \in m..a
      BY <1>7, <2>2, <2>3, <2>5
    <3>2. q[i + 1][2] \in (m + 1)..a
      BY <1>8, <3>1
    <3> QED
      BY <2>1, <3>2
  <2> QED
    BY <2>4, <2>5
<1>10. ASSUME NEW n \in (m + 1)..a PROVE \E i \in DOMAIN r : r[i] = <<u, n>>
  <2>1. n \in m..a /\ n # m
    BY <1>8
  <2>2. PICK i \in DOMAIN q : q[i] = <<u, n>>
    BY <1>1, <2>1 DEF InputHolds
  <2>3. i # 1
    BY <1>7, <2>1, <2>2
  <2> QED
    BY <1>3, <2>2, <2>3
<1>11. \A i, j \in DOMAIN r : i < j => i + 1 < j + 1
  BY <1>3
<1>12. \A i, j \in DOMAIN r : i < j /\ r[i][1] = u /\ r[j][1] = u =>
         r[i][2] # EndMark /\ (r[j][2] = EndMark \/ r[i][2] < r[j][2])
  BY <1>1, <1>3, <1>11 DEF InputHolds
<1>13. processed'[u] = m
  BY <1>5, <1>7
<1> HIDE DEF m
<1>14. InputHolds(u, a)'
  BY <1>1, <1>8, <1>9, <1>10, <1>12, <1>13 DEF InputHolds
<1>15. EndSound(u, a) => EndSound(u, a)'
  BY DEF EndSound, Stays
<1>16. InputEnds(u, a)'
  BY <1>1, <1>2, <1>3, <1>4, <1>5, <1>15 DEF InputEnds, EndQueued
<1> QED
  BY <1>4, <1>5, <1>13, <1>14, <1>16 DEF m

-----------------------------------------------------------------------------
(* Every step *)

LEMMA HandlerPutsFlow ==
  ASSUME Typed, NEW u \in Sources, NEW a \in Nums, NEW b \in Nums, ServerSound(u),
         HandHolds(u, a, b), loop = "running" => InputHolds(u, a) /\ InputEnds(u, a),
         Stays(u), HandlerPuts(u)
  PROVE  /\ ServerSound(u)'
         /\ \E n \in Nums : /\ HandHolds(u, n, b)'
                            /\ loop' = "running" => InputHolds(u, n)' /\ InputEnds(u, n)'
<1>1. /\ hand[u] # << >> /\ handler[u] = "reading" /\ hand'[u] = Tail(hand[u])
      /\ input' = Append(input, <<u, Head(hand[u])>>)
      /\ UNCHANGED <<up, loop, processed, closed>>
  BY DEF HandlerPuts, ServerSound, sourceVars, Typed, TypedServer
<1>2. a \in Nat /\ b \in Nat
  BY NumsType
<1>3. CASE a <= b /\ hand[u] = Run(a, b)
  <2>1. a < b
    BY <1>1, <1>2, <1>3, NoRun
  <2>2. Head(hand[u]) = a + 1 /\ hand'[u] = Run(a + 1, b)
    BY <1>1, <1>2, <1>3, <2>1, RestOfRun
  <2>3. a + 1 \in Nums /\ a + 1 # EndMark /\ a + 1 <= b
    BY <1>2, <2>1, ItemTypes DEF Nums, EndMark
  <2>4. handler' = handler
    BY <2>2, <2>3 DEF HandlerPuts
  <2>5. ServerSound(u)'
    BY <1>1, <2>4 DEF ServerSound
  <2>6. PICK n \in Nums : n = a + 1
    BY <2>3
  <2>7. HandHolds(u, n, b)'
    BY <2>2, <2>3, <2>6 DEF HandHolds, Carries
  <2>8. loop' = "running" => InputHolds(u, n)' /\ InputEnds(u, n)'
    BY <1>1, <2>2, <2>3, <2>6, PutsRecord
  <2> QED
    BY <2>5, <2>7, <2>8
<1>4. CASE a = b /\ hand[u] = EndOfStream /\ EndSound(u, b)
  <2>1. Head(hand[u]) = EndMark /\ hand'[u] = << >>
    BY <1>1, <1>4 DEF EndOfStream
  <2>2. handler'[u] = "ended"
    BY <2>1 DEF HandlerPuts, Typed, TypedServer
  <2>3. ServerSound(u)'
    BY <1>1, <2>1, <2>2 DEF ServerSound
  <2>4. hand'[u] = Run(a, b) /\ a <= b
    BY <1>2, <1>4, <2>1, NoRun
  <2>5. HandHolds(u, a, b)'
    BY <2>4 DEF HandHolds, Carries
  <2>6. loop' = "running" => InputHolds(u, a)' /\ InputEnds(u, a)'
    BY <1>1, <1>4, <2>1, <2>2, PutsEnd
  <2> QED
    BY <2>3, <2>5, <2>6
<1> QED
  BY <1>3, <1>4 DEF HandHolds, Carries

LEMMA HandlerStaysEnded ==
  ASSUME Typed, NEW u \in Sources, ServerSound(u), [Next]_vars, handler[u] = "ended"
  PROVE  handler'[u] = "ended"
<1>1. ~Start(u)
  BY DEF Start, ServerSound
<1>2. CASE HandlerStep(u)
  BY <1>2 DEF HandlerStep, Handshakes, HandlerReads, HandlerPuts, HandlerErrors, Reads, Typed, TypedServer
<1> QED
  BY <1>1, <1>2, OthersLeaveHandler

\* What has been processed, and which inputs have ended.
LEMMA InputFlow ==
  ASSUME Typed, NEW u \in Sources, NEW a \in Nums, ServerSound(u), Stays(u),
         loop = "running" => InputHolds(u, a) /\ InputEnds(u, a),
         u \in closed => EndSound(u, processed[u]), [Next]_vars, ~HandlerPuts(u)
  PROVE  /\ processed'[u] \in {processed[u], processed[u] + 1}
         /\ loop' = "running" => InputHolds(u, a)' /\ InputEnds(u, a)'
         /\ u \in closed' => EndSound(u, processed[u])'
<1>1. handler[u] = "ended" => handler'[u] = "ended"
  BY HandlerStaysEnded
<1>2. ASSUME processed'[u] = processed[u], EndSound(u, processed[u]) PROVE EndSound(u, processed[u])'
  BY <1>2 DEF EndSound, Stays
<1>3. CASE Processes
  <2>1. loop = "running" /\ loop' = loop
    BY <1>3 DEF Processes
  <2>2. CASE Head(input)[1] # u
    BY <1>2, <1>3, <2>1, <2>2, OtherProcessed
  <2>3. CASE Head(input)[1] = u /\ Head(input)[2] = EndMark
    BY <1>2, <1>3, <2>1, <2>3, EndProcessed
  <2>4. CASE Head(input)[1] = u /\ Head(input)[2] # EndMark
    BY <1>3, <2>1, <2>4, RecordProcessed
  <2> QED
    BY <2>2, <2>3, <2>4
<1>4. CASE \E w \in Sources : w # u /\ HandlerPuts(w)
  <2>1. PICK w \in Sources : w # u /\ HandlerPuts(w)
    BY <1>4
  <2>2. /\ UNCHANGED <<processed, closed, loop>> /\ hand[w] # << >>
        /\ input' = Append(input, <<w, Head(hand[w])>>)
    BY <2>1 DEF HandlerPuts
  <2>3. Head(hand[w]) \in Items
    BY <2>2, TailType DEF Typed, TypedServer, Frames
  <2> QED
    BY <1>1, <1>2, <2>1, <2>2, <2>3, OthersPut
<1>5. CASE ~Processes /\ ~\E w \in Sources : HandlerPuts(w)
  <2>1. UNCHANGED <<processed, closed>> /\ (loop' = "ended" \/ UNCHANGED <<input, loop>>)
    <3>1. ASSUME NEW w \in Sources, SourceStep(w) PROVE UNCHANGED taskVars
      BY <3>1 DEF SourceStep, Start, Send, AbortEnds, StopInterruptsClose, SourceFails, SourceEnds,
         StopSource
    <3>2. ASSUME NEW w \in Sources, ChannelStep(w) \/ Breaks(w) PROVE UNCHANGED taskVars
      BY <3>2 DEF ChannelStep, SenderWrites, SenderFails, StrayPut, ClosePuts, CloseJoins, CloseWrites,
         CloseFails, CloseEnds, ClosedAs, Breaks
    <3>3. ASSUME NEW w \in Sources, Handshakes(w) \/ HandlerReads(w) PROVE UNCHANGED taskVars
      BY <3>3 DEF Handshakes, HandlerReads
    <3>4. ASSUME NEW w \in Sources, HandlerErrors(w) PROVE UNCHANGED <<processed, closed, input, loop>>
      BY <3>4 DEF HandlerErrors
    <3>5. ASSUME Finishes \/ FailureReported \/ OperatorFails \/ StopDown
          PROVE  UNCHANGED <<processed, closed>> /\ loop' = "ended"
      BY <3>5 DEF Finishes, FailureReported, OperatorFails, StopDown
    <3>6. ASSUME StopCleans \/ StopEnds PROVE UNCHANGED <<processed, closed, input, loop>>
      BY <3>6 DEF StopCleans, StopEnds
    <3> QED
      BY <1>5, <3>1, <3>2, <3>3, <3>4, <3>5, <3>6 DEF Next, TaskStep, HandlerStep, taskVars, vars
  <2>2. loop' = "running" => InputHolds(u, a)' /\ InputEnds(u, a)'
    BY <1>1, <2>1, InputStays
  <2> QED
    BY <1>2, <2>1, <2>2
<1> QED
  BY <1>3, <1>4, <1>5

\* The order of the records, as a step keeps it.
NextRecord(u) == processed'[u] \in {processed[u], processed[u] + 1}

LEMMA NextFlow ==
  ASSUME Typed, WireInv, NEW u \in Sources, Flow(u), [Next]_vars
  PROVE  Flow(u)' /\ NextRecord(u)
<1>1. SourceSound(u) /\ ServerSound(u) /\ (u \in closed => EndSound(u, processed[u]))
  BY DEF Flow
<1>2. PICK a \in Nums, b \in Nums, c \in Nums : Stages(u, a, b, c)
  BY DEF Flow
<1>3. /\ QueueHolds(u, c) /\ FramesHold(u, b, c) /\ HandHolds(u, a, b)
      /\ loop = "running" => InputHolds(u, a) /\ InputEnds(u, a)
  BY <1>2 DEF Stages
<1>4. WireStep(u)
  BY NextSteps DEF WireSteps
<1>5. SourceSound(u)' /\ Stays(u)
  BY <1>1, <1>3, SourceStepSound, ChannelStepUpstream, OthersLeaveSource, QuietSound
<1>6. ASSUME ~HandlerPuts(u)
      PROVE  /\ NextRecord(u) /\ (loop' = "running" => InputHolds(u, a)' /\ InputEnds(u, a)')
             /\ u \in closed' => EndSound(u, processed[u])'
  BY <1>1, <1>3, <1>5, <1>6, InputFlow DEF NextRecord
<1>7. CASE HandlerPuts(u)
  <2>1. Quiet(u) /\ UNCHANGED <<processed, closed>>
    BY <1>7 DEF HandlerPuts, sourceVars, Quiet
  <2>2. QueueHolds(u, c)' /\ FramesHold(u, b, c)'
    BY <1>3, <1>5, <1>7, <2>1, PutsCut, OthersUpstream
  <2>3. ServerSound(u)'
    BY <1>1, <1>3, <1>5, <1>7, HandlerPutsFlow
  <2>4. PICK n \in Nums : /\ HandHolds(u, n, b)'
                          /\ loop' = "running" => InputHolds(u, n)' /\ InputEnds(u, n)'
    BY <1>1, <1>3, <1>5, <1>7, HandlerPutsFlow
  <2>5. NextRecord(u) /\ (u \in closed' => EndSound(u, processed[u])')
    BY <1>1, <1>5, <2>1 DEF NextRecord, EndSound, Stays
  <2> QED
    BY <1>5, <2>2, <2>3, <2>4, <2>5 DEF Flow, Stages
<1>8. CASE SourceStep(u) /\ ~HandlerPuts(u)
  <2>1. QueueHolds(u, c)' /\ FramesHold(u, b, c)'
    BY <1>1, <1>3, <1>8, SourceStepUpstream
  <2>2. hand'[u] = hand[u] /\ (Start(u) \/ handler'[u] = handler[u])
    BY <1>8 DEF SourceStep, Start, Send, AbortEnds, StopInterruptsClose, SourceFails, SourceEnds,
       StopSource, serverVars
  <2>3. HandHolds(u, a, b)'
    BY <1>3, <1>5, <2>2, HandStays
  <2>4. ServerSound(u)'
    <3>1. CASE Start(u)
      <4>1. frames'[u] = <<Hello>> /\ handler'[u] = "hello" /\ up'[u] = "RUNNING" /\ hand[u] = << >>
        BY <1>1, <3>1 DEF Start, ServerSound, Typed, TypedSources, TypedWire, TypedServer
      <4> QED
        BY <2>2, <4>1 DEF ServerSound
    <3>2. CASE ~Start(u)
      <4>1. Closed(u)
        BY <1>8, <3>2 DEF SourceStep, Send, AbortEnds, StopInterruptsClose, SourceFails, SourceEnds,
           StopSource, BeginsClose, wireVars, Closed, Typed, TypedWire
      <4> QED
        BY <1>1, <1>4, <2>2, <3>2, <4>1, ServerStays DEF WireStep
    <3> QED
      BY <3>1, <3>2
  <2> QED
    BY <1>5, <1>6, <1>8, <2>1, <2>3, <2>4 DEF Flow, Stages
<1>9. CASE ChannelStep(u) /\ ~HandlerPuts(u)
  <2>1. PICK d \in Nums : QueueHolds(u, d)' /\ FramesHold(u, b, d)'
    BY <1>1, <1>3, <1>9, ChannelStepUpstream
  <2>2. UNCHANGED <<hand[u], handler[u]>>
    BY <1>9 DEF ChannelStep, SenderWrites, SenderFails, StrayPut, ClosePuts, CloseJoins, CloseWrites,
       CloseFails, CloseEnds, ClosedAs, serverVars
  <2>3. HandHolds(u, a, b)'
    BY <1>3, <1>5, <2>2, HandStays
  <2>4. Written(u) \/ Closed(u)
    <3>1. CASE CloseFails(u) \/ CloseEnds(u)
      BY <3>1 DEF CloseFails, CloseEnds, ClosedAs, Closed, Typed, TypedWire
    <3>2. CASE SenderFails(u) \/ StrayPut(u) \/ ClosePuts(u) \/ CloseJoins(u)
      BY <3>2 DEF SenderFails, StrayPut, ClosePuts, CloseJoins, wireVars, Closed
    <3>3. CASE SenderWrites(u) \/ CloseWrites(u)
      <4>1. UNCHANGED line /\ (UNCHANGED frames \/ \E f : Write(u, f))
        BY <3>3 DEF SenderWrites, CloseWrites
      <4> QED
        BY <4>1 DEF Write, Written, Closed, Typed, TypedWire
    <3> QED
      BY <1>9, <3>1, <3>2, <3>3 DEF ChannelStep
  <2>5. ServerSound(u)'
    BY <1>1, <1>4, <2>2, <2>4, ServerStays DEF WireStep
  <2> QED
    BY <1>5, <1>6, <1>9, <2>1, <2>3, <2>5 DEF Flow, Stages
<1>10. CASE Handshakes(u) /\ ~HandlerPuts(u)
  <2>1. ServerSound(u)' /\ FramesHold(u, b, c)' /\ HandHolds(u, a, b)'
    BY <1>1, <1>3, <1>5, <1>10, HandshakesFlow
  <2>2. QueueHolds(u, c)'
    BY <1>3, <1>5, <1>10, QueueStays DEF Handshakes, sourceVars
  <2> QED
    BY <1>5, <1>6, <1>10, <2>1, <2>2 DEF Flow, Stages
<1>11. CASE HandlerReads(u) /\ ~HandlerPuts(u)
  <2>1. ServerSound(u)'
    BY <1>1, <1>3, <1>5, <1>11, HandlerReadsFlow
  <2>2. PICK n \in Nums : FramesHold(u, n, c)' /\ HandHolds(u, a, n)'
    BY <1>1, <1>3, <1>5, <1>11, HandlerReadsFlow
  <2>3. QueueHolds(u, c)'
    BY <1>3, <1>5, <1>11, QueueStays DEF HandlerReads, sourceVars
  <2> QED
    BY <1>5, <1>6, <1>11, <2>1, <2>2, <2>3 DEF Flow, Stages
<1>12. CASE ~(SourceStep(u) \/ ChannelStep(u) \/ Handshakes(u) \/ HandlerReads(u) \/ HandlerPuts(u))
  <2>1. Quiet(u) /\ (Closed(u) \/ Cut(u))
    BY <1>12, OthersLeaveSource, OthersCut
  <2>2. QueueHolds(u, c)' /\ FramesHold(u, b, c)'
    BY <1>3, <1>5, <2>1, OthersUpstream
  <2>3. hand'[u] = hand[u] /\ ServerSound(u)'
    <3>1. CASE HandlerErrors(u)
      <4>1. hand' = hand /\ hand[u] = << >> /\ handler'[u] = "ended" /\ handler[u] = "reading" /\ up' = up
        BY <3>1 DEF HandlerErrors, Reads, sourceVars, Typed, TypedServer
      <4> QED
        BY <1>1, <4>1 DEF ServerSound
    <3>2. CASE ~HandlerErrors(u)
      <4>1. UNCHANGED <<handler[u], hand[u]>>
        BY <1>12, <3>2, OthersLeaveHandler DEF HandlerStep, SourceStep
      <4> QED
        BY <1>1, <2>1, <4>1, ServerStays DEF Quiet
    <3> QED
      BY <3>1, <3>2
  <2>4. HandHolds(u, a, b)'
    BY <1>3, <1>5, <2>3, HandStays
  <2> QED
    BY <1>5, <1>6, <1>12, <2>2, <2>3, <2>4 DEF Flow, Stages
<1> QED
  BY <1>7, <1>8, <1>9, <1>10, <1>11, <1>12

LEMMA InitFlow == Init => FlowInv
<1> SUFFICES ASSUME Init, NEW u \in Sources PROVE Flow(u)
  BY InitTyped, InitWire DEF FlowInv
<1>1. 0 \in Nums /\ Run(0, 0) = << >> /\ 0 <= 0
  BY NoRun, ItemTypes DEF Nums
<1>2. QueueHolds(u, 0)
  BY <1>1 DEF Init, QueueHolds, AllQueued
<1>3. FramesHold(u, 0, 0)
  <2> DEFINE g == [i \in 0..0 |-> 0]
  <2>1. frames[u] = << >> /\ Len(frames[u]) = 0
    BY DEF Init
  <2>2. g \in [0..0 -> 0..0] /\ g[0] = 0 /\ 1..0 = {}
    OBVIOUS
  <2> HIDE DEF g
  <2> QED
    BY <2>1, <2>2 DEF FramesHold
<1>4. HandHolds(u, 0, 0)
  BY <1>1 DEF Init, HandHolds, Carries
<1>5. InputHolds(u, 0) /\ InputEnds(u, 0)
  BY DEF Init, InputHolds, InputEnds, EndQueued
<1>6. SourceSound(u) /\ ServerSound(u) /\ u \notin closed
  BY DEF Init, SourceSound, ServerSound, ClosePut
<1> QED
  BY <1>1, <1>2, <1>3, <1>4, <1>5, <1>6 DEF Flow, Stages

LEMMA NextFlowInv == FlowInv /\ [Next]_vars => FlowInv' /\ \A u \in Sources : NextRecord(u)
<1> SUFFICES ASSUME FlowInv, [Next]_vars
             PROVE  FlowInv' /\ \A u \in Sources : NextRecord(u)
  OBVIOUS
<1>1. Typed' /\ WireInv'
  BY NextTyped, NextSteps, WireStepsKeep DEF FlowInv, WireSteps
<1>2. ASSUME NEW u \in Sources PROVE Flow(u)' /\ NextRecord(u)
  BY NextFlow DEF FlowInv
<1> QED
  BY <1>1, <1>2 DEF FlowInv

\* The records of every channel are processed in the order in which they were sent, none
\* skipped and none twice, whatever breaks (send_many, accept_records, _run_operator).
THEOREM RecordsInOrder == Spec => OrderPerChannel
<1>1. FlowInv /\ [Next]_vars => [\A u \in Sources : NextRecord(u)]_processed
  BY NextFlowInv
<1> QED
  BY <1>1, InitFlow, NextFlowInv, PTL DEF Spec, OrderPerChannel, NextRecord

\* An input counts as ended only when every record of its channel has been processed, and
\* never when its source failed (close, _accept_frames, _run).
THEOREM EndsAreComplete == Spec => []EndMeansComplete
<1>1. FlowInv => EndMeansComplete
  <2> SUFFICES ASSUME FlowInv, NEW u \in closed
               PROVE  processed[u] >= sent[u] /\ up[u] # "FAILED"
    BY DEF EndMeansComplete
  <2>1. u \in Sources /\ processed[u] \in Nat /\ sent[u] \in Nat
    BY ItemTypes DEF FlowInv, Typed, TypedTask, TypedSources
  <2>2. EndSound(u, processed[u])
    BY <2>1 DEF FlowInv, Flow
  <2> QED
    BY <2>1, <2>2 DEF EndSound, Final
<1> QED
  BY <1>1, InitFlow, NextFlowInv, PTL DEF Spec

\* A failure leaves the task FAILED until stop() comes, and it ends by itself only when all
\* of its inputs have ended.
DownSound ==
  /\ failing > 0 \/ reports[Down] > 0 => down = "FAILED" \/ stopping # "no"
  /\ down = "STOPPED" /\ stopping = "no" => closed = Sources

LEMMA InitDown == Init => DownSound
BY DEF Init, DownSound

LEMMA NextDown == Typed /\ DownSound /\ [Next]_vars => DownSound'
<1> SUFFICES ASSUME Typed, DownSound, [Next]_vars PROVE DownSound'
  OBVIOUS
<1> USE DEF Typed, TypedTask
<1>1. ASSUME NEW u \in Sources, SourceStep(u) PROVE DownSound'
  <2>1. UNCHANGED taskVars /\ reports'[Down] = reports[Down]
    <3>1. CASE AbortEnds(u)
      BY <3>1, NameAssumption DEF AbortEnds
    <3>2. CASE ~AbortEnds(u)
      BY <1>1, <3>2 DEF SourceStep, Start, Send, StopInterruptsClose, SourceFails, SourceEnds, StopSource
    <3> QED
      BY <3>1, <3>2
  <2> QED
    BY <2>1 DEF DownSound, taskVars
<1>2. ASSUME NEW u \in Sources, ChannelStep(u) \/ Breaks(u) \/ Handshakes(u) \/ HandlerReads(u)
      PROVE  DownSound'
  <2>1. UNCHANGED <<taskVars, reports>>
    BY <1>2 DEF ChannelStep, SenderWrites, SenderFails, StrayPut, ClosePuts, CloseJoins, CloseWrites,
       CloseFails, CloseEnds, ClosedAs, Breaks, Handshakes, HandlerReads
  <2> QED
    BY <2>1 DEF DownSound, taskVars
<1>3. ASSUME NEW u \in Sources, HandlerPuts(u) PROVE DownSound'
  BY <1>3 DEF HandlerPuts, DownSound
<1>4. ASSUME NEW u \in Sources, HandlerErrors(u) PROVE DownSound'
  BY <1>4 DEF HandlerErrors, Fails, DownSound
<1>5. CASE Processes
  <2>1. closed \subseteq closed' /\ closed' \subseteq Sources
    <3>1. Head(input) \in Sources \X Items
      BY <1>5, TailType DEF Processes
    <3>2. Head(input)[1] \in Sources
      BY <3>1
    <3> QED
      BY <1>5, <3>2 DEF Processes
  <2> QED
    BY <1>5, <2>1 DEF Processes, DownSound
<1>6. CASE Finishes \/ OperatorFails
  BY <1>6 DEF Finishes, OperatorFails, Fails, DownSound
<1>7. CASE FailureReported \/ StopDown \/ StopCleans \/ StopEnds
  BY <1>7 DEF FailureReported, StopDown, StopCleans, StopEnds, DownSound
<1>8. CASE UNCHANGED vars
  BY <1>8 DEF vars, taskVars, DownSound
<1> QED
  BY <1>1, <1>2, <1>3, <1>4, <1>5, <1>6, <1>7, <1>8 DEF Next, HandlerStep, TaskStep

\* A task that completes by itself has processed all that its sources sent, none of them
\* failed, and it has not failed either (_run, _fail).
THEOREM OnlyWholeCompletes == Spec => []CompletesOnlyWhole
<1>1. FlowInv /\ DownSound => CompletesOnlyWhole
  <2> SUFFICES ASSUME FlowInv, DownSound, down = "STOPPED", stopping = "no"
               PROVE  /\ reports[Down] = 0
                      /\ \A u \in Sources : up[u] # "FAILED" /\ processed[u] >= sent[u]
    BY DEF CompletesOnlyWhole
  <2>1. reports[Down] = 0
    <3>1. reports[Down] \in Nat
      BY DEF FlowInv, Typed, TypedTask
    <3> QED
      BY <3>1 DEF DownSound
  <2>2. ASSUME NEW u \in Sources PROVE up[u] # "FAILED" /\ processed[u] >= sent[u]
    <3>1. processed[u] \in Nat /\ sent[u] \in Nat
      BY ItemTypes DEF FlowInv, Typed, TypedTask, TypedSources
    <3>2. EndSound(u, processed[u])
      BY DEF FlowInv, Flow, DownSound
    <3> QED
      BY <3>1, <3>2 DEF EndSound, Final
  <2> QED
    BY <2>1, <2>2
<1>2. FlowInv => Typed
  BY DEF FlowInv
<1> QED
  BY <1>1, <1>2, InitFlow, NextFlowInv, InitDown, NextDown, PTL DEF Spec

-----------------------------------------------------------------------------
(* The channel as a queue: between source and operator, at most Room records *)

\* Who may put still runs, and its writer was not closed.
PutsSound(u) ==
  /\ up[u] = "CREATED" => channel[u] = "NEW"
  /\ channel[u] \in {"NEW", "RUNNING"} => up[u] \in {"CREATED", "RUNNING"} /\ closing[u] = "no"
  /\ channel[u] = "RUNNING" => line[u] \in {"open", "cut"}

ChannelInv == FlowInv /\ \A u \in Sources : PutsSound(u)

\* A line that is cut stays cut.
LEMMA LineStaysCut ==
  ASSUME WireInv, NEW u \in Sources, [Next]_vars, line[u] = "cut"
  PROVE  line'[u] = "cut"
<1>1. WireStep(u) /\ (up[u] = "CREATED" => line[u] = "none")
  BY NextSteps DEF WireSteps, WireInv
<1> QED
  BY <1>1 DEF WireStep, Opened, Written, Taken, Closed, Cut, Finished

\* What a step does to the channel of u and to those of others.
LEMMA OthersLeaveChannel ==
  ASSUME Typed, NEW u \in Sources, [Next]_vars, ~SourceStep(u), ~ChannelStep(u)
  PROVE  channel'[u] = channel[u] /\ line'[u] \in {line[u], "cut"}
<1> USE DEF Typed, TypedSources, TypedWire
<1>1. ASSUME NEW w \in Sources, SourceStep(w)
      PROVE  channel'[u] = channel[u] /\ line'[u] = line[u]
  <2>1. w # u
    BY <1>1
  <2> QED
    BY <1>1, <2>1 DEF SourceStep, Start, Send, AbortEnds, StopInterruptsClose, SourceFails, SourceEnds,
       StopSource, BeginsClose, wireVars
<1>2. ASSUME NEW w \in Sources, ChannelStep(w)
      PROVE  channel'[u] = channel[u] /\ line'[u] = line[u]
  <2>1. w # u
    BY <1>2
  <2> QED
    BY <1>2, <2>1 DEF ChannelStep, SenderWrites, SenderFails, StrayPut, ClosePuts, CloseJoins,
       CloseWrites, CloseFails, CloseEnds, ClosedAs, wireVars
<1>3. ASSUME Unregisters PROVE line'[u] \in {line[u], "cut"}
  BY <1>3 DEF Unregisters, wireVars
<1>4. ASSUME NEW w \in Sources, Breaks(w) \/ HandlerStep(w)
      PROVE  channel'[u] = channel[u] /\ line'[u] \in {line[u], "cut"}
  <2>1. CASE Breaks(w) \/ Handshakes(w)
    BY <2>1 DEF Breaks, Handshakes, sourceVars
  <2>2. CASE HandlerReads(w) \/ HandlerPuts(w)
    BY <2>2 DEF HandlerReads, HandlerPuts, sourceVars
  <2>3. CASE HandlerErrors(w)
    BY <1>3, <2>3 DEF HandlerErrors, Fails, sourceVars
  <2> QED
    BY <1>4, <2>1, <2>2, <2>3 DEF HandlerStep
<1>5. CASE Processes \/ FailureReported \/ StopDown \/ StopEnds \/ UNCHANGED vars
  BY <1>5 DEF Processes, FailureReported, StopDown, StopEnds, vars, sourceVars, wireVars
<1>6. CASE Finishes \/ StopCleans \/ OperatorFails
  BY <1>3, <1>6 DEF Finishes, StopCleans, OperatorFails, Fails, sourceVars, wireVars
<1> QED
  BY <1>1, <1>2, <1>4, <1>5, <1>6 DEF Next, TaskStep

LEMMA NextPuts ==
  ASSUME Typed, WireInv, NEW u \in Sources, SourceSound(u), PutsSound(u), [Next]_vars
  PROVE  /\ PutsSound(u)'
         /\ channel'[u] \in {"NEW", "RUNNING"} => channel[u] \in {"NEW", "RUNNING"}
<1> USE DEF Typed, TypedSources, TypedWire, PutsSound, SourceSound
<1>1. CASE Start(u)
  BY <1>1 DEF Start
<1>2. CASE Send(u) \/ AbortEnds(u)
  BY <1>2 DEF Send, AbortEnds, wireVars
<1>3. CASE SourceEnds(u) \/ StopSource(u)
  BY <1>3 DEF SourceEnds, StopSource, BeginsClose
<1>4. CASE SourceFails(u) \/ StopInterruptsClose(u)
  BY <1>4 DEF SourceFails, Emitting, StopInterruptsClose
<1>5. CASE SenderWrites(u) \/ StrayPut(u)
  BY <1>5 DEF SenderWrites, StrayPut, wireVars
<1>6. CASE ClosePuts(u) \/ CloseJoins(u) \/ CloseWrites(u)
  BY <1>6 DEF ClosePuts, CloseJoins, CloseWrites, wireVars
<1>7. CASE SenderFails(u)
  <2>1. up[u] # "CREATED"
    BY <1>7 DEF SenderFails, WireInv
  <2> QED
    BY <1>7, <2>1 DEF SenderFails, wireVars
<1>8. CASE CloseFails(u) \/ CloseEnds(u)
  BY <1>8 DEF CloseFails, CloseEnds, ClosedAs
<1>9. CASE ~SourceStep(u) /\ ~ChannelStep(u)
  <2>1. Quiet(u) /\ channel'[u] = channel[u] /\ line'[u] \in {line[u], "cut"}
    BY <1>9, OthersLeaveSource, OthersLeaveChannel
  <2> QED
    BY <2>1 DEF Quiet
<1> QED
  BY <1>1, <1>2, <1>3, <1>4, <1>5, <1>6, <1>7, <1>8, <1>9 DEF SourceStep, ChannelStep

\* How many records each place holds.
LEMMA QueueBound ==
  ASSUME Typed, NEW u \in Sources, NEW c \in Nums, SourceSound(u), QueueHolds(u, c)
  PROVE  /\ sent[u] <= c + Len(queue[u]) /\ c <= sent[u] + 1
         /\ up[u] \in {"CREATED", "RUNNING"} /\ closing[u] = "no" => c <= sent[u]
<1>1. c \in Nat /\ sent[u] \in Nat /\ queue[u] \in Seq(Items)
  BY NumsType, ItemTypes DEF Typed, TypedSources, TypedQueue
<1>2. PICK n \in Nat : n = Len(queue[u])
  BY <1>1
<1>3. CASE sender[u] = "done"
  <2>1. ~(up[u] \in {"CREATED", "RUNNING"} /\ closing[u] = "no")
    BY <1>3 DEF SourceSound, ClosePut
  <2>2. sent[u] <= c /\ c <= sent[u] + 1
    BY <1>3 DEF QueueHolds
  <2> QED
    BY <1>1, <1>2, <2>1, <2>2
<1>4. CASE AllQueued(u, c)
  <2>1. PICK t \in {sent[u], sent[u] + 1} :
          /\ c <= t /\ queue[u] = Run(c, t)
          /\ t = sent[u] + 1 => up[u] \notin {"CREATED", "RUNNING"}
    BY <1>4 DEF AllQueued
  <2>2. t \in Nat
    BY <1>1
  <2>3. n = t - c
    BY <1>1, <1>2, <2>1, <2>2, RunFacts
  <2> QED
    BY <1>1, <1>2, <2>1, <2>2, <2>3
<1>5. CASE MarkQueued(u, c)
  <2>1. PICK p \in DOMAIN queue[u] : sent[u] <= c + p - 1 /\ c + p - 1 <= sent[u] + 1
    BY <1>5 DEF MarkQueued
  <2>2. p \in 1..n
    BY <1>1, <1>2
  <2>3. ~(up[u] \in {"CREATED", "RUNNING"} /\ closing[u] = "no")
    BY <1>5 DEF MarkQueued, ClosePut
  <2> QED
    BY <1>1, <1>2, <2>1, <2>2, <2>3
<1> QED
  BY <1>3, <1>4, <1>5 DEF QueueHolds

LEMMA CarriesBound ==
  ASSUME NEW u \in Sources, NEW f \in Frames, NEW m \in Nat, NEW n \in Nat, Carries(u, f, m, n)
  PROVE  m <= n /\ n <= m + BatchSize
<1>1. BatchSize \in Nat /\ Len(f) \in Nat /\ Len(f) <= BatchSize
  BY ItemTypes DEF Frames
<1>2. CASE m = n
  BY <1>1, <1>2
<1>3. CASE m <= n /\ f = Run(m, n)
  <2>1. Len(f) = n - m
    BY <1>3, RunFacts
  <2> QED
    BY <1>1, <1>3, <2>1
<1> QED
  BY <1>2, <1>3 DEF Carries

LEMMA FramesBound ==
  ASSUME Typed, NEW u \in Sources, NEW b \in Nums, NEW c \in Nums, FramesHold(u, b, c)
  PROVE  b <= c /\ (line[u] = "open" => c <= b + Len(frames[u]) * BatchSize)
<1>1. b \in Nat /\ c \in Nat /\ BatchSize \in Nat
  BY NumsType, ItemTypes
<1>2. PICK k \in Nat : k = Len(frames[u])
  BY DEF Typed, TypedWire
<1>3. PICK g \in [0..k -> 0..c] :
        /\ g[0] = b /\ (line[u] = "open" => g[k] = c)
        /\ \A i \in 1..k : Carries(u, frames[u][i], g[i - 1], g[i])
  BY <1>2 DEF FramesHold
<1>4. \A i \in 1..k : i \in 0..k /\ i - 1 \in 0..k /\ g[i] \in Nat /\ g[i - 1] \in Nat
  BY <1>1, <1>2
<1>5. \A i \in 1..k : g[i] <= g[i - 1] + BatchSize
  <2> TAKE i \in 1..k
  <2>1. frames[u][i] \in Frames
    BY <1>2 DEF Typed, TypedWire
  <2> QED
    BY <1>3, <1>4, <2>1, CarriesBound
<1>6. ASSUME k # 0 /\ \E i \in 0..k : ~(g[i] <= b + i * BatchSize) PROVE FALSE
  <2>1. PICK T : T = {i \in 0..k : ~(g[i] <= b + i * BatchSize)}
    OBVIOUS
  <2>2. T \subseteq Nat /\ T # {}
    BY <1>6, <2>1
  <2>3. PICK i \in T : \A j \in T : i <= j
    BY <2>2, LeastNatural
  <2>4. i \in 0..k /\ ~(g[i] <= b + i * BatchSize)
    BY <2>1
  <2>5. i # 0
    <3>1. 0 * BatchSize = 0 /\ g[0] <= b + 0
      BY <1>1, <1>3
    <3> QED
      BY <2>4, <3>1
  <2>6. i \in 1..k /\ i - 1 \in 0..k /\ i - 1 \notin T
    BY <1>2, <2>2, <2>3, <2>4, <2>5
  <2>7. PICK x, y \in Nat : x = g[i] /\ y = g[i - 1]
    BY <1>4, <2>6
  <2>8. y <= b + (i - 1) * BatchSize /\ x <= y + BatchSize /\ ~(x <= b + i * BatchSize)
    BY <1>5, <2>1, <2>4, <2>6, <2>7
  <2>9. PICK z, w \in Nat : z = (i - 1) * BatchSize /\ w = i * BatchSize
    BY <1>1, <2>6
  <2>10. w = z + BatchSize
    BY <1>1, <2>6, <2>9
  <2>11. PICK e \in Nat : e = BatchSize
    BY <1>1
  <2>12. y <= b + z /\ x <= y + e /\ ~(x <= b + w) /\ w = z + e
    BY <2>8, <2>9, <2>10, <2>11
  <2> QED
    BY <1>1, <2>12
<1>7. 0 \in 0..k /\ k \in 0..k
  BY <1>2
<1>8. b <= c
  BY <1>1, <1>3, <1>7
<1>9. g[k] <= b + k * BatchSize
  <2>1. CASE k = 0
    <3>1. 0 * BatchSize = 0 /\ g[0] <= b + 0
      BY <1>1, <1>3
    <3> QED
      BY <2>1, <3>1
  <2>2. CASE k # 0
    BY <1>6, <1>7, <2>2
  <2> QED
    BY <2>1, <2>2
<1> QED
  BY <1>2, <1>3, <1>8, <1>9

LEMMA InputBound ==
  ASSUME Typed, NEW u \in Sources, NEW a \in Nums, InputHolds(u, a)
  PROVE  a <= processed[u] + Len(input)
<1>1. a \in Nat /\ processed[u] \in Nat /\ processed[u] <= a /\ input \in Seq(Sources \X Items)
  BY NumsType, ItemTypes DEF Typed, TypedTask, InputHolds
<1>2. PICK k, p \in Nat : k = Len(input) /\ p = processed[u]
  BY <1>1
<1>3. PICK S, T : S = (p + 1)..a /\ T = 1..k
  OBVIOUS
<1>4. \A n \in S : \E i \in T : input[i] = <<u, n>>
  <2> TAKE n \in S
  <2>1. PICK i \in DOMAIN input : input[i] = <<u, n>>
    BY <1>2, <1>3 DEF InputHolds
  <2>2. i \in T
    BY <1>1, <1>2, <1>3, <2>1
  <2> QED
    BY <2>1, <2>2
<1> DEFINE h == [n \in S |-> CHOOSE i \in T : input[i] = <<u, n>>]
<1>5. h \in [S -> T] /\ \A n \in S : input[h[n]] = <<u, n>>
  BY <1>4
<1> HIDE DEF h
<1>6. \A m, n \in S : h[m] = h[n] => m = n
  BY <1>5
<1>7. IsFiniteSet(S) /\ Cardinality(S) = a - p
  <2>1. p + 1 \in Int /\ a \in Int
    BY <1>1
  <2>2. /\ IsFiniteSet((p + 1)..a)
        /\ Cardinality((p + 1)..a) = IF p + 1 > a THEN 0 ELSE a - (p + 1) + 1
    BY <2>1, FS_Interval
  <2>3. (IF p + 1 > a THEN 0 ELSE a - (p + 1) + 1) = a - p
    <3>1. p <= a
      BY <1>1, <1>2
    <3>2. CASE p = a
      BY <3>2
    <3>3. CASE p < a
      BY <1>1, <3>3
    <3> QED
      BY <1>1, <3>1, <3>2, <3>3
  <2> QED
    BY <1>3, <2>2, <2>3
<1>8. IsFiniteSet(T) /\ Cardinality(T) = k
  <2>1. 1 \in Int /\ k \in Int
    OBVIOUS
  <2>2. IsFiniteSet(1..k) /\ Cardinality(1..k) = IF 1 > k THEN 0 ELSE k - 1 + 1
    BY <2>1, FS_Interval
  <2>3. (IF 1 > k THEN 0 ELSE k - 1 + 1) = k
    OBVIOUS
  <2> QED
    BY <1>3, <2>2, <2>3
<1>9. ~(Cardinality(T) < Cardinality(S))
  <2> SUFFICES ASSUME Cardinality(T) < Cardinality(S) PROVE FALSE
    OBVIOUS
  <2>1. \E x, y \in S : x # y /\ h[x] = h[y]
    BY <1>5, <1>7, <1>8, FS_PigeonHole
  <2> QED
    BY <1>6, <2>1
<1> QED
  BY <1>1, <1>2, <1>7, <1>8, <1>9

LEMMA ProductsGrow ==
  ASSUME NEW x \in Nat, NEW y \in Nat, NEW z \in Nat, x <= y
  PROVE  x * z \in Nat /\ y * z \in Nat /\ x * z <= y * z
<1>1. PICK d \in Nat : d = y - x
  OBVIOUS
<1>2. y * z = x * z + d * z
  BY <1>1
<1>3. d * z \in Nat /\ x * z \in Nat
  OBVIOUS
<1> QED
  BY <1>2, <1>3

\* While both ends are there, what is under way is in one of four places.
LEMMA RoomIsKept ==
  ASSUME ChannelInv, NEW u \in Sources, loop = "running", channel[u] = "RUNNING", line[u] # "cut",
         Len(queue[u]) < QueueCapacity
  PROVE  sent[u] < processed[u] + Room
<1>1. Typed /\ SourceSound(u) /\ PutsSound(u)
  BY DEF ChannelInv, FlowInv, Flow
<1>2. PICK a \in Nums, b \in Nums, c \in Nums : Stages(u, a, b, c)
  BY DEF ChannelInv, FlowInv, Flow
<1>3. a \in Nat /\ b \in Nat /\ c \in Nat
  BY NumsType
<1>4. PICK s, p \in Nat : s = sent[u] /\ p = processed[u]
  BY <1>1, ItemTypes DEF Typed, TypedSources, TypedTask
<1>5. PICK q, f, i \in Nat : q = Len(queue[u]) /\ f = Len(frames[u]) /\ i = Len(input)
  BY <1>1 DEF Typed, TypedQueue, TypedWire, TypedTask
<1>6. PICK Q, W, B, I \in Nat :
        Q = QueueCapacity /\ W = WireCapacity /\ B = BatchSize /\ I = InputCapacity
  BY ItemTypes
<1>7. q < Q /\ f <= W /\ i <= I
  BY <1>1, <1>5, <1>6 DEF Typed, TypedWire, TypedTask
<1>8. s <= c + q
  BY <1>1, <1>2, <1>4, <1>5, QueueBound DEF Stages
<1>9. c <= b + f * B
  <2>1. line[u] = "open"
    BY <1>1 DEF PutsSound
  <2>2. FramesHold(u, b, c)
    BY <1>2 DEF Stages
  <2> QED
    BY <1>1, <1>5, <1>6, <2>1, <2>2, FramesBound
<1>10. b <= a + B
  <2>1. hand[u] \in Frames
    BY <1>1 DEF Typed, TypedServer
  <2>2. Carries(u, hand[u], a, b)
    BY <1>2 DEF Stages, HandHolds
  <2> QED
    BY <1>3, <1>6, <2>1, <2>2, CarriesBound
<1>11. a <= p + i
  <2>1. InputHolds(u, a)
    BY <1>2 DEF Stages
  <2> QED
    BY <1>1, <1>4, <1>5, <2>1, InputBound
<1>12. PICK v, w \in Nat : v = f * B /\ w = W * B
  BY <1>6
<1>13. v <= w
  BY <1>5, <1>6, <1>7, <1>12, ProductsGrow
<1>14. s < p + (Q + w + B + I)
  <2>1. c <= b + v
    BY <1>9, <1>12
  <2> QED
    BY <1>3, <1>7, <1>8, <1>10, <1>11, <1>13, <2>1
<1> QED
  BY <1>4, <1>6, <1>12, <1>14 DEF Room

\* A record behind the processed one has been put; only one that was cancelled is not counted.
LEMMA NextWasPut ==
  ASSUME ChannelInv, NEW u \in Sources, Processes, Head(input)[1] = u, Head(input)[2] # EndMark
  PROVE  /\ processed'[u] = processed[u] + 1 /\ u \notin closed /\ u \notin closed'
         /\ processed[u] <= sent[u]
         /\ channel[u] \in {"NEW", "RUNNING"} => processed[u] < sent[u]
<1>1. Typed /\ WireInv /\ SourceSound(u) /\ PutsSound(u) /\ loop = "running"
  BY DEF ChannelInv, FlowInv, Flow, Processes
<1>2. PICK a \in Nums, b \in Nums, c \in Nums : Stages(u, a, b, c)
  BY DEF ChannelInv, FlowInv, Flow
<1>3. QueueHolds(u, c) /\ FramesHold(u, b, c) /\ Carries(u, hand[u], a, b)
      /\ InputHolds(u, a) /\ InputEnds(u, a)
  BY <1>1, <1>2 DEF Stages, HandHolds
<1>4. Stays(u)
  <2>1. Quiet(u)
    BY DEF Processes, sourceVars, Quiet
  <2> QED
    BY <1>1, <2>1, QuietSound
<1>5. processed'[u] = processed[u] + 1 /\ u \notin closed /\ u \notin closed' /\ InputHolds(u, a)'
  BY <1>1, <1>3, <1>4, RecordProcessed
<1>6. PICK x, p, s \in Nat : x = processed'[u] /\ p = processed[u] /\ s = sent[u]
  BY <1>1, <1>5, ItemTypes DEF Typed, TypedSources, TypedTask
<1>7. x = p + 1 /\ x <= a /\ a \in Nat /\ b \in Nat /\ c \in Nat
  BY <1>5, <1>6, NumsType DEF InputHolds
<1>8. a <= b
  <2>1. hand[u] \in Frames
    BY <1>1 DEF Typed, TypedServer
  <2> QED
    BY <1>3, <1>7, <2>1, CarriesBound
<1>9. b <= c
  BY <1>1, <1>3, FramesBound
<1>10. c <= s + 1 /\ (channel[u] \in {"NEW", "RUNNING"} => c <= s)
  BY <1>1, <1>3, <1>6, QueueBound DEF PutsSound
<1> QED
  BY <1>5, <1>6, <1>7, <1>8, <1>9, <1>10

\* The end of an input comes from a channel that puts no more, behind all it has put.
LEMMA EndWasPut ==
  ASSUME ChannelInv, NEW u \in Sources, Processes, Head(input)[1] = u, Head(input)[2] = EndMark
  PROVE  /\ processed'[u] = processed[u] /\ u \notin closed /\ u \in closed'
         /\ sent[u] <= processed[u] /\ channel[u] \notin {"NEW", "RUNNING"}
<1>1. Typed /\ SourceSound(u) /\ PutsSound(u) /\ loop = "running"
  BY DEF ChannelInv, FlowInv, Flow, Processes
<1>2. PICK a \in Nums, b \in Nums, c \in Nums : Stages(u, a, b, c)
  BY DEF ChannelInv, FlowInv, Flow
<1>3. InputHolds(u, a) /\ InputEnds(u, a)
  BY <1>1, <1>2 DEF Stages
<1>4. Quiet(u)
  BY DEF Processes, sourceVars, Quiet
<1>5. Stays(u)
  BY <1>1, <1>4, QuietSound
<1>6. processed'[u] = processed[u] /\ u \notin closed /\ EndSound(u, processed[u])
  BY <1>1, <1>3, <1>5, EndProcessed
<1>7. u \in closed'
  BY DEF Processes
<1>8. channel[u] \notin {"NEW", "RUNNING"}
  BY <1>1, <1>6 DEF PutsSound, EndSound, Final
<1> QED
  BY <1>6, <1>7, <1>8 DEF EndSound

\* What all other steps leave alone.
LEMMA OthersMoveNothing ==
  ASSUME ChannelInv, NEW u \in Sources, [Next]_vars, ~Send(u), ~(Processes /\ Head(input)[1] = u)
  PROVE  /\ UNCHANGED <<sent[u], processed[u]>> /\ (u \in closed' <=> u \in closed)
         /\ loop = "ended" => loop' = "ended"
<1> USE DEF Typed, TypedSources, TypedTask
<1>1. Typed
  BY DEF ChannelInv, FlowInv
<1>2. ASSUME NEW w \in Sources, SourceStep(w)
      PROVE  sent'[u] = sent[u] /\ UNCHANGED <<processed, closed, loop>>
  <2>1. CASE Send(w)
    BY <1>1, <2>1 DEF Send, taskVars
  <2>2. CASE ~Send(w)
    BY <1>2, <2>2 DEF SourceStep, Start, AbortEnds, StopInterruptsClose, SourceFails, SourceEnds,
       StopSource, taskVars
  <2> QED
    BY <2>1, <2>2
<1>3. ASSUME NEW w \in Sources, ChannelStep(w) \/ Breaks(w) \/ Handshakes(w) \/ HandlerReads(w)
      PROVE  UNCHANGED <<sent, processed, closed, loop>>
  BY <1>3 DEF ChannelStep, SenderWrites, SenderFails, StrayPut, ClosePuts, CloseJoins, CloseWrites,
     CloseFails, CloseEnds, ClosedAs, Breaks, Handshakes, HandlerReads, sourceVars, taskVars
<1>4. ASSUME NEW w \in Sources, HandlerPuts(w) \/ HandlerErrors(w)
      PROVE  UNCHANGED <<sent, processed, closed, loop>>
  BY <1>4 DEF HandlerPuts, HandlerErrors, sourceVars
<1>5. CASE Processes
  <2>1. Head(input)[1] # u
    BY <1>5
  <2> QED
    BY <1>1, <1>5, <2>1 DEF Processes, sourceVars
<1>6. CASE Finishes \/ FailureReported \/ OperatorFails \/ StopDown \/ StopCleans \/ StopEnds
  BY <1>6 DEF Finishes, FailureReported, OperatorFails, StopDown, StopCleans, StopEnds, sourceVars
<1>7. CASE UNCHANGED vars
  BY <1>7 DEF vars, sourceVars, taskVars
<1> QED
  BY <1>2, <1>3, <1>4, <1>5, <1>6, <1>7 DEF Next, HandlerStep, TaskStep

\* One step, as the channel sees it.
ChannelSees(u) == Channel(u)!Next \/ UNCHANGED <<sent[u], processed[u], ChannelState(u)>>

LEMMA SendPuts == ASSUME ChannelInv, NEW u \in Sources, Send(u) PROVE Channel(u)!Put
<1>1. Typed /\ Flow(u) /\ PutsSound(u)
  BY DEF ChannelInv, FlowInv
<1>2. /\ sent'[u] = sent[u] + 1 /\ UNCHANGED <<channel, line, loop, closed, processed>>
      /\ channel[u] = "RUNNING" /\ Len(queue[u]) < QueueCapacity
  BY <1>1 DEF Send, wireVars, taskVars, Typed, TypedSources
<1>3. u \notin closed
  BY <1>1 DEF Send, Emitting, Flow, EndSound, Final
<1>4. ChannelState(u) \in {"open", "broken"} /\ UNCHANGED ChannelState(u)
  BY <1>2, <1>3 DEF ChannelState
<1>5. ChannelState(u) = "open" => sent[u] < processed[u] + Room
  <2>1. ChannelState(u) = "open" => line[u] # "cut" /\ loop # "ended"
    BY DEF ChannelState
  <2>2. loop \in {"running", "ended"}
    BY <1>1 DEF Typed, TypedTask
  <2> QED
    BY <1>2, <2>1, <2>2, RoomIsKept
<1> QED
  BY <1>2, <1>4, <1>5 DEF Channel!Put

LEMMA ProcessesTakes ==
  ASSUME ChannelInv, NEW u \in Sources, Processes, Head(input)[1] = u
  PROVE  Channel(u)!Take \/ Channel(u)!End
<1>1. UNCHANGED <<sent, channel, line, loop>>
  BY DEF Processes, sourceVars, wireVars
<1>2. processed[u] \in Nat /\ sent[u] \in Nat
  BY ItemTypes DEF ChannelInv, FlowInv, Typed, TypedSources, TypedTask
<1>3. CASE Head(input)[2] = EndMark
  <2>1. /\ processed'[u] = processed[u] /\ u \notin closed /\ u \in closed'
        /\ sent[u] <= processed[u] /\ channel[u] \notin {"NEW", "RUNNING"}
    BY <1>3, EndWasPut
  <2>2. ChannelState(u) = "closed" /\ ChannelState(u)' = "ended"
    BY <2>1 DEF ChannelState
  <2> QED
    BY <1>1, <1>2, <2>1, <2>2 DEF Channel!End
<1>4. CASE Head(input)[2] # EndMark
  <2>1. /\ processed'[u] = processed[u] + 1 /\ u \notin closed /\ u \notin closed'
        /\ processed[u] <= sent[u]
        /\ channel[u] \in {"NEW", "RUNNING"} => processed[u] < sent[u]
    BY <1>4, NextWasPut
  <2>2. ChannelState(u) # "ended" /\ UNCHANGED ChannelState(u)
    BY <1>1, <2>1 DEF ChannelState
  <2>3. channel[u] \notin {"NEW", "RUNNING"} => ChannelState(u) = "closed"
    BY <2>1 DEF ChannelState
  <2> QED
    BY <1>1, <1>2, <2>1, <2>2, <2>3 DEF Channel!Take
<1> QED
  BY <1>3, <1>4

LEMMA OthersCloseOrBreak ==
  ASSUME ChannelInv, NEW u \in Sources, [Next]_vars, ~Send(u), ~(Processes /\ Head(input)[1] = u)
  PROVE  ChannelSees(u)
<1>1. Typed /\ WireInv /\ SourceSound(u) /\ PutsSound(u)
  BY DEF ChannelInv, FlowInv, Flow
<1>2. /\ UNCHANGED <<sent[u], processed[u]>> /\ (u \in closed' <=> u \in closed)
      /\ loop = "ended" => loop' = "ended"
  BY OthersMoveNothing
<1>3. channel'[u] \in {"NEW", "RUNNING"} => channel[u] \in {"NEW", "RUNNING"}
  BY <1>1, NextPuts
<1>4. line[u] = "cut" => line'[u] = "cut"
  BY <1>1, LineStaysCut
<1>5. \/ UNCHANGED ChannelState(u)
      \/ ChannelState(u) = "open" /\ ChannelState(u)' = "broken"
      \/ ChannelState(u) \in {"open", "broken"} /\ ChannelState(u)' = "closed"
  BY <1>2, <1>3, <1>4 DEF ChannelState
<1> QED
  BY <1>2, <1>5 DEF ChannelSees, Channel!Next, Channel!Break, Channel!WriterCloses

LEMMA InitChannel == Init => ChannelInv /\ \A u \in Sources : Channel(u)!Init
<1> SUFFICES ASSUME Init, NEW u \in Sources PROVE PutsSound(u) /\ Channel(u)!Init
  BY InitFlow DEF ChannelInv
<1> QED
  BY DEF Init, PutsSound, ChannelState, Channel!Init

LEMMA NextChannel ==
  ASSUME ChannelInv, [Next]_vars
  PROVE  ChannelInv' /\ \A u \in Sources : ChannelSees(u)
<1>1. FlowInv'
  BY NextFlowInv DEF ChannelInv
<1>2. ASSUME NEW u \in Sources PROVE PutsSound(u)' /\ ChannelSees(u)
  <2>1. PutsSound(u)'
    BY NextPuts DEF ChannelInv, FlowInv, Flow
  <2>2. CASE Send(u)
    BY <2>1, <2>2, SendPuts DEF ChannelSees, Channel!Next
  <2>3. CASE Processes /\ Head(input)[1] = u
    BY <2>1, <2>3, ProcessesTakes DEF ChannelSees, Channel!Next
  <2>4. CASE ~Send(u) /\ ~(Processes /\ Head(input)[1] = u)
    BY <2>1, <2>4, OthersCloseOrBreak
  <2> QED
    BY <2>1, <2>2, <2>3, <2>4
<1> QED
  BY <1>1, <1>2 DEF ChannelInv

\* Every channel is a bounded FIFO queue with an end, for any sources, capacities and
\* faults: while both ends are there, no more than Room records are under way however slow
\* the reader is, and the end is taken once, behind all records (channel.py, server.py,
\* runtime/task.py).
THEOREM ChannelsImplemented == Spec => ChannelsDeliver
<1>1. ChannelInv /\ [Next]_vars =>
        [\A u \in Sources : ChannelSees(u)]_<<sent, channel, line, loop, closed, processed>>
  BY NextChannel
<1>2. ChannelInv /\ [Next]_vars => ChannelInv'
  BY NextChannel
<1> QED
  BY <1>1, <1>2, InitChannel, PTL DEF Spec, ChannelsDeliver, ChannelSees
=============================================================================
