------------------------------ MODULE Framing ------------------------------
(***************************************************************************)
(* Frames over a byte stream: protocol.py encodes a frame as a length and  *)
(* a body, and finds the frames again in bytes that arrive in pieces of    *)
(* any size, once for a stream reader (read_frame) and once for a caller   *)
(* that feeds the pieces (IncrementalFrameDecoder).  One connection of     *)
(* DataPlaneServer reads it.                                               *)
(* A byte is a number below Radix, a length two of them, most significant  *)
(* first; a body is its type and what matters of its payload.              *)
(***************************************************************************)
EXTENDS Integers, Sequences, FiniteSets, SequencesExt

CONSTANTS
  Radix,            \* how many values a byte has
  Bodies,           \* what a writer may be asked to send
  WriterLimit,      \* max_frame_size of the writer
  ReaderLimit,      \* max_frame_size of the reader and of the decoder
  MaxBatchRecords,  \* max_batch_records of the reader
  WireCapacity,     \* bytes under way beyond which drain() waits
  MaxFrames         \* bound on the frames of a connection

HELLO == 1
DATA_BATCH == 2
END_OF_STREAM == 3
HEARTBEAT == 4
Malformed == 0

PrefixSize == 2
Bytes == 0..(Radix - 1)

ASSUME FramingAssumption ==
  /\ Radix \in Nat \ {0, 1}
  /\ Bodies \subseteq Seq(Bytes) \ {<< >>}
  /\ \A b \in Bodies : Len(b) < Radix * Radix
  /\ {WriterLimit, ReaderLimit, MaxBatchRecords, WireCapacity, MaxFrames} \subseteq Nat \ {0}

VARIABLES
  written,    \* the bodies written so far
  wire,       \* bytes under way
  line,       \* open, fin, cut
  stream,     \* bytes in the reader's StreamReader
  awaited,    \* 0: the next length; n: a body of n bytes
  taken,      \* the frames read_frame has returned
  handler,    \* hello, stream, ended, failed
  heartbeat,  \* the last sequence number
  decoder,    \* rest of its buffer, frames it has returned, whether it has raised
  arrived     \* how many bytes have arrived, for the properties

readerVars == <<stream, awaited, taken, handler, heartbeat>>
vars == <<written, wire, line, readerVars, decoder, arrived>>

Init ==
  /\ written = << >> /\ wire = << >> /\ line = "open"
  /\ stream = << >> /\ awaited = 0 /\ taken = << >>
  /\ handler = "hello" /\ heartbeat = -1
  /\ decoder = [rest |-> << >>, frames |-> << >>, raised |-> FALSE]
  /\ arrived = 0

First(s, n) == SubSeq(s, 1, IF n < Len(s) THEN n ELSE Len(s))
Rest(s, n) == SubSeq(s, n + 1, Len(s))

-----------------------------------------------------------------------------
(* Encoding and decoding *)

Encode(body) == <<Len(body) \div Radix, Len(body) % Radix>> \o body

Size(s) == s[1] * Radix + s[2]

\* A length that is refused before its body is awaited.
Refused(n) == n \notin 1..ReaderLimit

\* decode_frame_body: an object with a known version, type and payload.
WellFormed(body) == body[1] # Malformed

\* The records of a batch, if it is one.
IsBatch(frame) == frame[1] = DATA_BATCH /\ Len(frame) - 1 \in 1..MaxBatchRecords

Decoders == [rest : Seq(Nat), frames : Seq(Seq(Nat)), raised : BOOLEAN]

\* One round of the loop of feed_data; a round that changes nothing ends it.  Frames it
\* found before it raises are not returned.
DrainStep[s \in Decoders] ==
  LET n == Size(s.rest)
      end == PrefixSize + n
      body == SubSeq(s.rest, PrefixSize + 1, end)
  IN IF s.raised \/ Len(s.rest) < PrefixSize THEN s
     ELSE IF Refused(n) THEN [rest |-> << >>, frames |-> << >>, raised |-> TRUE]
     ELSE IF Len(s.rest) < end THEN s
     ELSE [rest |-> Rest(s.rest, end), raised |-> ~WellFormed(body),
           frames |-> IF WellFormed(body) THEN Append(s.frames, body) ELSE << >>]

\* The loop of feed_data: a round that finds a frame takes at least one byte.
Drained(buffer) ==
  LET loop[n \in 0..Len(buffer)] ==
        IF n = 0 THEN [rest |-> buffer, frames |-> << >>, raised |-> FALSE]
        ELSE DrainStep[loop[n - 1]]
  IN loop[Len(buffer)]

\* Mutant: one frame for each piece.
FeedDataOnce(data) ==
  LET buffer == decoder.rest \o data
      all == Drained(buffer)
      end == PrefixSize + Size(buffer)
  IN IF decoder.raised THEN decoder
     ELSE IF Len(all.frames) < 2
          THEN [all EXCEPT !.frames = decoder.frames \o @]
          ELSE [rest |-> Rest(buffer, end), raised |-> FALSE,
                frames |-> Append(decoder.frames, all.frames[1])]

\* feed_data; nobody feeds a decoder that has raised.
FeedData(data) ==
  LET result == Drained(decoder.rest \o data)
  IN IF decoder.raised THEN decoder
     ELSE [result EXCEPT !.frames = decoder.frames \o @]

-----------------------------------------------------------------------------
(* The writer and the connection *)

\* write_frame, once the last one has drained; a frame that encode_frame refuses fails
\* the channel, and its writer is closed.
WriteFrame ==
  /\ line = "open" /\ Len(written) < MaxFrames /\ Len(wire) < WireCapacity
  /\ \E body \in Bodies :
       \/ /\ Len(body) <= WriterLimit
          /\ written' = Append(written, body)
          /\ wire' = wire \o Encode(body)
          /\ UNCHANGED line
       \/ /\ Len(body) > WriterLimit
          /\ line' = "fin"
          /\ UNCHANGED <<written, wire>>
  /\ UNCHANGED <<readerVars, decoder, arrived>>

\* Mutant: the connection is aborted instead of closed.
AbortWriter ==
  /\ line = "open" /\ line' = "fin"
  /\ \E n \in 0..Len(wire) : wire' = SubSeq(wire, 1, n)
  /\ UNCHANGED <<written, readerVars, decoder, arrived>>

\* writer.close(): what was written is still delivered.
CloseWriter ==
  /\ line = "open" /\ line' = "fin"
  /\ UNCHANGED <<written, wire, readerVars, decoder, arrived>>

\* Some bytes arrive, at the stream reader and, in a program that uses one, at the
\* decoder.
Deliver ==
  /\ handler \notin {"ended", "failed"}
  /\ \E n \in 1..Len(wire) :
       LET data == SubSeq(wire, 1, n) IN
         /\ stream' = stream \o data
         /\ decoder' = FeedData(data)
         /\ arrived' = arrived + n
         /\ wire' = Rest(wire, n)
  /\ UNCHANGED <<written, line, awaited, taken, handler, heartbeat>>

\* The connection breaks: bytes from some point on are lost, those in the stream reader
\* included.
Breaks ==
  /\ line \in {"open", "fin"} /\ handler \notin {"ended", "failed"}
  /\ line' = "cut"
  /\ \E n \in 0..(Len(stream) + Len(wire)) :
       /\ stream' = First(stream, n)
       /\ wire' = First(wire, n - Len(stream))
  /\ UNCHANGED <<written, awaited, taken, handler, heartbeat, decoder, arrived>>

-----------------------------------------------------------------------------
(* The handler of the connection *)

Reading == handler \in {"hello", "stream"}

\* The handler is over and closes its connection.
Closes(as) == handler' = as /\ line' = "cut" /\ wire' = << >>

\* read_frame: the length.
ReadPrefix ==
  /\ Reading /\ awaited = 0 /\ Len(stream) >= PrefixSize
  /\ stream' = Rest(stream, PrefixSize)
  /\ \/ /\ ~Refused(Size(stream))
        /\ awaited' = Size(stream)
        /\ UNCHANGED <<wire, line, handler>>
     \/ /\ Refused(Size(stream))
        /\ Closes("failed")
        /\ UNCHANGED awaited
  /\ UNCHANGED <<written, taken, heartbeat, decoder, arrived>>

\* validate_hello: the first frame names this channel.
ValidHello(frame) == frame = <<HELLO>>

\* _handle_connection and _read_stream: what the handler makes of a frame.
Continues(frame) ==
  \/ handler = "hello" /\ ValidHello(frame)
  \/ handler = "stream" /\ IsBatch(frame)
  \/ handler = "stream" /\ frame[1] = HEARTBEAT /\ frame[2] > heartbeat

Handles(frame) ==
  IF Continues(frame)
  THEN /\ handler' = "stream"
       /\ heartbeat' = IF frame[1] = HEARTBEAT THEN frame[2] ELSE heartbeat
       /\ UNCHANGED <<wire, line>>
  ELSE /\ Closes(IF handler = "stream" /\ frame = <<END_OF_STREAM>>
                 THEN "ended" ELSE "failed")
       /\ UNCHANGED heartbeat

\* Mutant: read(n) instead of readexactly(n).
ReadSomeBody ==
  /\ Reading /\ awaited > 0 /\ stream # << >>
  /\ LET body == First(stream, awaited) IN
       /\ taken' = IF WellFormed(body) THEN Append(taken, body) ELSE taken
       /\ IF WellFormed(body) THEN Handles(body)
          ELSE Closes("failed") /\ UNCHANGED heartbeat
  /\ stream' = Rest(stream, awaited)
  /\ awaited' = 0
  /\ UNCHANGED <<written, decoder, arrived>>

\* read_frame: the body; then the handler looks at the frame.
ReadBody ==
  /\ Reading /\ awaited > 0 /\ Len(stream) >= awaited
  /\ LET body == SubSeq(stream, 1, awaited) IN
       \/ /\ WellFormed(body)
          /\ taken' = Append(taken, body)
          /\ Handles(body)
       \/ /\ ~WellFormed(body)
          /\ Closes("failed")
          /\ UNCHANGED <<taken, heartbeat>>
  /\ stream' = Rest(stream, awaited)
  /\ awaited' = 0
  /\ UNCHANGED <<written, decoder, arrived>>

\* No more bytes will come, and those there are do not suffice.
AtEof ==
  /\ Reading /\ line # "open" /\ wire = << >>
  /\ Len(stream) < IF awaited = 0 THEN PrefixSize ELSE awaited

\* Mutant: the end of file is looked for between two frames only.
EofBetweenFrames ==
  /\ AtEof /\ awaited = 0
  /\ Closes("failed")
  /\ UNCHANGED <<written, stream, awaited, taken, heartbeat, decoder, arrived>>

\* read_frame raises ConnectionClosedError.
EofFails ==
  /\ AtEof
  /\ Closes("failed")
  /\ UNCHANGED <<written, stream, awaited, taken, heartbeat, decoder, arrived>>

Next ==
  \/ WriteFrame \/ CloseWriter \/ Deliver \/ Breaks
  \/ ReadPrefix \/ ReadBody \/ EofFails

Spec == Init /\ [][Next]_vars

\* Bytes under way arrive, and the event loop runs the handler.
FairSpec ==
  Spec /\ WF_vars(Deliver) /\ WF_vars(ReadPrefix \/ ReadBody \/ EofFails)

-----------------------------------------------------------------------------
(* Properties *)

\* The bytes that the first k frames take.
Total(bodies, k) ==
  LET sum[i \in 0..Len(bodies)] ==
        IF i = 0 THEN 0 ELSE sum[i - 1] + PrefixSize + Len(bodies[i])
  IN sum[k]

\* How many frames after the first k lie whole in the n bytes behind them.
WholeAfter(bodies, k, n) ==
  Cardinality({i \in (k + 1)..Len(bodies) : Total(bodies, i) - Total(bodies, k) <= n})

\* read_frame returns the frames that were written, whole and in order, however their
\* bytes are cut into pieces and wherever the connection breaks; and the connection ends
\* normally only after HELLO and with END_OF_STREAM: an end of file, also one between
\* two frames, never counts as the end of the stream.
FramesArriveWhole ==
  /\ IsPrefix(taken, written)
  /\ handler = "ended" =>
       /\ Len(taken) >= 2 /\ taken[1] = <<HELLO>> /\ Last(taken) = <<END_OF_STREAM>>
       /\ \A i \in 2..(Len(taken) - 1) : IsBatch(taken[i]) \/ taken[i][1] = HEARTBEAT

\* IncrementalFrameDecoder returns every frame that has arrived whole and keeps exactly
\* the bytes of the next one, until it raises, and it raises only for bytes that no
\* reader could use: "feed_data" may be called with any pieces.  What a peer announces
\* does not decide how much is kept: never more than one frame of the permitted size.
DecoderIsExact ==
  LET whole == WholeAfter(written, 0, arrived) IN
  IF decoder.raised
  THEN \E i \in 1..Len(written) :
         /\ Refused(Len(written[i])) \/ ~WellFormed(written[i])
         /\ Total(written, i - 1) + PrefixSize <= arrived
  ELSE /\ decoder.frames = SubSeq(written, 1, whole)
       /\ Len(decoder.rest) = arrived - Total(written, whole)
       /\ Len(decoder.rest) < PrefixSize + ReaderLimit

\* A connection that has ended, in the middle of a length, of a body or between two
\* frames, ends its handler: no read waits for bytes that cannot come.
EofSurfaces == line # "open" ~> ~Reading

\* The frames of which all bytes are still under way.
UnderWay ==
  LET n == Len(stream) + Len(wire) + IF awaited = 0 THEN 0 ELSE PrefixSize
  IN IF Reading
     THEN SubSeq(written, Len(taken) + 1, Len(taken) + WholeAfter(written, Len(taken), n))
     ELSE << >>

Link == INSTANCE FrameLink WITH frames <- UnderWay, line <- line

\* Over bytes in pieces the program gets what DataPlane takes for granted: a connection
\* of whole frames that loses at most the last ones.
ImplementsFrameLink == Link!Spec
=============================================================================
