----------------------------- MODULE FrameLink -----------------------------
(***************************************************************************)
(* What a data connection promises to its two ends: frames arrive whole    *)
(* and in order, and when the connection ends, a part of those under way,  *)
(* from some frame on, may be lost.  Framing implements it over bytes, and *)
(* the wire of every channel of DataPlane is one.                          *)
(***************************************************************************)
EXTENDS Sequences, Naturals

VARIABLES
  frames,   \* under way
  line      \* none, open, fin (closed by its writer), cut

Prefixes(s) == {SubSeq(s, 1, k) : k \in 0..Len(s)}

Init == frames = << >> /\ line \in {"none", "open"}

Opens ==
  /\ line = "none" /\ line' = "open"
  /\ frames' = << >> \/ Len(frames') = 1

Send ==
  /\ line = "open" /\ UNCHANGED line
  /\ Len(frames') = Len(frames) + 1 /\ SubSeq(frames', 1, Len(frames)) = frames

Take == frames # << >> /\ frames' = Tail(frames) /\ UNCHANGED line

WriterCloses == line = "open" /\ line' = "fin" /\ UNCHANGED frames

\* The connection ends, perhaps with a last frame that was taken, or stays ended.
Ends ==
  /\ line # "none" /\ line' = "cut"
  /\ frames' \in Prefixes(frames)
                 \cup (IF frames = << >> THEN {} ELSE Prefixes(Tail(frames)))

Next == Opens \/ Send \/ Take \/ WriterCloses \/ Ends

Spec == Init /\ [][Next]_<<frames, line>>
=============================================================================
