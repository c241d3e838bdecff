--------------------------- MODULE RecordChannel ---------------------------
(***************************************************************************)
(* What the channel between two tasks promises to both: records are taken  *)
(* in the order in which they were put, none twice and none missing in     *)
(* between; while both ends are there, no more than Capacity of them are   *)
(* under way, so that a slow reader holds its writer back; and its end     *)
(* means that all of them were taken.  A channel that breaks may lose      *)
(* records, all from some record on, and does not tell its writer at once. *)
(* Channels of DataPlane implement it.                                     *)
(***************************************************************************)
EXTENDS Naturals

CONSTANT Capacity

VARIABLES
  put,    \* records that its writer has put
  taken,  \* the last record that its reader has taken
  state   \* open, broken, closed (by its writer), ended

Init == put = 0 /\ taken = 0 /\ state = "open"

\* The writer waits for room, unless nobody may ever make any.
Put ==
  /\ state \in {"open", "broken"}
  /\ state = "open" => put < taken + Capacity
  /\ put' = put + 1 /\ UNCHANGED <<taken, state>>

\* A record whose put was cancelled when the writer closed may still arrive.
Take ==
  /\ state # "ended"
  /\ taken < put \/ (state = "closed" /\ taken = put)
  /\ taken' = taken + 1 /\ UNCHANGED <<put, state>>

Break == state = "open" /\ state' = "broken" /\ UNCHANGED <<put, taken>>

WriterCloses ==
  state \in {"open", "broken"} /\ state' = "closed" /\ UNCHANGED <<put, taken>>

\* The reader takes the end of the channel.
End == state = "closed" /\ taken >= put /\ state' = "ended" /\ UNCHANGED <<put, taken>>

Next == Put \/ Take \/ Break \/ WriterCloses \/ End

Spec == Init /\ [][Next]_<<put, taken, state>>
=============================================================================
