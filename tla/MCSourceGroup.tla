-------------------------- MODULE MCSourceGroup --------------------------
(* An instance of SourceGroup for TLC: two partitions, one with a bad record *)
(* between good ones. *)
EXTENDS SourceGroup, TLC

CONSTANTS p1, p2

MCLog == (p1 :> <<TRUE, FALSE, TRUE>>) @@ (p2 :> <<TRUE, TRUE>>)
=============================================================================
