---------------------------- MODULE MCDataPlane ----------------------------
(* Small instances of DataPlane. *)
EXTENDS DataPlane, TLC

CONSTANTS s1, s2

Symmetry == Permutations(Sources)
=============================================================================
