---------------------------- MODULE MCSessionPlay ----------------------------
(* Small instances of SessionPlay for TLC. *)
EXTENDS SessionPlay, TLC

Symmetry == Permutations(Callers)
=============================================================================
