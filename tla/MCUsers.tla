------------------------------ MODULE MCUsers -------------------------------
(* Users for TLC. *)
EXTENDS Users, TLC

Symmetry == Permutations(Local) \cup Permutations(Blocks)
=============================================================================
