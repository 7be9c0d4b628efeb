---------------------------- MODULE MCConnection -----------------------------
(***************************************************************************)
(* Connection for TLC.  The addresses of a heap are interchangeable.       *)
(***************************************************************************)
EXTENDS Connection

Symmetry == Permutations(Clients) \cup Permutations(Requests) \cup Permutations(Listeners)
=============================================================================
