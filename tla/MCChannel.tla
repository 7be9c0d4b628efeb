------------------------------ MODULE MCChannel ------------------------------
(***************************************************************************)
(* Channel for TLC.  Two users besides this server are enough for a        *)
(* channel with and without survivors and for the invitation list with     *)
(* none, one and two entries; the two blocks that are not the level        *)
(* channel's are interchangeable addresses.                                *)
(***************************************************************************)
EXTENDS Channel

Symmetry == Permutations(Blocks \ {LevBlock})
=============================================================================
