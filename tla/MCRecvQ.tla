------------------------------ MODULE MCRecvQ ------------------------------
(* RecvQ on lines of two bytes, two letters and packets of up to four bytes. *)
EXTENDS RecvQ, TLC

CONSTANTS a, b, eol

\* No handler tells the letters apart.
Symmetry == Permutations({a, b})
=============================================================================
