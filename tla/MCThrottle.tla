----------------------------- MODULE MCThrottle -----------------------------
(* Throttle with two connections within two seconds, and two stages. *)
EXTENDS Throttle

\* Stage 0 lasts two seconds, every later one three.
Periods == <<2, 3>>
=============================================================================
