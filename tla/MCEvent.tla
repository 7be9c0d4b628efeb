------------------------------ MODULE MCEvent ------------------------------
(* Event with periods of two to four seconds. *)
EXTENDS Event
=============================================================================
