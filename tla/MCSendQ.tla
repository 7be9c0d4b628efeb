------------------------------ MODULE MCSendQ ------------------------------
(* SendQ on lines of one to three bytes and a limit of four. *)
EXTENDS SendQ
=============================================================================
