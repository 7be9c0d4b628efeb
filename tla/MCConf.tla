------------------------------- MODULE MCConf -------------------------------
(* Conf with an auth, an operator and two connect blocks in two classes,   *)
(* of periods that do not divide each other.  D comes before C whenever    *)
(* both are due and D was not the last, and is not connected to.           *)
EXTENDS Conf, TLC

CONSTANTS I, O, C, D

MCFileOrder == <<C, D, I, O>>
MCKind      == I :> "client" @@ O :> "oper" @@ C :> "server" @@ D :> "server"
MCNumber    == I :> 1 @@ O :> 2 @@ C :> 2 @@ D :> 1
MCMaxLinks  == 1 :> 2 @@ 2 :> 2
MCFreq      == 1 :> 2 @@ 2 :> 3
MCAutoConn  == {C}
MCWithPort  == {C, D}
MCExempt    == {}

File(nums, bs) == [classes |-> nums, blocks |-> bs]
(* The same file again, one without the class of C, which falls to class 0 *)
(* then, and one that has no block left.                                   *)
MCFiles == {File({1, 2}, {I, O, C, D}), File({1}, {I, C}), File({2}, {})}
=============================================================================
