------------------------------ MODULE MCMasks ------------------------------
(* Masks with two masks one of which covers the other. *)
EXTENDS Masks, TLC

CONSTANTS wide, exact, u, v

MCWider == wide :> {wide, exact} @@ exact :> {exact}
MCHits  == u :> {wide, exact} @@ v :> {wide}

K(s) == [type |-> "KLINE_CONFIG", string |-> s]
Z(s) == [type |-> "ZAPLINE_CONFIG", string |-> s]
MCFiles == {<<>>, <<K(wide)>>, <<K(wide), K(exact)>>, <<Z(exact)>>}
MCLengths == {2, Forever}
=============================================================================
