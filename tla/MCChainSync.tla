------------------------------ MODULE MCChainSync ------------------------------
(* ChainSync for TLC: two chains that part after a2, with an interval of 2,  *)
(* and a block x4 with a wrong difficulty target.                           *)
EXTENDS ChainSync, TLC

CONSTANTS g, a1, a2, a3, a4, x4, b3, b4, b5, t1, t2, p1

Blocks  == {g, a1, a2, a3, a4, x4, b3, b4, b5}
PrevOf  == g :> NoBlock @@ a1 :> g @@ a2 :> a1 @@ a3 :> a2 @@ a4 :> a3 @@ x4 :> a3
           @@ b3 :> a2 @@ b4 :> b3 @@ b5 :> b4
Heights == g :> 0 @@ a1 :> 1 @@ a2 :> 2 @@ a3 :> 3 @@ a4 :> 4 @@ x4 :> 4
           @@ b3 :> 3 @@ b4 :> 4 @@ b5 :> 5
Txs     == [b \in Blocks |-> CASE b = a3 -> {t1, t2} [] b = b4 -> {t1} [] OTHER -> {}]
Tops    == p1 :> 3
=============================================================================
