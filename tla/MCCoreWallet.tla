----------------------------- MODULE MCCoreWallet -----------------------------
(* CoreWallet for TLC: a foreign transaction, a payment that spends from    *)
(* it, and two transactions that spend the payment, one of them locked to   *)
(* a later block.                                                           *)
EXTENDS CoreWallet

Pay(c, n, a) == [addr |-> <<c, n>>, amt |-> a]

MCTx == {"x", "p", "c", "d"}
MCIns == [t \in MCTx |-> CASE t = "x" -> {<<"coin", 1>>}
                           [] t = "p" -> {<<"x", 1>>}
                           [] t = "c" -> {<<"p", 1>>}
                           [] t = "d" -> {<<"p", 1>>, <<"p", 2>>}]
MCOuts == [t \in MCTx |-> CASE t = "x" -> <<Pay("none", 1, 9)>>
                            [] t = "p" -> <<Pay("ext", 1, 3), Pay("ext", 2, 2)>>
                            [] t = "c" -> <<Pay("none", 2, 1)>>
                            [] t = "d" -> <<Pay("int", 1, 4)>>]
MCReplaceable == {}
MCLockHeight == [t \in MCTx |-> IF t = "d" THEN 2 ELSE 0]
MCGap == [ext |-> 2, int |-> 1]
MCSaved == {<<>>, <<[tx |-> "d", height |-> 3], [tx |-> "p", height |-> 1]>>}
===============================================================================
