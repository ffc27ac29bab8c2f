------------------------------- MODULE MCTxRelay -------------------------------
(* TxRelay for TLC: a payment and one that spends its change; peers and calls   *)
(* are interchangeable.                                                         *)
EXTENDS TxRelay, TLC

CONSTANTS t1, t2

MCInputs == t1 :> {} @@ t2 :> {t1}

Symmetry == Permutations(Peers) \cup Permutations(Calls)
=============================================================================
