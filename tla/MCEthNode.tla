----------------------------- MODULE MCEthNode -----------------------------
(* Small instances of EthNode for TLC. *)
EXTENDS EthNode

CONSTANTS d1, o1, i1

OneDraft == {d1}
OneOther == {o1}
OneIncoming == {i1}
=============================================================================
