------------------------- MODULE MCReplicatedKVStore -------------------------
(* ReplicatedKVStore for TLC: values and threads are interchangeable.      *)
EXTENDS ReplicatedKVStore, TLC

Symmetry == Permutations(Values) \cup Permutations(Syncers)
=============================================================================
