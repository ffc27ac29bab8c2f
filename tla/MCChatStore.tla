----------------------------- MODULE MCChatStore -----------------------------
(* ChatStore for TLC: the Carrier thread, the thread of a file, the UI.     *)
EXTENDS ChatStore, TLC

CONSTANTS a, b, file

FriendSymmetry == Permutations(Friends)
==============================================================================
