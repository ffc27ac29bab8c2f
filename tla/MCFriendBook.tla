----------------------------- MODULE MCFriendBook -----------------------------
(* FriendBook for TLC: friends are interchangeable.                         *)
EXTENDS FriendBook, TLC

FriendSymmetry == Permutations(Friends)
===============================================================================
