---------------------------- MODULE MCFileTransfer ----------------------------
(* FileTransfer for TLC: two phones send a file each.         *)
EXTENDS FileTransfer, TLC

CONSTANTS f1, f2, p1, p2, mp4, m4a

TwoPhones == f1 :> p1 @@ f2 :> p2
Sizes     == f1 :> 2 @@ f2 :> 1
Types     == f1 :> mp4 @@ f2 :> m4a
===============================================================================
