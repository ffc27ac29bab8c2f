------------------------------ MODULE MCPeerPool ------------------------------
(* PeerPool for TLC: two peers, one of them known to the seeds and higher.   *)
EXTENDS PeerPool, TLC

CONSTANTS p1, p2

Heights == p1 :> 0 @@ p2 :> 1
=============================================================================
