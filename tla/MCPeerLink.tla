------------------------------ MODULE MCPeerLink ------------------------------
(* PeerLink for TLC: two requests, and three blocks, one of which has both   *)
(* transactions.                                                             *)
EXTENDS PeerLink, TLC

CONSTANTS r1, r2, t1, t2, b1, b2, b3

Matches == b1 :> {t1, t2} @@ b2 :> {} @@ b3 :> {}
Lists   == {<<>>, <<b1>>, <<b2, b3>>}
=============================================================================
