----------------------------- MODULE PeerContract -----------------------------
(***************************************************************************)
(* What BRPeer.c promises the peer manager about one peer: it comes up at  *)
(* most once and goes down exactly once, when it may be freed; a request   *)
(* with a completion callback is answered at most once, succeeds only      *)
(* while the peer is up, and none that was made before the link failed is  *)
(* still unanswered when the peer goes down.                               *)
(***************************************************************************)
CONSTANT Requests  \* calls of BRPeerSendPing and BRPeerSendMempool

VARIABLES phase,   \* "new", "up" after connected(), "down" after disconnected()
          answer   \* of each request: "unasked", "asked", "late", "ok", "failed"

vars == <<phase, answer>>

Init == phase = "new" /\ answer = [r \in Requests |-> "unasked"]

\* A request made while the link is coming down may get no answer: "late".
Ask(r) ==
  /\ phase # "down"
  /\ answer[r] = "unasked"
  /\ \E a \in {"asked", "late", "failed"} : answer' = [answer EXCEPT ![r] = a]
  /\ UNCHANGED phase

Answer(r) ==
  /\ phase # "down"
  /\ answer[r] = "asked"
  /\ \/ phase = "up" /\ answer' = [answer EXCEPT ![r] = "ok"]
     \/ answer' = [answer EXCEPT ![r] = "failed"]
  /\ UNCHANGED phase

ComeUp == phase = "new" /\ phase' = "up" /\ UNCHANGED answer

GoDown ==
  /\ phase # "down"
  /\ \A r \in Requests : answer[r] # "asked"
  /\ phase' = "down"
  /\ UNCHANGED answer

Next == ComeUp \/ GoDown \/ \E r \in Requests : Ask(r) \/ Answer(r)

Spec == Init /\ [][Next]_vars
=============================================================================
