------------------------------- MODULE PeerProofs -------------------------------
(***************************************************************************)
(* A peer and the manager of peers.                                        *)
(*                                                                         *)
(* BRPeer.c (PeerLink) keeps its contract with the peer manager, relays    *)
(* blocks only when they are complete and remembers the blocks it did not  *)
(* request: for any requests, transactions and blocks, and any length of   *)
(* its list.                                                               *)
(*                                                                         *)
(* BRPeerManager.c (PeerPool): the download peer is a connected one, and   *)
(* no sync is left running when every peer is gone: for any addresses,     *)
(* heights, limits and any number of calls at once.                        *)
(***************************************************************************)
EXTENDS PeerLink, PeerPool, TLAPS, FiniteSetTheorems

-----------------------------------------------------------------------------
(* The invariant.  The manager was told what the status says.               *)
PhaseTrue ==
  /\ thread = "none" => phase = "new" /\ status # "connected"
  /\ phase = "down" <=> thread = "done"
  /\ status = "connecting" => phase = "new"
  /\ status = "connected" => phase = "up"
  /\ thread \in {"drain", "mempool", "clear", "report", "done"} => status = "disconnected"
  /\ busy => phase = "up"
  /\ pongs # <<>> \/ mempool # None => phase # "new"

Draining == {"mempool", "clear", "report", "done"}

(* The pings that wait are requests without an answer, each once.           *)
PongsAsked ==
  thread \notin Draining =>
    /\ \A i \in 1..Len(pongs) : answer[pongs[i]] = "asked"
    /\ \A i, j \in 1..Len(pongs) : pongs[i] = pongs[j] => i = j

(* So is the mempool request; it is among the pings only while it is handed *)
(* over to one.                                                             *)
MempoolAsked ==
  /\ mempool # None /\ thread \notin {"clear", "report", "done"} => answer[mempool] = "asked"
  /\ mempool # None /\ thread \notin Draining \cup {"forget"}
       => \A i \in 1..Len(pongs) : pongs[i] # mempool
  /\ thread = "forget" => \E i \in 1..Len(pongs) : pongs[i] = mempool

(* A request without an answer is one that will be answered or drained.     *)
AskedWaits ==
  /\ thread \notin Draining =>
       \A r \in Requests : answer[r] = "asked" => r = mempool \/ \E i \in 1..Len(pongs) : pongs[i] = r
  /\ thread = "mempool" => \A r \in Requests : answer[r] = "asked" => r = mempool
  /\ thread \in {"clear", "report", "done"} => \A r \in Requests : answer[r] # "asked"

(* What the block being completed needs was known, came, or is missing.     *)
BlockUnderway ==
  current # None => Matched[current] \subseteq missing \cup relayed \cup known

(* The types, by what they are of.                                          *)
LifeOK ==
  /\ thread \in {"none", "open", "dial", "fallback", "redial", "hello", "talk", "got",
                 "forget", "disarm", "close", "drain", "mempool", "clear", "report",
                 "done"}
  /\ status \in {"disconnected", "connecting", "connected"}
  /\ phase \in {"new", "up", "down"}

TruthOK == waiting \in BOOLEAN /\ open \in BOOLEAN /\ busy \in BOOLEAN /\ waits \in BOOLEAN

AsksOK ==
  /\ pongs \in Seq(Requests) /\ mempool \in Requests \cup {None}
  /\ answer \in [Requests -> {"unasked", "asked", "late", "ok", "failed"}]

ListsOK ==
  /\ blocks \in Seq(Blocks) /\ skipped \subseteq Blocks
  /\ last \in Blocks \cup {None} /\ current \in Blocks \cup {None}

SetsOK ==
  /\ flags \subseteq Flags
  /\ known \subseteq Txs /\ relayed \subseteq Txs /\ missing \subseteq Txs

GivenOK == given \in [block : Blocks, txs : SUBSET Txs] \cup {None}

-----------------------------------------------------------------------------
(* Types.                                                                   *)

LEMMA AppendType ==
  ASSUME NEW S, NEW s \in Seq(S), NEW x \in S
  PROVE  Append(s, x) \in Seq(S)
OBVIOUS

LEMMA TailType ==
  ASSUME NEW S, NEW s \in Seq(S), s # <<>>
  PROVE  Tail(s) \in Seq(S) /\ Head(s) \in S
OBVIOUS

LEMMA SuffixType ==
  ASSUME NEW S, NEW s \in Seq(S), NEW i \in 1..Len(s)
  PROVE  SubSeq(s, i, Len(s)) \in Seq(S)
OBVIOUS

LEMMA ConcatType ==
  ASSUME NEW S, NEW s \in Seq(S), NEW t \in Seq(S)
  PROVE  s \o t \in Seq(S)
OBVIOUS

LEMMA ToSetType ==
  ASSUME NEW S, NEW s \in Seq(S)
  PROVE  ToSet(s) \subseteq S
BY DEF ToSet

LEMMA ShortenedType ==
  ASSUME NEW s \in Seq(Blocks)
  PROVE  Shortened(s) \in Seq(Blocks)
<1>1. Len(s) \in Nat OBVIOUS
<1>2. Len(s) \div 3 + 1 \in 1..Len(s) + 1 BY <1>1
<1>3. SubSeq(s, Len(s) \div 3 + 1, Len(s)) \in Seq(Blocks) BY <1>1, <1>2
<1> QED BY <1>3 DEF Shortened

LEMMA RememberType ==
  ASSUME NEW s \in Seq(Blocks)
  PROVE  Remember(s) \in Seq(Blocks)
BY ShortenedType DEF Remember

LEMMA AnnouncedType ==
  ASSUME NEW B \in Invs
  PROVE  Announced(B) \in Seq(Blocks) /\ Len(Announced(B)) <= MaxKnown
BY InvsAssumption, KnownAssumption DEF Announced

LEMMA TypeParts == TypeOK <=> LifeOK /\ TruthOK /\ AsksOK /\ ListsOK /\ SetsOK /\ GivenOK
BY DEF TypeOK, LifeOK, TruthOK, AsksOK, ListsOK, SetsOK, GivenOK

LEMMA TypeWhole ==
  ASSUME LifeOK', TruthOK', AsksOK', ListsOK', SetsOK', GivenOK'
  PROVE  TypeOK'
BY DEF TypeOK, LifeOK, TruthOK, AsksOK, ListsOK, SetsOK, GivenOK

LEMMA TypeInit == Init => TypeOK
<1> SUFFICES ASSUME Init PROVE TypeOK
  OBVIOUS
<1>1. LifeOK BY DEF Init, LifeOK
<1>2. TruthOK BY DEF Init, TruthOK
<1>3. AsksOK BY DEF Init, AsksOK
<1>4. ListsOK BY DEF Init, ListsOK
<1>5. SetsOK BY DEF Init, SetsOK, Flags
<1>6. GivenOK BY DEF Init, GivenOK
<1> QED BY <1>1, <1>2, <1>3, <1>4, <1>5, <1>6, TypeParts

(* Steps that leave requests and data alone.                                *)
Quiet ==
  \/ Connect \/ OpenSocket \/ Dial \/ SayHello \/ LoopEnds \/ LinkFails \/ Disconnect \/ Close
  \/ Enter \/ Leave \/ Read

LEMMA QuietFrame == Quiet => UNCHANGED <<flags, asks, data>> /\ given' = None
BY DEF Quiet, Connect, OpenSocket, Dial, SayHello, LoopEnds, LinkFails, Disconnect, Close,
       Enter, Leave, Read

LEMMA TypeQuiet ==
  ASSUME TypeOK, Quiet
  PROVE  TypeOK'
<1>1. LifeOK'
  BY TypeParts DEF LifeOK, Quiet, Connect, OpenSocket, Dial, SayHello, LoopEnds, LinkFails,
         Disconnect, Close, Enter, Leave, Read, Fail, life
<1>2. TruthOK'
  <2>1. waits' = waits BY QuietFrame DEF asks
  <2> QED
    BY <2>1, TypeParts DEF TruthOK, Quiet, Connect, OpenSocket, Dial, SayHello, LoopEnds, LinkFails,
         Disconnect, Close, Enter, Leave, Read, SendMessage, life
<1>3. AsksOK' BY QuietFrame, TypeParts DEF AsksOK, asks
<1>4. ListsOK' BY QuietFrame, TypeParts DEF ListsOK, data
<1>5. SetsOK' BY QuietFrame, TypeParts DEF SetsOK, data
<1>6. GivenOK' BY QuietFrame DEF GivenOK
<1> QED BY <1>1, <1>2, <1>3, <1>4, <1>5, <1>6, TypeWhole

(* Steps that change requests and leave data alone.                         *)
Asking ==
  \/ DrainPongs \/ DropMempool \/ ClearMempool \/ MempoolTimeout \/ Forget \/ Disarm
  \/ AcceptPong \/ \E r \in Requests : SendPing(r)

LEMMA AskingFrame == Asking => UNCHANGED <<flags, data, busy, phase, status, waiting>> /\ given' = None
BY DEF Asking, DrainPongs, DropMempool, ClearMempool, MempoolTimeout, Forget, Disarm, AcceptPong, SendPing, Sends

LEMMA TypeAsking ==
  ASSUME TypeOK, Asking
  PROVE  TypeOK'
<1>1. LifeOK'
  <2>1. thread' \in {thread, "mempool", "clear", "report", "forget", "disarm", "talk"}
    BY DEF Asking, DrainPongs, DropMempool, ClearMempool, MempoolTimeout, Forget, Disarm, AcceptPong, SendPing,
           Sends, HandOver, Done
  <2> QED BY <2>1, AskingFrame, TypeParts DEF LifeOK
<1>2. TruthOK'
  <2>1. waits' \in {waits, FALSE}
    BY DEF Asking, DrainPongs, DropMempool, ClearMempool, MempoolTimeout, Forget, Disarm, AcceptPong, SendPing
  <2>2. open' \in {open, FALSE}
    BY DEF Asking, DrainPongs, DropMempool, ClearMempool, MempoolTimeout, Forget, Disarm, AcceptPong, SendPing,
           Sends, SendMessage
  <2> QED BY <2>1, <2>2, AskingFrame, TypeParts DEF TruthOK
<1>3. AsksOK'
  <2> USE TypeParts DEF AsksOK
  <2>1. CASE DrainPongs BY <2>1, TailType DEF DrainPongs
  <2>2. CASE DropMempool \/ ClearMempool BY <2>2 DEF DropMempool, ClearMempool
  <2>3. CASE MempoolTimeout BY <2>3, AppendType DEF MempoolTimeout, HandOver
  <2>4. CASE Forget \/ Disarm BY <2>4 DEF Forget, Disarm
  <2>5. CASE AcceptPong BY <2>5, TailType DEF AcceptPong
  <2>6. CASE \E r \in Requests : SendPing(r) BY <2>6, AppendType DEF SendPing, Missed
  <2> QED BY <2>1, <2>2, <2>3, <2>4, <2>5, <2>6 DEF Asking
<1>4. ListsOK' BY AskingFrame, TypeParts DEF ListsOK, data
<1>5. SetsOK' BY AskingFrame, TypeParts DEF SetsOK, data
<1>6. GivenOK' BY AskingFrame DEF GivenOK
<1> QED BY <1>1, <1>2, <1>3, <1>4, <1>5, <1>6, TypeWhole

(* Steps that leave requests alone.                                         *)
DataStep ==
  \/ SendFilterload \/ SendGetdata \/ \E b \in BOOLEAN : SetNeedsFilterUpdate(b)
  \/ \E t \in Txs : SendInv(t)
  \/ \E b \in Blocks : RerequestBlocks(b)
  \/ AcceptVersion \/ AcceptVerack \/ AcceptHeaders \/ AcceptAddr \/ AcceptGetdata \/ AcceptPing
  \/ AcceptNotice \/ Refuse
  \/ \E t \in Txs : AcceptTx(t)
  \/ \E b \in Blocks : AcceptMerkleblock(b)

LEMMA DataFrame == DataStep => UNCHANGED <<asks, busy, last, waiting>>
BY DEF DataStep, SendFilterload, SendGetdata, SetNeedsFilterUpdate, SendInv, RerequestBlocks,
       AcceptVersion, AcceptVerack, AcceptHeaders, AcceptAddr, AcceptGetdata, AcceptPing,
       AcceptNotice, Refuse, AcceptTx, AcceptMerkleblock, Sends, life, data

LEMMA TypeData ==
  ASSUME TypeOK, DataStep
  PROVE  TypeOK'
<1> USE DEF DataStep
<1>1. LifeOK'
  <2>1. thread' \in {thread, "talk", "close"}
    BY DEF SendFilterload, SendGetdata, SetNeedsFilterUpdate, SendInv, RerequestBlocks,
           AcceptVersion, AcceptVerack, AcceptHeaders, AcceptAddr, AcceptGetdata, AcceptPing,
           AcceptNotice, Refuse, AcceptTx, AcceptMerkleblock, Sends, life, Done, Fail
  <2>2. status' \in {status, "connected"} /\ phase' \in {phase, "up"}
    BY DEF SendFilterload, SendGetdata, SetNeedsFilterUpdate, SendInv, RerequestBlocks,
           AcceptVersion, AcceptVerack, AcceptHeaders, AcceptAddr, AcceptGetdata, AcceptPing,
           AcceptNotice, Refuse, AcceptTx, AcceptMerkleblock, Sends, life, DidConnect
  <2> QED BY <2>1, <2>2, TypeParts DEF LifeOK
<1>2. TruthOK'
  <2>1. open' \in {open, FALSE}
    BY DEF SendFilterload, SendGetdata, SetNeedsFilterUpdate, SendInv, RerequestBlocks,
           AcceptVersion, AcceptVerack, AcceptHeaders, AcceptAddr, AcceptGetdata, AcceptPing,
           AcceptNotice, Refuse, AcceptTx, AcceptMerkleblock, Sends, life, SendMessage
  <2> QED BY <2>1, DataFrame, TypeParts DEF TruthOK, asks
<1>3. AsksOK' BY DataFrame, TypeParts DEF AsksOK, asks
<1>4. ListsOK'
  <2>1. CASE \E b \in Blocks : RerequestBlocks(b)
    <3>1. blocks' = blocks \/ \E i \in 1..Len(blocks) : blocks' = SubSeq(blocks, i, Len(blocks))
      BY <2>1 DEF RerequestBlocks
    <3>4. blocks \in Seq(Blocks) BY TypeParts DEF ListsOK
    <3>5. blocks' \in Seq(Blocks) BY <3>1, <3>4, SuffixType
    <3>2. skipped' \subseteq skipped BY <2>1 DEF RerequestBlocks
    <3>3. current' = current BY <2>1 DEF RerequestBlocks
    <3> QED BY <3>5, <3>2, <3>3, DataFrame, TypeParts DEF ListsOK
  <2>2. CASE \E b \in Blocks : AcceptMerkleblock(b)
    BY <2>2, DataFrame, TypeParts DEF ListsOK, AcceptMerkleblock
  <2>3. CASE Refuse \/ \E t \in Txs : AcceptTx(t) BY <2>3, DataFrame, TypeParts DEF ListsOK, AcceptTx, Refuse
  <2>4. CASE \E t \in Txs : SendInv(t) BY <2>4, DataFrame, TypeParts DEF ListsOK, SendInv
  <2>5. CASE UNCHANGED data BY <2>5, DataFrame, TypeParts DEF ListsOK, data
  <2> QED BY <2>1, <2>2, <2>3, <2>4, <2>5 DEF SendFilterload, SendGetdata, SetNeedsFilterUpdate,
           AcceptVersion, AcceptVerack, AcceptHeaders, AcceptAddr, AcceptGetdata, AcceptPing,
           AcceptNotice
<1>5. SetsOK'
  <2>1. flags' \subseteq Flags
    BY TypeParts DEF SetsOK, Flags, SendFilterload, SendGetdata, SetNeedsFilterUpdate, SendInv,
           RerequestBlocks, AcceptVersion, AcceptVerack, AcceptHeaders, AcceptAddr, AcceptGetdata,
           AcceptPing, AcceptNotice, Refuse, AcceptTx, AcceptMerkleblock
  <2>2. CASE \E b \in Blocks : RerequestBlocks(b) \/ AcceptMerkleblock(b)
    BY <2>1, <2>2, MatchedAssumption, TypeParts DEF SetsOK, AcceptMerkleblock, RerequestBlocks
  <2>3. CASE Refuse \/ \E t \in Txs : AcceptTx(t) BY <2>1, <2>3, TypeParts DEF SetsOK, AcceptTx, Refuse
  <2>4. CASE \E t \in Txs : SendInv(t) BY <2>1, <2>4, TypeParts DEF SetsOK, SendInv
  <2>5. CASE UNCHANGED data BY <2>1, <2>5, TypeParts DEF SetsOK, data
  <2> QED BY <2>2, <2>3, <2>4, <2>5 DEF SendFilterload, SendGetdata, SetNeedsFilterUpdate,
           AcceptVersion, AcceptVerack, AcceptHeaders, AcceptAddr, AcceptGetdata, AcceptPing,
           AcceptNotice
<1>6. GivenOK'
  <2>1. CASE \E b \in Blocks : AcceptMerkleblock(b) BY <2>1 DEF GivenOK, AcceptMerkleblock
  <2>2. CASE \E t \in Txs : AcceptTx(t)
    BY <2>2, TypeParts, NoneAssumption DEF GivenOK, ListsOK, SetsOK, AcceptTx
  <2>3. CASE given' = None BY <2>3 DEF GivenOK
  <2> QED BY <2>1, <2>2, <2>3 DEF SendFilterload, SendGetdata, SetNeedsFilterUpdate,
           AcceptVersion, AcceptVerack, AcceptHeaders, AcceptAddr, AcceptGetdata, AcceptPing,
           AcceptNotice, SendInv, RerequestBlocks, Refuse
<1> QED BY <1>1, <1>2, <1>3, <1>4, <1>5, <1>6, TypeWhole

(* The other steps.                                                         *)
LEMMA TypeSendMempool ==
  ASSUME TypeOK, NEW r \in Requests, SendMempool(r)
  PROVE  TypeOK'
<1> USE TypeParts DEF SendMempool
<1>1. LifeOK' BY DEF LifeOK, Sends, life
<1>2. TruthOK' BY DEF TruthOK, Sends, life, SendMessage
<1>3. AsksOK' BY DEF AsksOK, Missed
<1>4. ListsOK' BY DEF ListsOK
<1>5. SetsOK' BY DEF SetsOK, Flags
<1>6. GivenOK' BY DEF GivenOK
<1> QED BY <1>1, <1>2, <1>3, <1>4, <1>5, <1>6, TypeWhole

LEMMA TypeReport ==
  ASSUME TypeOK, Report
  PROVE  TypeOK'
<1> USE TypeParts DEF Report
<1>1. LifeOK' BY DEF LifeOK
<1>2. TruthOK' BY DEF TruthOK
<1>3. AsksOK' BY DEF AsksOK
<1>4. ListsOK' BY DEF ListsOK
<1>5. SetsOK' BY DEF SetsOK
<1>6. GivenOK' BY DEF GivenOK
<1> QED BY <1>1, <1>2, <1>3, <1>4, <1>5, <1>6, TypeWhole

LEMMA TypeInv ==
  ASSUME TypeOK, NEW T \in SUBSET Txs, NEW B \in Invs, AcceptInv(T, B)
  PROVE  TypeOK'
<1>1. LifeOK' BY TypeParts DEF LifeOK, AcceptInv, HandOver, Done
<1>2. TruthOK' BY TypeParts DEF TruthOK, AcceptInv, SendMessage
<1>3. AsksOK'
  <2>1. pongs' \in {pongs, Append(pongs, mempool)} /\ (pongs' # pongs => mempool # None)
    BY DEF AcceptInv, HandOver, Answers
  <2>2. UNCHANGED <<mempool, answer>> BY DEF AcceptInv
  <2> QED BY <2>1, <2>2, AppendType, TypeParts DEF AsksOK
<1>4. ListsOK'
  <2> DEFINE news == Announced(B)
  <2>1. news \in Seq(Blocks) BY AnnouncedType
  <2>2. blocks' = Remember(blocks \o news) BY DEF AcceptInv
  <2>3. blocks \o news \in Seq(Blocks) BY <2>1, TypeParts, ConcatType DEF ListsOK
  <2>4. blocks' \in Seq(Blocks) BY <2>2, <2>3, RememberType
  <2>5. last' \in Blocks \cup {None}
    <3>1. last' = IF Len(news) = 1 THEN news[1] ELSE last BY DEF AcceptInv
    <3>2. Len(news) = 1 => news[1] \in Blocks BY <2>1
    <3> QED BY <3>1, <3>2, TypeParts DEF ListsOK
  <2>6. ToSet(news) \subseteq Blocks BY <2>1, ToSetType
  <2>7. skipped' \subseteq skipped \cup ToSet(news) BY DEF AcceptInv
  <2>8. current' = current BY DEF AcceptInv
  <2> HIDE DEF news
  <2> QED BY <2>4, <2>5, <2>6, <2>7, <2>8, TypeParts DEF ListsOK
<1>5. SetsOK' BY TypeParts DEF SetsOK, Flags, AcceptInv
<1>6. GivenOK' BY DEF GivenOK, AcceptInv
<1> QED BY <1>1, <1>2, <1>3, <1>4, <1>5, <1>6, TypeWhole

LEMMA NextKinds ==
  Next => \/ Quiet \/ Asking \/ DataStep \/ Report
          \/ \E r \in Requests : SendMempool(r)
          \/ \E T \in SUBSET Txs, B \in Invs : AcceptInv(T, B)
BY DEF Next, Thread, Handler, ManagerCalls, Quiet, Asking, DataStep

LEMMA TypeStep ==
  ASSUME TypeOK, [Next]_vars
  PROVE  TypeOK'
<1>1. CASE Next BY <1>1, NextKinds, TypeQuiet, TypeAsking, TypeData, TypeReport, TypeSendMempool, TypeInv
<1>2. CASE UNCHANGED vars
  BY <1>2 DEF TypeOK, vars, life, asks, data
<1> QED BY <1>1, <1>2

(* The variables keep their types: TypeOK of BRPeer.c's BRPeerContext.      *)
THEOREM TypeCorrect == Spec => []TypeOK
<1>1. TypeOK /\ [Next]_vars => TypeOK' BY TypeStep
<1> QED BY <1>1, TypeInit, PTL DEF Spec

-----------------------------------------------------------------------------
(* The requests.  What holds of them holds together.                        *)
AsksInv == PongsAsked /\ MempoolAsked /\ AskedWaits

(* Stages in which the pings are drained or have been, or the mempool       *)
(* request has two places.                                                  *)
Apart == {"mempool", "clear", "report", "done", "forget"}

LEMMA AsksInit == Init => AsksInv
BY NoneAssumption DEF Init, AsksInv, PongsAsked, MempoolAsked, AskedWaits, Draining

(* What leaves the requests alone keeps what holds of them.                 *)
LEMMA AsksKept ==
  ASSUME AsksInv, UNCHANGED asks, thread' = thread \/ {thread, thread'} \cap Apart = {}
  PROVE  AsksInv'
<1>1. UNCHANGED <<pongs, mempool, answer>> BY DEF asks
<1>2. \A s \in Apart : thread' = s <=> thread = s BY DEF Apart
<1>3. thread' \in Draining <=> thread \in Draining BY <1>2 DEF Apart, Draining
<1>4. thread' = "forget" <=> thread = "forget" BY <1>2 DEF Apart
<1>5. thread' = "mempool" <=> thread = "mempool" BY <1>2 DEF Apart
<1>6. thread' \in {"clear", "report", "done"} <=> thread \in {"clear", "report", "done"} BY <1>2 DEF Apart
<1>7. thread' \in Draining \cup {"forget"} <=> thread \in Draining \cup {"forget"} BY <1>3, <1>4
<1>8. PongsAsked' BY <1>1, <1>3 DEF AsksInv, PongsAsked
<1>9. MempoolAsked' BY <1>1, <1>4, <1>6, <1>7 DEF AsksInv, MempoolAsked
<1>10. AskedWaits' BY <1>1, <1>3, <1>5, <1>6 DEF AsksInv, AskedWaits
<1> QED BY <1>8, <1>9, <1>10 DEF AsksInv

LEMMA AsksQuiet ==
  ASSUME AsksInv, Quiet
  PROVE  AsksInv'
<1>1. thread' = thread \/ {thread, thread'} \cap Apart = {}
  BY DEF Apart, Quiet, Connect, OpenSocket, Dial, SayHello, LoopEnds, LinkFails, Disconnect, Close,
         Enter, Leave, Read, Fail, life
<1> QED BY <1>1, QuietFrame, AsksKept

LEMMA AsksData ==
  ASSUME AsksInv, DataStep
  PROVE  AsksInv'
<1>1. thread' = thread \/ {thread, thread'} \cap Apart = {}
  BY DEF DataStep, Apart, SendFilterload, SendGetdata, SetNeedsFilterUpdate, SendInv, RerequestBlocks,
         AcceptVersion, AcceptVerack, AcceptHeaders, AcceptAddr, AcceptGetdata, AcceptPing,
         AcceptNotice, Refuse, AcceptTx, AcceptMerkleblock, Sends, life, Done, Fail, Handles
<1> QED BY <1>1, DataFrame, AsksKept

(* The oldest ping is answered.                                             *)
LEMMA AsksAnswerFirst ==
  ASSUME TypeOK, AsksInv, pongs # <<>>, pongs' = Tail(pongs), NEW a \in {"ok", "failed"},
         answer' = [answer EXCEPT ![Head(pongs)] = a], UNCHANGED mempool,
         thread \notin Apart, thread' \notin Apart
  PROVE  AsksInv'
<1>1. /\ pongs \in Seq(Requests) /\ mempool \in Requests \cup {None}
      /\ answer \in [Requests -> {"unasked", "asked", "late", "ok", "failed"}]
  BY TypeParts DEF AsksOK
<1>2. /\ Len(pongs') = Len(pongs) - 1 /\ Len(pongs) \in Nat /\ Len(pongs) > 0
      /\ \A i \in 1..Len(pongs') : i + 1 \in 1..Len(pongs) /\ pongs'[i] = pongs[i + 1]
  BY <1>1
<1>3. Head(pongs) = pongs[1] /\ 1 \in 1..Len(pongs) /\ pongs[1] \in Requests BY <1>1, <1>2
<1>4. /\ \A i \in 1..Len(pongs) : answer[pongs[i]] = "asked" /\ pongs[i] \in Requests
      /\ \A i, j \in 1..Len(pongs) : pongs[i] = pongs[j] => i = j
      /\ mempool # None => answer[mempool] = "asked" /\ \A i \in 1..Len(pongs) : pongs[i] # mempool
      /\ \A r \in Requests : answer[r] = "asked" => r = mempool \/ \E i \in 1..Len(pongs) : pongs[i] = r
  BY <1>1 DEF AsksInv, PongsAsked, MempoolAsked, AskedWaits, Apart, Draining
<1>5. \A r \in Requests : answer'[r] = IF r = pongs[1] THEN a ELSE answer[r] BY <1>1, <1>3
<1>6. /\ thread' \notin Draining /\ thread' \notin {"clear", "report", "done"}
      /\ thread' # "forget" /\ thread' # "mempool"
  BY DEF Apart, Draining
<1>7. PongsAsked'
  <2>1. \A i \in 1..Len(pongs') : answer'[pongs'[i]] = "asked"
    <3> TAKE i \in 1..Len(pongs')
    <3>1. i + 1 \in 1..Len(pongs) /\ pongs'[i] = pongs[i + 1] /\ i + 1 # 1 BY <1>2
    <3>2. pongs[i + 1] # pongs[1] BY <3>1, <1>3, <1>4
    <3> QED BY <3>1, <3>2, <1>4, <1>5
  <2>2. \A i, j \in 1..Len(pongs') : pongs'[i] = pongs'[j] => i = j
    <3> TAKE i, j \in 1..Len(pongs')
    <3>1. /\ i + 1 \in 1..Len(pongs) /\ pongs'[i] = pongs[i + 1]
          /\ j + 1 \in 1..Len(pongs) /\ pongs'[j] = pongs[j + 1]
      BY <1>2
    <3>2. pongs[i + 1] = pongs[j + 1] => i + 1 = j + 1 BY <3>1, <1>4
    <3> QED BY <3>1, <3>2
  <2> QED BY <2>1, <2>2 DEF PongsAsked
<1>8. MempoolAsked'
  <2>1. mempool' # None => answer'[mempool'] = "asked" BY <1>1, <1>3, <1>4, <1>5
  <2>2. mempool' # None => \A i \in 1..Len(pongs') : pongs'[i] # mempool' BY <1>2, <1>4
  <2> QED BY <2>1, <2>2, <1>6 DEF MempoolAsked
<1>9. AskedWaits'
  <2>1. \A r \in Requests : answer'[r] = "asked" => r = mempool' \/ \E i \in 1..Len(pongs') : pongs'[i] = r
    <3> SUFFICES ASSUME NEW r \in Requests, answer'[r] = "asked", r # mempool
                 PROVE  \E i \in 1..Len(pongs') : pongs'[i] = r
      OBVIOUS
    <3>1. r # pongs[1] /\ answer[r] = "asked" BY <1>5
    <3>2. PICK i \in 1..Len(pongs) : pongs[i] = r BY <3>1, <1>4
    <3>3. i - 1 \in 1..Len(pongs') BY <3>1, <3>2, <1>2
    <3>4. pongs'[i - 1] = r BY <3>2, <3>3, <1>2
    <3> QED BY <3>3, <3>4
  <2> QED BY <2>1, <1>6 DEF AskedWaits
<1> QED BY <1>7, <1>8, <1>9 DEF AsksInv

(* A request is added to the pings that wait.                               *)
LEMMA Appended ==
  ASSUME NEW S, NEW s \in Seq(S), NEW x \in S
  PROVE  /\ Len(Append(s, x)) = Len(s) + 1 /\ Len(s) \in Nat
         /\ \A i \in 1..Len(s) : i \in 1..Len(s) + 1 /\ Append(s, x)[i] = s[i]
         /\ Append(s, x)[Len(s) + 1] = x /\ Len(s) + 1 \in 1..Len(s) + 1
         /\ \A i \in 1..Len(s) + 1 : i \in 1..Len(s) \/ i = Len(s) + 1
OBVIOUS

LEMMA AsksPing ==
  ASSUME TypeOK, PhaseTrue, AsksInv, NEW r \in Requests, SendPing(r)
  PROVE  AsksInv'
<1>1. /\ pongs \in Seq(Requests) /\ mempool \in Requests \cup {None}
      /\ answer \in [Requests -> {"unasked", "asked", "late", "ok", "failed"}]
  BY TypeParts DEF AsksOK
<1>2. /\ pongs' = Append(pongs, r) /\ mempool' = mempool /\ thread' = thread /\ answer[r] = "unasked"
      /\ \A q \in Requests : answer'[q] = IF q = r THEN Missed({"mempool", "clear", "report"}) ELSE answer[q]
  BY <1>1 DEF SendPing, Sends
<1>3. thread # "done" BY DEF SendPing, PhaseTrue
<1>4. /\ Len(pongs') = Len(pongs) + 1 /\ Len(pongs) \in Nat
      /\ \A i \in 1..Len(pongs) : i \in 1..Len(pongs') /\ pongs'[i] = pongs[i]
      /\ pongs'[Len(pongs')] = r /\ Len(pongs') \in 1..Len(pongs')
      /\ \A i \in 1..Len(pongs') : i \in 1..Len(pongs) \/ i = Len(pongs')
  BY <1>1, <1>2, Appended
<1>5. \A i \in 1..Len(pongs) : pongs[i] \in Requests BY <1>1
<1>6. thread \notin Draining => answer'[r] = "asked" BY <1>2 DEF Missed, Draining
<1>7. thread \in {"mempool", "clear", "report"} => answer'[r] = "late" BY <1>2 DEF Missed
<1>8. PongsAsked'
  <2> SUFFICES ASSUME thread \notin Draining
               PROVE  /\ \A i \in 1..Len(pongs') : answer'[pongs'[i]] = "asked"
                      /\ \A i, j \in 1..Len(pongs') : pongs'[i] = pongs'[j] => i = j
    BY <1>2 DEF PongsAsked
  <2>1. \A i \in 1..Len(pongs) : answer[pongs[i]] = "asked" /\ pongs[i] # r
    BY <1>2 DEF AsksInv, PongsAsked
  <2>2. \A i, j \in 1..Len(pongs) : pongs[i] = pongs[j] => i = j BY DEF AsksInv, PongsAsked
  <2>3. \A i \in 1..Len(pongs') : answer'[pongs'[i]] = "asked"
    <3> TAKE i \in 1..Len(pongs')
    <3>1. CASE i \in 1..Len(pongs) BY <3>1, <2>1, <1>2, <1>4, <1>5
    <3>2. CASE i = Len(pongs') BY <3>2, <1>4, <1>6
    <3> QED BY <3>1, <3>2, <1>4
  <2>4. \A i, j \in 1..Len(pongs') : pongs'[i] = pongs'[j] => i = j
    <3> TAKE i, j \in 1..Len(pongs')
    <3>1. CASE i \in 1..Len(pongs) /\ j \in 1..Len(pongs) BY <3>1, <2>2, <1>4
    <3>2. CASE i = Len(pongs') /\ j \in 1..Len(pongs) BY <3>2, <2>1, <1>4
    <3>3. CASE j = Len(pongs') /\ i \in 1..Len(pongs) BY <3>3, <2>1, <1>4
    <3> QED BY <3>1, <3>2, <3>3, <1>4
  <2> QED BY <2>3, <2>4
<1>9. MempoolAsked'
  <2>1. mempool # None /\ thread \notin {"clear", "report", "done"} => answer[mempool] = "asked" /\ mempool # r
    BY <1>2 DEF AsksInv, MempoolAsked
  <2>2. mempool # None /\ thread \notin {"clear", "report", "done"} => answer'[mempool] = "asked"
    BY <2>1, <1>1, <1>2
  <2>3. mempool # None /\ thread \notin Draining \cup {"forget"}
           => \A i \in 1..Len(pongs) : pongs[i] # mempool
    BY DEF AsksInv, MempoolAsked
  <2>4. mempool # None /\ thread \notin Draining \cup {"forget"}
           => \A i \in 1..Len(pongs') : pongs'[i] # mempool
    BY <2>1, <2>3, <1>4 DEF Draining
  <2>5. thread = "forget" => \E i \in 1..Len(pongs) : pongs[i] = mempool BY DEF AsksInv, MempoolAsked
  <2>6. thread = "forget" => \E i \in 1..Len(pongs') : pongs'[i] = mempool BY <2>5, <1>4
  <2> QED BY <2>2, <2>4, <2>6, <1>2 DEF MempoolAsked
<1>10. AskedWaits'
  <2>1. ASSUME thread \notin Draining, NEW q \in Requests, answer'[q] = "asked"
        PROVE  q = mempool \/ \E i \in 1..Len(pongs') : pongs'[i] = q
    <3>1. CASE q = r BY <3>1, <1>4
    <3>2. CASE q # r
      <4>1. answer[q] = "asked" BY <2>1, <3>2, <1>2
      <4>2. q = mempool \/ \E i \in 1..Len(pongs) : pongs[i] = q
        BY <4>1, <2>1 DEF AsksInv, AskedWaits
      <4> QED BY <4>2, <1>4
    <3> QED BY <3>1, <3>2
  <2>2. thread = "mempool" => \A q \in Requests : answer'[q] = "asked" => q = mempool
    BY <1>2, <1>7 DEF AsksInv, AskedWaits
  <2>3. thread \in {"clear", "report", "done"} => \A q \in Requests : answer'[q] # "asked"
    BY <1>2, <1>3, <1>7 DEF AsksInv, AskedWaits
  <2> QED BY <2>1, <2>2, <2>3, <1>2 DEF AskedWaits
<1> QED BY <1>8, <1>9, <1>10 DEF AsksInv

(* The mempool request is handed to a ping, and then forgotten.             *)
LEMMA AsksHandOver ==
  ASSUME TypeOK, AsksInv, mempool # None, thread \in {"talk", "got"}, HandOver,
         UNCHANGED <<mempool, answer>>
  PROVE  AsksInv'
<1>1. pongs \in Seq(Requests) /\ mempool \in Requests BY TypeParts DEF AsksOK
<1>2. pongs' = Append(pongs, mempool) /\ thread' = "forget" BY DEF HandOver
<1>3. /\ Len(pongs') = Len(pongs) + 1 /\ Len(pongs) \in Nat
      /\ \A i \in 1..Len(pongs) : i \in 1..Len(pongs') /\ pongs'[i] = pongs[i]
      /\ pongs'[Len(pongs')] = mempool /\ Len(pongs') \in 1..Len(pongs')
      /\ \A i \in 1..Len(pongs') : i \in 1..Len(pongs) \/ i = Len(pongs')
  BY <1>1, <1>2, Appended
<1>4. /\ \A i \in 1..Len(pongs) : answer[pongs[i]] = "asked" /\ pongs[i] # mempool
      /\ \A i, j \in 1..Len(pongs) : pongs[i] = pongs[j] => i = j
      /\ answer[mempool] = "asked"
      /\ \A q \in Requests : answer[q] = "asked" => q = mempool \/ \E i \in 1..Len(pongs) : pongs[i] = q
  BY DEF AsksInv, PongsAsked, MempoolAsked, AskedWaits, Draining
<1>5. PongsAsked'
  <2>1. \A i \in 1..Len(pongs') : answer[pongs'[i]] = "asked" BY <1>3, <1>4
  <2>2. \A i, j \in 1..Len(pongs') : pongs'[i] = pongs'[j] => i = j BY <1>3, <1>4
  <2> QED BY <2>1, <2>2 DEF PongsAsked
<1>6. MempoolAsked'
  <2>1. \E i \in 1..Len(pongs') : pongs'[i] = mempool BY <1>3
  <2> QED BY <2>1, <1>2, <1>4 DEF MempoolAsked
<1>7. AskedWaits'
  <2>1. \A q \in Requests : answer[q] = "asked" => q = mempool \/ \E i \in 1..Len(pongs') : pongs'[i] = q
    BY <1>3, <1>4
  <2> QED BY <2>1, <1>2 DEF AskedWaits
<1> QED BY <1>5, <1>6, <1>7 DEF AsksInv

LEMMA AsksForget ==
  ASSUME TypeOK, AsksInv, Forget \/ Disarm
  PROVE  AsksInv'
<1>1. CASE Forget
  <2>1. thread = "forget" /\ thread' = "disarm" /\ mempool' = None /\ UNCHANGED <<pongs, answer>>
    BY <1>1 DEF Forget
  <2>2. PongsAsked' BY <2>1 DEF AsksInv, PongsAsked, Draining
  <2>3. MempoolAsked' BY <2>1 DEF MempoolAsked
  <2>4. AskedWaits' BY <2>1 DEF AsksInv, AskedWaits, MempoolAsked, Draining
  <2> QED BY <2>2, <2>3, <2>4 DEF AsksInv
<1>2. CASE Disarm
  <2>1. thread = "disarm" /\ thread' = "talk" /\ UNCHANGED <<mempool, pongs, answer>>
    BY <1>2 DEF Disarm
  <2>2. PongsAsked' BY <2>1 DEF AsksInv, PongsAsked, Draining
  <2>3. MempoolAsked' BY <2>1 DEF AsksInv, MempoolAsked, Draining
  <2>4. AskedWaits' BY <2>1 DEF AsksInv, AskedWaits, Draining
  <2> QED BY <2>2, <2>3, <2>4 DEF AsksInv
<1> QED BY <1>1, <1>2

(* A request for the mempool.                                               *)
LEMMA AsksMempool ==
  ASSUME TypeOK, PhaseTrue, AsksInv, NEW r \in Requests, SendMempool(r)
  PROVE  AsksInv'
<1>1. /\ pongs \in Seq(Requests) /\ mempool \in Requests \cup {None} /\ None \notin Requests
      /\ answer \in [Requests -> {"unasked", "asked", "late", "ok", "failed"}]
  BY TypeParts, NoneAssumption DEF AsksOK
<1>2. pongs' = pongs /\ thread' = thread /\ answer[r] = "unasked" BY DEF SendMempool, Sends, life
<1>3. thread # "done" BY DEF SendMempool, PhaseTrue
<1>4. \A i \in 1..Len(pongs) : pongs[i] \in Requests BY <1>1
<1>5. thread \notin Draining => \A i \in 1..Len(pongs) : pongs[i] # r
  BY <1>2 DEF AsksInv, PongsAsked
<1>6. CASE /\ mempool = None /\ mempool' = r
           /\ answer' = [answer EXCEPT ![r] = Missed({"clear", "report"})]
  <2>1. \A q \in Requests : answer'[q] = IF q = r THEN Missed({"clear", "report"}) ELSE answer[q] BY <1>1, <1>6
  <2>2. thread \notin {"clear", "report"} => answer'[r] = "asked" BY <2>1 DEF Missed
  <2>3. thread \in {"clear", "report"} => answer'[r] = "late" BY <2>1 DEF Missed
  <2>4. PongsAsked' BY <1>2, <1>4, <1>5, <2>1 DEF AsksInv, PongsAsked
  <2>5. thread # "forget" BY <1>1, <1>4, <1>6 DEF AsksInv, MempoolAsked
  <2>6. MempoolAsked' BY <1>2, <1>3, <1>5, <1>6, <2>2, <2>5 DEF MempoolAsked
  <2>7. AskedWaits'
    <3>1. thread \notin Draining => \A q \in Requests : answer'[q] = "asked" =>
               q = r \/ \E i \in 1..Len(pongs) : pongs[i] = q
      BY <1>1, <1>6, <2>1 DEF AsksInv, AskedWaits
    <3>2. thread = "mempool" => \A q \in Requests : answer'[q] = "asked" => q = r
      BY <1>1, <1>6, <2>1 DEF AsksInv, AskedWaits
    <3>3. thread \in {"clear", "report", "done"} => \A q \in Requests : answer'[q] # "asked"
      BY <1>3, <2>1, <2>3 DEF AsksInv, AskedWaits
    <3> QED BY <3>1, <3>2, <3>3, <1>2, <1>6 DEF AskedWaits
  <2> QED BY <2>4, <2>6, <2>7 DEF AsksInv
<1>7. CASE mempool' = mempool /\ answer' = [answer EXCEPT ![r] = "failed"]
  <2>1. \A q \in Requests : answer'[q] = IF q = r THEN "failed" ELSE answer[q] BY <1>1, <1>7
  <2>2. PongsAsked' BY <1>2, <1>4, <1>5, <2>1 DEF AsksInv, PongsAsked
  <2>3. mempool # None /\ thread \notin {"clear", "report", "done"} => answer'[mempool] = "asked"
    BY <1>1, <1>2, <2>1 DEF AsksInv, MempoolAsked
  <2>4. MempoolAsked' BY <1>2, <1>7, <2>3 DEF AsksInv, MempoolAsked
  <2>5. AskedWaits' BY <1>2, <1>7, <2>1 DEF AsksInv, AskedWaits
  <2> QED BY <2>2, <2>4, <2>5 DEF AsksInv
<1> QED BY <1>6, <1>7 DEF SendMempool

(* The end of the link answers what is left.                                *)
LEMMA AsksDrained ==
  ASSUME TypeOK, AsksInv, DrainPongs \/ DropMempool \/ ClearMempool \/ Report
  PROVE  AsksInv'
<1>1. /\ pongs \in Seq(Requests) /\ mempool \in Requests \cup {None} /\ None \notin Requests
      /\ answer \in [Requests -> {"unasked", "asked", "late", "ok", "failed"}]
  BY TypeParts, NoneAssumption DEF AsksOK
<1>2. CASE DrainPongs /\ pongs # <<>>
  BY <1>2, AsksAnswerFirst DEF DrainPongs, Apart
<1>3. CASE DrainPongs /\ pongs = <<>>
  <2>1. /\ thread = "drain" /\ thread' = "mempool" /\ UNCHANGED <<pongs, mempool, answer>>
        /\ ~ \E i \in 1..Len(pongs) : TRUE
    BY <1>1, <1>3 DEF DrainPongs
  <2>2. PongsAsked' BY <2>1 DEF PongsAsked, Draining
  <2>3. MempoolAsked' BY <2>1 DEF AsksInv, MempoolAsked, Draining
  <2>4. AskedWaits' BY <2>1 DEF AsksInv, AskedWaits, Draining
  <2> QED BY <2>2, <2>3, <2>4 DEF AsksInv
<1>4. CASE DropMempool
  <2>1. thread = "mempool" /\ thread' = "clear" /\ UNCHANGED <<pongs, mempool>>
    BY <1>4 DEF DropMempool
  <2>2. \A q \in Requests : answer[q] = "asked" => q = mempool BY <2>1 DEF AsksInv, AskedWaits
  <2>3. \A q \in Requests : answer'[q] # "asked" BY <1>1, <1>4, <2>2 DEF DropMempool
  <2>4. PongsAsked' /\ MempoolAsked' BY <2>1 DEF PongsAsked, MempoolAsked, Draining
  <2>5. AskedWaits' BY <2>1, <2>3 DEF AskedWaits, Draining
  <2> QED BY <2>4, <2>5 DEF AsksInv
<1>6. CASE ClearMempool
  <2>1. thread = "clear" /\ thread' = "report" /\ mempool' = None /\ answer' = answer
    BY <1>6 DEF ClearMempool
  <2>2. \A q \in Requests : answer[q] # "asked" BY <2>1 DEF AsksInv, AskedWaits
  <2>3. PongsAsked' /\ MempoolAsked' BY <2>1 DEF PongsAsked, MempoolAsked, Draining
  <2>4. AskedWaits' BY <2>1, <2>2 DEF AskedWaits, Draining
  <2> QED BY <2>3, <2>4 DEF AsksInv
<1>5. CASE Report
  <2>1. thread = "report" /\ thread' = "done" /\ mempool' = None /\ answer' = answer BY <1>5 DEF Report
  <2>2. \A q \in Requests : answer[q] # "asked" BY <2>1 DEF AsksInv, AskedWaits
  <2>3. PongsAsked' /\ MempoolAsked' BY <2>1 DEF PongsAsked, MempoolAsked, Draining
  <2>4. AskedWaits' BY <2>1, <2>2 DEF AskedWaits, Draining
  <2> QED BY <2>3, <2>4 DEF AsksInv
<1> QED BY <1>2, <1>3, <1>4, <1>5, <1>6

LEMMA AsksReceive ==
  ASSUME TypeOK, AsksInv, NEW T \in SUBSET Txs, NEW B \in Invs, AcceptInv(T, B)
  PROVE  AsksInv'
<1>1. thread = "got" /\ UNCHANGED <<mempool, answer>> BY DEF AcceptInv, Handles
<1>2. CASE Answers(T) /\ HandOver BY <1>1, <1>2, AsksHandOver DEF Answers
<1>3. CASE Done /\ UNCHANGED pongs
  <2>1. waits' = waits /\ thread' = "talk" BY <1>3 DEF AcceptInv, Done
  <2> QED BY <1>1, <1>3, <2>1, AsksKept DEF asks, Apart
<1> QED BY <1>2, <1>3 DEF AcceptInv

LEMMA AsksStep ==
  ASSUME TypeOK, PhaseTrue, AsksInv, [Next]_vars
  PROVE  AsksInv'
<1>1. CASE Asking
  <2>1. CASE MempoolTimeout BY <2>1, AsksHandOver DEF MempoolTimeout
  <2>2. CASE AcceptPong BY <2>2, AsksAnswerFirst DEF AcceptPong, Handles, Done, Apart
  <2> QED BY <1>1, <2>1, <2>2, AsksDrained, AsksForget, AsksPing DEF Asking
<1>2. CASE UNCHANGED vars BY <1>2, AsksKept DEF vars, life
<1> QED BY <1>1, <1>2, NextKinds, AsksQuiet, AsksData, AsksDrained, AsksMempool, AsksReceive

-----------------------------------------------------------------------------
(* What the manager was told.                                               *)

LEMMA PhaseInit == Init => PhaseTrue
BY DEF Init, PhaseTrue

LEMMA PhaseStep ==
  ASSUME TypeOK, PhaseTrue, AsksInv, [Next]_vars
  PROVE  PhaseTrue'
<1>1. CASE Quiet
  <2>1. UNCHANGED <<pongs, mempool>> BY <1>1, QuietFrame DEF asks
  <2> QED
    BY <1>1, <2>1 DEF PhaseTrue, Quiet, Connect, OpenSocket, Dial, SayHello, LoopEnds, LinkFails,
       Disconnect, Close, Enter, Leave, Read, Fail, life
<1>2. CASE Asking
  <2>1. UNCHANGED <<busy, phase, status>> BY <1>2, AskingFrame
  <2>2. /\ thread' = thread \/ {thread, thread'} \cap {"none", "done"} = {}
        /\ thread' \in {"drain", "mempool", "clear", "report"}
             => thread \in {"drain", "mempool", "clear", "report"}
    BY <1>2 DEF Asking, DrainPongs, DropMempool, ClearMempool, MempoolTimeout, Forget, Disarm, AcceptPong,
       SendPing, Sends, HandOver, Done, Handles
  <2>3. pongs # <<>> \/ mempool # None \/ busy \/ (pongs' = <<>> /\ mempool' = None)
        \/ (pongs' = pongs /\ mempool' = mempool)
    BY <1>2 DEF Asking, DrainPongs, DropMempool, ClearMempool, MempoolTimeout, Forget, Disarm, AcceptPong, SendPing
  <2> QED BY <2>1, <2>2, <2>3 DEF PhaseTrue
<1>3. CASE DataStep
  <2>1. UNCHANGED <<busy, pongs, mempool>> BY <1>3, DataFrame DEF asks
  <2>2. \/ UNCHANGED <<thread, status, phase>>
        \/ thread = "got" /\ thread' \in {"talk", "close"} /\ UNCHANGED <<status, phase>>
        \/ /\ thread = "got" /\ thread' = "talk" /\ status = "connecting"
           /\ status' = "connected" /\ phase' = "up"
    BY <1>3 DEF DataStep, SendFilterload, SendGetdata, SetNeedsFilterUpdate, SendInv, RerequestBlocks,
       AcceptVersion, AcceptVerack, AcceptHeaders, AcceptAddr, AcceptGetdata, AcceptPing, DidConnect,
       AcceptNotice, Refuse, AcceptTx, AcceptMerkleblock, Sends, life, Done, Fail, Handles
  <2> QED BY <2>1, <2>2 DEF PhaseTrue
<1>4. CASE Report BY <1>4 DEF Report, PhaseTrue
<1>5. CASE \E r \in Requests : SendMempool(r) BY <1>5 DEF PhaseTrue, SendMempool, Sends, life
<1>6. CASE \E T \in SUBSET Txs, B \in Invs : AcceptInv(T, B)
  <2>1. UNCHANGED <<busy, phase, status, mempool>> /\ thread = "got" /\ thread' \in {"talk", "forget"}
    BY <1>6 DEF AcceptInv, Handles, HandOver, Done
  <2>2. pongs' = pongs \/ mempool # None BY <1>6 DEF AcceptInv, Answers
  <2> QED BY <2>1, <2>2 DEF PhaseTrue
<1>7. CASE UNCHANGED vars BY <1>7 DEF PhaseTrue, vars, life, asks
<1> QED BY <1>1, <1>2, <1>3, <1>4, <1>5, <1>6, <1>7, NextKinds

(* The inductive invariant of the connection.                               *)
THEOREM LinkInvariant == Spec => [](TypeOK /\ PhaseTrue /\ AsksInv)
<1>1. Init => TypeOK /\ PhaseTrue /\ AsksInv BY TypeInit, PhaseInit, AsksInit
<1>2. TypeOK /\ PhaseTrue /\ AsksInv /\ [Next]_vars => (TypeOK /\ PhaseTrue /\ AsksInv)'
  BY TypeStep, PhaseStep, AsksStep
<1> QED BY <1>1, <1>2, PTL DEF Spec

-----------------------------------------------------------------------------
(* The contract.                                                            *)

LEMMA ContractInit == Init => Contract!Init
BY DEF Init, Contract!Init

LEMMA ContractAnswer ==
  ASSUME TypeOK, NEW r \in Requests, answer[r] = "asked", phase # "down", phase' = phase,
         \/ answer' = [answer EXCEPT ![r] = "failed"]
         \/ phase = "up" /\ answer' = [answer EXCEPT ![r] = "ok"]
  PROVE  Contract!Next
BY DEF Contract!Next, Contract!Answer

LEMMA ContractStep ==
  ASSUME TypeOK, PhaseTrue, AsksInv, [Next]_vars
  PROVE  [Contract!Next]_Contract!vars
<1>1. /\ pongs \in Seq(Requests) /\ mempool \in Requests \cup {None}
  BY TypeParts DEF AsksOK
<1>2. CASE UNCHANGED <<phase, answer>> BY <1>2 DEF Contract!vars
<1>3. CASE Quiet
  <2>1. UNCHANGED phase
    BY <1>3 DEF Quiet, Connect, OpenSocket, Dial, SayHello, LoopEnds, LinkFails, Disconnect, Close,
         Enter, Leave, Read
  <2> QED BY <2>1, <1>2, <1>3, QuietFrame DEF asks
<1>4. CASE DataStep
  <2>1. UNCHANGED answer BY <1>4, DataFrame DEF asks
  <2>2. \/ phase' = phase
        \/ thread = "got" /\ status = "connecting" /\ phase' = "up"
    BY <1>4 DEF DataStep, SendFilterload, SendGetdata, SetNeedsFilterUpdate, SendInv, RerequestBlocks,
       AcceptVersion, AcceptVerack, AcceptHeaders, AcceptAddr, AcceptGetdata, AcceptPing, DidConnect,
       AcceptNotice, Refuse, AcceptTx, AcceptMerkleblock, life, Handles
  <2>3. phase' = phase \/ Contract!ComeUp BY <2>1, <2>2 DEF PhaseTrue, Contract!ComeUp
  <2> QED BY <2>1, <2>3, <1>2 DEF Contract!Next
<1>5. CASE pongs # <<>> /\ (DrainPongs \/ AcceptPong)
  <2>1. Head(pongs) \in Requests /\ Head(pongs) = pongs[1] /\ 1 \in 1..Len(pongs) BY <1>1, <1>5
  <2>2. thread \in {"drain", "got"} /\ phase' = phase
    BY <1>5 DEF DrainPongs, AcceptPong, Handles
  <2>3. answer[Head(pongs)] = "asked" BY <2>1, <2>2 DEF AsksInv, PongsAsked, Draining
  <2>4. phase = "up" BY <1>5, <2>2, TypeParts DEF PhaseTrue, LifeOK
  <2>5. \/ answer' = [answer EXCEPT ![Head(pongs)] = "failed"]
        \/ answer' = [answer EXCEPT ![Head(pongs)] = "ok"]
    BY <1>5 DEF DrainPongs, AcceptPong
  <2> QED BY <2>1, <2>2, <2>3, <2>4, <2>5, ContractAnswer
<1>6. CASE mempool # None /\ DropMempool
  <2>1. mempool \in Requests BY <1>1, <1>6
  <2>2. thread = "mempool" /\ phase' = phase /\ answer' = [answer EXCEPT ![mempool] = "failed"]
    BY <1>6 DEF DropMempool
  <2>3. answer[mempool] = "asked" /\ phase # "down" BY <1>6, <2>2 DEF AsksInv, MempoolAsked, PhaseTrue
  <2> QED BY <2>1, <2>2, <2>3, ContractAnswer
<1>7. CASE \E r \in Requests : SendPing(r) \/ SendMempool(r)
  <2>1. PICK r \in Requests : SendPing(r) \/ SendMempool(r) BY <1>7
  <2>2. /\ answer[r] = "unasked" /\ phase' = phase /\ phase # "down"
        /\ \E a \in {"asked", "late", "failed"} : answer' = [answer EXCEPT ![r] = a]
    BY <2>1 DEF SendPing, SendMempool, Missed, PhaseTrue
  <2>3. Contract!Ask(r) BY <2>2 DEF Contract!Ask
  <2> QED BY <2>3 DEF Contract!Next
<1>8. CASE Report
  <2>1. thread = "report" /\ phase' = "down" /\ answer' = answer BY <1>8 DEF Report
  <2>2. phase # "down" /\ \A r \in Requests : answer[r] # "asked"
    BY <2>1 DEF PhaseTrue, AsksInv, AskedWaits
  <2> QED BY <2>1, <2>2 DEF Contract!Next, Contract!GoDown
<1>9. CASE Asking
  <2>1. phase' = phase BY <1>9, AskingFrame
  <2>2. \/ UNCHANGED answer
        \/ pongs # <<>> /\ (DrainPongs \/ AcceptPong)
        \/ mempool # None /\ DropMempool
        \/ \E r \in Requests : SendPing(r)
    BY <1>9 DEF Asking, DrainPongs, DropMempool, ClearMempool, MempoolTimeout, Forget, Disarm, AcceptPong
  <2> QED BY <2>1, <2>2, <1>2, <1>5, <1>6, <1>7
<1>10. CASE \E T \in SUBSET Txs, B \in Invs : AcceptInv(T, B) BY <1>10, <1>2 DEF AcceptInv
<1>11. CASE UNCHANGED vars BY <1>11, <1>2 DEF vars, asks
<1> QED BY <1>3, <1>4, <1>7, <1>8, <1>9, <1>10, <1>11, NextKinds

(* The connection keeps the contract: BRPeer.c calls connected() at most    *)
(* once and disconnected() once and last, and every completion callback of  *)
(* BRPeerSendPing and BRPeerSendMempool at most once.                       *)
THEOREM ContractKept == Spec => KeepsContract
<1>1. Spec => [](TypeOK /\ PhaseTrue /\ AsksInv) BY LinkInvariant
<1>2. TypeOK /\ PhaseTrue /\ AsksInv /\ [Next]_vars => [Contract!Next]_Contract!vars BY ContractStep
<1> QED BY <1>1, <1>2, ContractInit, PTL DEF Spec, KeepsContract, Contract!Spec

-----------------------------------------------------------------------------
(* A block is relayed when its transactions are there.                      *)
BlockInv == BlockUnderway /\ BlockIsComplete

LEMMA BlockStep ==
  ASSUME TypeOK, BlockInv, [Next]_vars
  PROVE  BlockInv'
<1>1. \A b \in Blocks : Matched[b] \subseteq Txs BY MatchedAssumption
<1>2. CASE given' = None /\ UNCHANGED <<current, missing, relayed>> /\ known \subseteq known'
  BY <1>2 DEF BlockInv, BlockUnderway, BlockIsComplete
<1>3. CASE Quiet BY <1>3, <1>2, QuietFrame DEF data
<1>4. CASE Asking BY <1>4, <1>2, AskingFrame DEF data
<1>5. CASE Report BY <1>5 DEF Report, BlockInv, BlockUnderway, BlockIsComplete
<1>6. CASE \E r \in Requests : SendMempool(r) BY <1>6, <1>2 DEF SendMempool
<1>7. CASE \E T \in SUBSET Txs, B \in Invs : AcceptInv(T, B) BY <1>7, <1>2 DEF AcceptInv
<1>8. CASE DataStep
  <2>1. CASE Refuse BY <2>1, <1>2 DEF Refuse, BlockInv, BlockUnderway, BlockIsComplete
  <2>2. CASE (\E t \in Txs : SendInv(t)) \/ \E b \in Blocks : RerequestBlocks(b)
    BY <2>2, <1>2 DEF SendInv, RerequestBlocks
  <2>3. CASE \E b \in Blocks : AcceptMerkleblock(b)
    <3>1. PICK b \in Blocks : AcceptMerkleblock(b) BY <2>3
    <3>2. /\ missing' = Matched[b] \ known /\ UNCHANGED <<known, relayed>>
          /\ \/ current' = b /\ given' = None
             \/ missing' = {} /\ given' = [block |-> b, txs |-> {}] /\ current' = None
      BY <3>1 DEF AcceptMerkleblock, Handles
    <3>3. BlockUnderway' BY <3>2, <1>1 DEF BlockUnderway
    <3>4. BlockIsComplete' BY <3>2, <1>1 DEF BlockIsComplete
    <3> QED BY <3>3, <3>4 DEF BlockInv
  <2>4. CASE \E t \in Txs : AcceptTx(t)
    <3>1. PICK t \in Txs : AcceptTx(t) BY <2>4
    <3>2. /\ missing' = missing \ {t} /\ known' = known
          /\ \/ current' = None /\ given' = None
             \/ /\ current # None /\ current' = current /\ given' = None
                /\ relayed' = relayed \cup {t}
             \/ /\ current # None /\ missing' = {} /\ current' = None
                /\ given' = [block |-> current, txs |-> relayed \cup {t}]
      BY <3>1 DEF AcceptTx
    <3>3. current # None => Matched[current] \subseteq missing \cup relayed \cup known
      BY DEF BlockInv, BlockUnderway
    <3>4. BlockUnderway' BY <3>2, <3>3 DEF BlockUnderway
    <3>5. BlockIsComplete' BY <3>2, <3>3 DEF BlockIsComplete
    <3> QED BY <3>4, <3>5 DEF BlockInv
  <2>5. CASE UNCHANGED data /\ given' = None BY <2>5, <1>2 DEF data
  <2> QED BY <1>8, <2>1, <2>2, <2>3, <2>4, <2>5
          DEF DataStep, SendFilterload, SendGetdata, SetNeedsFilterUpdate, AcceptVersion,
              AcceptVerack, AcceptHeaders, AcceptAddr, AcceptGetdata, AcceptPing, AcceptNotice
<1>9. CASE UNCHANGED vars BY <1>9 DEF vars, data, BlockInv, BlockUnderway, BlockIsComplete
<1> QED BY <1>3, <1>4, <1>5, <1>6, <1>7, <1>8, <1>9, NextKinds

(* _BRPeerAcceptTxMessage relays a block only when each of its matching     *)
(* transactions was relayed after it or was known before.                   *)
THEOREM BlocksAreComplete == Spec => []BlockIsComplete
<1>1. Init => BlockInv BY DEF Init, BlockInv, BlockUnderway, BlockIsComplete
<1>2. TypeOK /\ BlockInv /\ [Next]_vars => BlockInv' BY BlockStep
<1>3. BlockInv => BlockIsComplete BY DEF BlockInv
<1> QED BY <1>1, <1>2, <1>3, TypeCorrect, PTL DEF Spec

-----------------------------------------------------------------------------
(* The blocks that were not requested stay in the list.                     *)
SkippedInv == SkippedIsKnown /\ Len(blocks) <= MaxKnown

LEMMA ThirdOf ==
  ASSUME NEW n \in Nat
  PROVE  n \div 3 \in Nat /\ 3 * (n \div 3) <= n /\ n <= 3 * (n \div 3) + 2
OBVIOUS

LEMMA Suffix ==
  ASSUME NEW S, NEW s \in Seq(S), NEW i \in 1..Len(s)
  PROVE  /\ SubSeq(s, i, Len(s)) \in Seq(S) /\ Len(SubSeq(s, i, Len(s))) = Len(s) - i + 1
         /\ \A j \in i..Len(s) : /\ j - i + 1 \in 1..Len(SubSeq(s, i, Len(s)))
                                 /\ SubSeq(s, i, Len(s))[j - i + 1] = s[j]
         /\ \A j \in 1..Len(s) - i + 1 : /\ j + i - 1 \in 1..Len(s)
                                         /\ SubSeq(s, i, Len(s))[j] = s[j + i - 1]
OBVIOUS

LEMMA ToSetSeq ==
  ASSUME NEW S, NEW s \in Seq(S), NEW x
  PROVE  x \in ToSet(s) <=> \E i \in 1..Len(s) : s[i] = x
BY DEF ToSet

LEMMA NotShortened ==
  ASSUME NEW s \in Seq(Blocks), ~(Len(s) > MaxKnown)
  PROVE  Shortened(s) = s
BY DEF Shortened

LEMMA ThirdGone ==
  ASSUME NEW s \in Seq(Blocks), Len(s) > MaxKnown
  PROVE  LET k == Len(s) \div 3
         IN  /\ Shortened(s) \in Seq(Blocks) /\ Len(Shortened(s)) = Len(s) - k
             /\ \A j \in k + 1..Len(s) : /\ j - k \in 1..Len(Shortened(s))
                                         /\ Shortened(s)[j - k] = s[j]
<1> DEFINE k == Len(s) \div 3
<1>1. Len(s) \in Nat /\ MaxKnown \in Nat /\ Len(s) > 0 BY KnownAssumption
<1>2. k \in Nat /\ 3 * k <= Len(s) BY <1>1, ThirdOf
<1>3. k + 1 \in 1..Len(s) /\ Shortened(s) = SubSeq(s, k + 1, Len(s)) BY <1>1, <1>2 DEF Shortened
<1> HIDE DEF k
<1>4. /\ Shortened(s) \in Seq(Blocks) /\ Len(Shortened(s)) = Len(s) - (k + 1) + 1
      /\ \A j \in k + 1..Len(s) : /\ j - (k + 1) + 1 \in 1..Len(Shortened(s))
                                  /\ Shortened(s)[j - (k + 1) + 1] = s[j]
  BY <1>3, Suffix
<1>5. Len(Shortened(s)) = Len(s) - k /\ \A j \in k + 1..Len(s) : j - (k + 1) + 1 = j - k
  BY <1>1, <1>2, <1>4
<1>6. \A j \in k + 1..Len(s) : j - k \in 1..Len(Shortened(s)) /\ Shortened(s)[j - k] = s[j]
  BY <1>4, <1>5
<1> QED BY <1>4, <1>5, <1>6 DEF k

LEMMA TwoThirds ==
  ASSUME NEW n \in Nat, NEW m \in Nat, m > 1, n > m, n <= 2 * m
  PROVE  /\ n - n \div 3 >= (2 * m) \div 3
         /\ n - n \div 3 > m => (n - n \div 3) - (n - n \div 3) \div 3 \in (2 * m) \div 3 .. m
<1> DEFINE a == n \div 3
<1> DEFINE b == (n - a) \div 3
<1> DEFINE c == (2 * m) \div 3
<1>1. a \in Nat /\ 3 * a <= n /\ n <= 3 * a + 2 BY ThirdOf
<1>2. n - a \in Nat BY <1>1
<1>3. b \in Nat /\ 3 * b <= n - a /\ n - a <= 3 * b + 2 BY <1>2, ThirdOf
<1>4. 2 * m \in Nat OBVIOUS
<1>5. c \in Nat /\ 3 * c <= 2 * m /\ 2 * m <= 3 * c + 2 BY <1>4, ThirdOf
<1> HIDE DEF a, b, c
<1>6. n - a >= c BY <1>1, <1>5
<1>7. n - a > m => (n - a) - b \in c .. m
  <2> SUFFICES ASSUME n - a > m PROVE (n - a) - b >= c /\ (n - a) - b <= m
    BY <1>1, <1>3, <1>5
  <2>1. (n - a) - b >= c BY <1>1, <1>3, <1>5
  <2>2. (n - a) - b <= m BY <1>1, <1>3, <1>5
  <2> QED BY <2>1, <2>2
<1> QED BY <1>6, <1>7 DEF a, b, c

(* A list as long as two announcements becomes the end of itself: no longer *)
(* than MaxKnown, and no shorter than two thirds of that.                   *)
LEMMA Remembered ==
  ASSUME NEW s \in Seq(Blocks), Len(s) <= 2 * MaxKnown
  PROVE  /\ Len(Remember(s)) <= MaxKnown
         /\ \A x \in ToSet(s) \ Older(s) : x \in ToSet(Remember(s))
<1>1. MaxKnown \in Nat /\ MaxKnown > 1 /\ Len(s) \in Nat BY KnownAssumption
<1>2. CASE Len(s) <= MaxKnown
  <2>1. Shortened(s) = s BY <1>1, <1>2 DEF Shortened
  <2> QED BY <1>2, <2>1 DEF Remember
<1>3. CASE Len(s) > MaxKnown
  <2> DEFINE L == Len(s)
             kept == (2 * MaxKnown) \div 3
             s1 == Shortened(s)
             k == L \div 3
             k1 == (L - k) \div 3
  <2>1. /\ s1 \in Seq(Blocks) /\ Len(s1) = L - k
        /\ \A j \in k + 1..L : j - k \in 1..Len(s1) /\ s1[j - k] = s[j]
    BY <1>3, ThirdGone
  <2>2. L - k >= kept /\ (L - k > MaxKnown => (L - k) - k1 \in kept .. MaxKnown)
    BY <1>1, <1>3, TwoThirds
  <2>3. k \in Nat /\ 3 * k <= L BY <1>1, ThirdOf
  <2>4. 2 * MaxKnown \in Nat BY <1>1
  <2>5. kept \in Nat /\ 3 * kept <= 2 * MaxKnown /\ kept > 0 BY <2>4, <1>1, ThirdOf
  <2>6. ASSUME NEW x \in ToSet(s) \ Older(s)
        PROVE  \E j \in L - kept + 1..L : s[j] = x
    <3> DEFINE f == L - kept + 1
               t == SubSeq(s, f, L)
    <3>1. x \in ToSet(t) BY <2>6, <1>3 DEF Older
    <3> HIDE DEF kept
    <3>2. f \in 1..L BY <1>1, <1>3, <2>5
    <3> HIDE DEF f
    <3>3. /\ t \in Seq(Blocks) /\ Len(t) = L - f + 1
          /\ \A j \in 1..L - f + 1 : j + f - 1 \in 1..L /\ t[j] = s[j + f - 1]
      BY <3>2, Suffix
    <3> HIDE DEF t
    <3>4. PICK i \in 1..Len(t) : t[i] = x BY <3>1, <3>3, ToSetSeq
    <3>5. i + f - 1 \in f..L /\ s[i + f - 1] = x BY <3>2, <3>3, <3>4, <1>1
    <3> QED BY <3>5 DEF f
  <2>7. CASE L - k <= MaxKnown
    <3>1. Shortened(s1) = s1 BY <2>7, <2>1, <1>1, <2>3, NotShortened
    <3>2. ASSUME NEW x \in ToSet(s) \ Older(s)
          PROVE  x \in ToSet(s1)
      <4>1. PICK j \in L - kept + 1..L : s[j] = x BY <2>6
      <4> HIDE DEF kept, k, L, s1
      <4>2. j \in k + 1..L BY <2>2, <2>3, <2>5, <1>1 DEF L
      <4>3. j - k \in 1..Len(s1) /\ s1[j - k] = x BY <4>1, <4>2, <2>1
      <4> QED BY <4>3, <2>1, ToSetSeq
    <3> QED BY <3>1, <3>2, <2>1, <2>7 DEF Remember
  <2>8. CASE L - k > MaxKnown
    <3> HIDE DEF s1, k, L
    <3>1. /\ Shortened(s1) \in Seq(Blocks) /\ Len(Shortened(s1)) = (L - k) - k1
          /\ \A j \in k1 + 1..L - k : j - k1 \in 1..Len(Shortened(s1)) /\ Shortened(s1)[j - k1] = s1[j]
      BY <2>1, <2>8, ThirdGone
    <3>2. Remember(s) = Shortened(s1) BY DEF Remember, s1
    <3>3. L - k \in Nat BY <1>1, <2>3 DEF L
    <3>4. k1 \in Nat BY <3>3, ThirdOf
    <3>5. ASSUME NEW x \in ToSet(s) \ Older(s)
          PROVE  x \in ToSet(Shortened(s1))
      <4>1. PICK j \in L - kept + 1..L : s[j] = x BY <2>6
      <4> HIDE DEF kept, k1
      <4>2. j \in k + 1..L BY <2>2, <2>3, <2>5, <1>1 DEF L
      <4>3. s1[j - k] = x BY <4>1, <4>2, <2>1
      <4>4. j - k \in k1 + 1..L - k BY <4>2, <2>2, <2>8, <2>3, <2>5, <3>4, <1>1 DEF L
      <4>5. (j - k) - k1 \in 1..Len(Shortened(s1)) /\ Shortened(s1)[(j - k) - k1] = x
        BY <4>3, <4>4, <3>1
      <4> QED BY <4>5, <3>1, ToSetSeq
    <3>6. (L - k) - k1 <= MaxKnown BY <2>2, <2>8
    <3> QED BY <3>1, <3>2, <3>5, <3>6
  <2> QED BY <2>7, <2>8, <2>3, <1>1
<1> QED BY <1>1, <1>2, <1>3

LEMMA BothSets ==
  ASSUME NEW S, NEW s \in Seq(S), NEW t \in Seq(S)
  PROVE  ToSet(s \o t) = ToSet(s) \cup ToSet(t)
<1>1. Len(s) \in Nat /\ Len(t) \in Nat /\ s \o t \in Seq(S) /\ Len(s \o t) = Len(s) + Len(t) OBVIOUS
<1>2. \A i \in 1..Len(s) : i \in 1..Len(s \o t) /\ (s \o t)[i] = s[i] BY <1>1
<1>3. \A i \in 1..Len(t) : Len(s) + i \in 1..Len(s \o t) /\ (s \o t)[Len(s) + i] = t[i] BY <1>1
<1>4. \A i \in 1..Len(s \o t) : \/ i \in 1..Len(s)
                                \/ i - Len(s) \in 1..Len(t) /\ i = Len(s) + (i - Len(s))
  BY <1>1
<1>5. ASSUME NEW x \in ToSet(s \o t) PROVE x \in ToSet(s) \cup ToSet(t)
  <2>1. PICK i \in 1..Len(s \o t) : (s \o t)[i] = x BY <1>1, ToSetSeq
  <2>2. CASE i \in 1..Len(s) BY <2>1, <2>2, <1>2, ToSetSeq
  <2>3. CASE i - Len(s) \in 1..Len(t) /\ i = Len(s) + (i - Len(s)) BY <2>1, <2>3, <1>3, ToSetSeq
  <2> QED BY <2>2, <2>3, <1>4
<1>6. ASSUME NEW x \in ToSet(s) PROVE x \in ToSet(s \o t)
  <2>1. PICK i \in 1..Len(s) : s[i] = x BY ToSetSeq
  <2> QED BY <2>1, <1>1, <1>2, ToSetSeq
<1>7. ASSUME NEW x \in ToSet(t) PROVE x \in ToSet(s \o t)
  <2>1. PICK i \in 1..Len(t) : t[i] = x BY ToSetSeq
  <2> QED BY <2>1, <1>1, <1>3, ToSetSeq
<1> QED BY <1>5, <1>6, <1>7

(* Announcing blocks keeps those that were skipped.                         *)
LEMMA SkippedReceive ==
  ASSUME TypeOK, SkippedInv, NEW T \in SUBSET Txs, NEW B \in Invs, AcceptInv(T, B)
  PROVE  SkippedInv'
<1> DEFINE news == Announced(B)
           full == blocks \o news
<1>1. /\ blocks \in Seq(Blocks) /\ news \in Seq(Blocks) /\ Len(news) <= MaxKnown
      /\ Len(blocks) <= MaxKnown /\ MaxKnown \in Nat /\ skipped \subseteq ToSet(blocks)
  BY TypeParts, AnnouncedType, KnownAssumption DEF ListsOK, SkippedInv, SkippedIsKnown
<1>2. blocks' = Remember(full) /\ skipped' \subseteq (skipped \cup ToSet(news)) \ Older(full)
  BY DEF AcceptInv
<1> HIDE DEF news
<1>3. full \in Seq(Blocks) /\ Len(full) = Len(blocks) + Len(news) BY <1>1
<1>4. ToSet(full) = ToSet(blocks) \cup ToSet(news) BY <1>1, BothSets
<1>5. Len(full) <= 2 * MaxKnown BY <1>1, <1>3
<1> HIDE DEF full
<1>6. Len(blocks') <= MaxKnown /\ \A x \in ToSet(full) \ Older(full) : x \in ToSet(blocks')
  BY <1>2, <1>3, <1>5, Remembered
<1> QED BY <1>1, <1>2, <1>4, <1>6 DEF SkippedInv, SkippedIsKnown

LEMMA SkippedRerequest ==
  ASSUME TypeOK, SkippedInv, NEW b \in Blocks, RerequestBlocks(b)
  PROVE  SkippedInv'
<1>1. blocks \in Seq(Blocks) /\ MaxKnown \in Nat /\ Len(blocks) \in Nat
  BY TypeParts, KnownAssumption DEF ListsOK
<1>2. CASE UNCHANGED <<blocks, skipped>> BY <1>2 DEF SkippedInv, SkippedIsKnown
<1>3. ASSUME NEW i \in 1..Len(blocks), blocks' = SubSeq(blocks, i, Len(blocks)),
             skipped' = skipped \ ToSet(blocks)
      PROVE  SkippedInv'
  <2>1. Len(blocks') <= Len(blocks) BY <1>1, <1>3, Suffix
  <2>2. skipped' = {} BY <1>3 DEF SkippedInv, SkippedIsKnown
  <2>3. Len(blocks') \in Nat BY <1>1, <1>3, SuffixType
  <2> QED BY <1>1, <2>1, <2>2, <2>3 DEF SkippedInv, SkippedIsKnown
<1> QED BY <1>2, <1>3 DEF RerequestBlocks

LEMMA SkippedStep ==
  ASSUME TypeOK, SkippedInv, [Next]_vars
  PROVE  SkippedInv'
<1>1. CASE UNCHANGED <<blocks, skipped>> BY <1>1 DEF SkippedInv, SkippedIsKnown
<1>2. CASE Quiet BY <1>1, <1>2, QuietFrame DEF data
<1>3. CASE Asking BY <1>1, <1>3, AskingFrame DEF data
<1>4. CASE Report
  <2>1. blocks' = <<>> /\ skipped' = {} BY <1>4 DEF Report
  <2> QED BY <2>1, KnownAssumption DEF SkippedInv, SkippedIsKnown
<1>5. CASE \E r \in Requests : SendMempool(r) BY <1>1, <1>5 DEF SendMempool
<1>6. CASE \E T \in SUBSET Txs, B \in Invs : AcceptInv(T, B) BY <1>6, SkippedReceive
<1>7. CASE DataStep
  <2>1. CASE \E b \in Blocks : RerequestBlocks(b) BY <2>1, SkippedRerequest
  <2> QED BY <1>1, <1>7, <2>1
          DEF DataStep, SendFilterload, SendGetdata, SetNeedsFilterUpdate, SendInv, AcceptVersion,
              AcceptVerack, AcceptHeaders, AcceptAddr, AcceptGetdata, AcceptPing, AcceptNotice,
              Refuse, AcceptTx, AcceptMerkleblock, data
<1>8. CASE UNCHANGED vars BY <1>1, <1>8 DEF vars, data
<1> QED BY <1>2, <1>3, <1>4, <1>5, <1>6, <1>7, <1>8, NextKinds

(* _BRPeerAcceptInvMessage keeps the announced blocks it did not request,   *)
(* up to two thirds of MAX_GETDATA_HASHES of them, whatever that is.        *)
THEOREM SkippedAreKnown == Spec => []SkippedIsKnown
<1>1. Init => SkippedInv BY KnownAssumption DEF Init, SkippedInv, SkippedIsKnown
<1>2. TypeOK /\ SkippedInv /\ [Next]_vars => SkippedInv' BY SkippedStep
<1>3. SkippedInv => SkippedIsKnown BY DEF SkippedInv
<1> QED BY <1>1, <1>2, <1>3, TypeCorrect, PTL DEF Spec

-----------------------------------------------------------------------------
(* The manager's invariant.  Somebody connects, or looks for peers.         *)
Searching == {"connect", "started", "find", "fill"}

Connecting == \E j \in Jobs : job[j] \in Searching

(* A sync without a peer is one for which somebody looks.                   *)
SyncIsTended == Connected = {} /\ syncing /\ ~stopped => Connecting

(* Once the failures have reached the limit, a sync without a download peer *)
(* goes on only if somebody is about to connect, who counts anew.           *)
LimitIsHeeded ==
  failures >= MaxFailures /\ syncing /\ download = NoPeer /\ ~stopped
    => \E j \in Jobs : job[j] = "connect"

(* The type invariant by what it is of.                                     *)
FlagsOK == syncing \in BOOLEAN /\ stopped \in BOOLEAN

HeightsOK ==
  /\ height \in 0..MaxHeight
  /\ estimated \in 0..MaxHeight \cup {LastBlock[p] : p \in Peers}
  /\ calls \in 0..MaxCalls /\ failures \in Nat

PeersOK ==
  /\ addrs \subseteq Peers /\ download \in Peers \cup {NoPeer}
  /\ conn \in [Peers -> {"none", "waiting", "unborn", "dialing", "up", "closing", "lost"}]
  /\ load \in [Peers -> {"none", "filter", "mempool"}]

JobsOK == job \in [Jobs -> {"none", "connect", "started", "find", "fill", "stopped", "wait"}]

PoolInv == PoolTypeOK /\ DownloadIsConnected /\ SyncIsTended /\ LimitIsHeeded

LEMMA PoolTypeParts == PoolTypeOK <=> FlagsOK /\ HeightsOK /\ PeersOK /\ JobsOK
BY DEF PoolTypeOK, FlagsOK, HeightsOK, PeersOK, JobsOK

LEMMA PoolInvWhole ==
  ASSUME FlagsOK', HeightsOK', PeersOK', JobsOK', DownloadIsConnected', SyncIsTended', LimitIsHeeded'
  PROVE  PoolInv'
BY DEF PoolInv, PoolTypeOK, FlagsOK, HeightsOK, PeersOK, JobsOK

LEMMA PoolInvInit == PoolInit => PoolInv
<1> SUFFICES ASSUME PoolInit PROVE PoolInv
  OBVIOUS
<1>1. FlagsOK BY DEF PoolInit, FlagsOK
<1>2. HeightsOK BY HeightsAssumption, LimitsAssumption DEF PoolInit, HeightsOK
<1>3. PeersOK BY DEF PoolInit, PeersOK
<1>4. JobsOK BY DEF PoolInit, JobsOK
<1>5. DownloadIsConnected /\ SyncIsTended /\ LimitIsHeeded
  BY DEF PoolInit, DownloadIsConnected, SyncIsTended, LimitIsHeeded
<1> QED BY <1>1, <1>2, <1>3, <1>4, <1>5, PoolTypeParts DEF PoolInv

-----------------------------------------------------------------------------
(* The jobs.                                                                *)

Steps == {"none", "connect", "started", "find", "fill", "stopped", "wait"}

(* A call that goes on takes a free place, and the others go on.            *)
LEMMA ContinueEffect ==
  ASSUME JobsOK, NEW step \in Steps, Continue(step)
  PROVE  /\ JobsOK'
         /\ \E j \in Jobs : job[j] = "none" /\ job'[j] = step
         /\ \A j \in Jobs : job[j] # "none" => job'[j] = job[j]
<1> DEFINE free == {j \in Jobs : job[j] = "none"}
           k    == CHOOSE j \in free : TRUE
<1>1. k \in free BY DEF Continue
<1>2. job' = [job EXCEPT ![k] = step] BY DEF Continue
<1> HIDE DEF k
<1>3. k \in Jobs /\ job[k] = "none" BY <1>1
<1> QED BY <1>2, <1>3 DEF JobsOK, Steps

LEMMA GoesEffect ==
  ASSUME JobsOK, NEW j \in Jobs, NEW step \in Steps, Goes(j, step)
  PROVE  JobsOK' /\ job'[j] = step /\ \A k \in Jobs : k # j => job'[k] = job[k]
BY DEF Goes, JobsOK, Steps

(* Who looks for peers is not disturbed by the jobs of others.              *)
LEMMA SearchersStay ==
  ASSUME \A j \in Jobs : job[j] \in Searching => job'[j] = job[j]
  PROVE  /\ Connecting => Connecting'
         /\ (\E j \in Jobs : job[j] = "connect") => \E j \in Jobs : job'[j] = "connect"
BY DEF Connecting, Searching

-----------------------------------------------------------------------------
(* Steps that neither begin a sync nor free a peer.                         *)
Lasting ==
  /\ FlagsOK' /\ HeightsOK' /\ PeersOK' /\ JobsOK'
  /\ syncing' => syncing
  /\ ~stopped' => ~stopped
  /\ failures' >= MaxFailures => failures >= MaxFailures
  /\ \A p \in Peers : conn[p] # "none" => conn'[p] # "none"
  /\ \/ download' = download
     \/ download' \in Peers /\ conn'[download'] # "none"
  /\ \A j \in Jobs : job[j] \in Searching => job'[j] = job[j]

LEMMA LastingKeeps ==
  ASSUME PoolInv, Lasting
  PROVE  PoolInv'
<1> USE DEF PoolInv
<1>1. PeersOK BY PoolTypeParts
<1>2. DownloadIsConnected' BY <1>1 DEF DownloadIsConnected, Connected, Lasting, PeersOK
<1>3. Connected' = {} => Connected = {} BY DEF Connected, Lasting
<1>4. SyncIsTended' BY <1>3, SearchersStay DEF SyncIsTended, Lasting
<1>5. download' = NoPeer => download = NoPeer
  BY <1>1, PeersAssumption DEF Lasting, PeersOK
<1>6. LimitIsHeeded' BY <1>5, SearchersStay DEF LimitIsHeeded, Lasting
<1> QED BY <1>2, <1>4, <1>6, PoolInvWhole DEF Lasting

LEMMA LoadMempoolsType ==
  ASSUME PeersOK, NEW up, NEW dl, LoadMempools(up, dl)
  PROVE  load' \in [Peers -> {"none", "filter", "mempool"}]
BY DEF PeersOK, LoadMempools

LEMMA LimitIsPositive == MaxFailures \in Nat /\ ~(0 >= MaxFailures)
BY LimitsAssumption

LEMMA PeerConnectedLasts ==
  ASSUME PoolInv, NEW p \in Peers, PeerConnected(p)
  PROVE  Lasting
<1> USE PoolTypeParts, LimitIsPositive DEF PoolInv
<1>1. UNCHANGED <<addrs, syncing, height, job, calls, stopped>>
  BY DEF PeerConnected, ConnectRefused, ConnectBeside, ConnectDownload, chain
<1>2. failures' \in {failures, 0}
  BY DEF PeerConnected, ConnectRefused, ConnectBeside, ConnectDownload
<1>3. load' \in [Peers -> {"none", "filter", "mempool"}]
  BY LoadMempoolsType
  DEF PeerConnected, ConnectRefused, ConnectBeside, ConnectDownload, Loading, PeersOK, chain
<1>4. /\ conn' \in [Peers -> {"none", "waiting", "unborn", "dialing", "up", "closing", "lost"}]
      /\ \A q \in Peers : conn[q] # "none" => conn'[q] # "none"
  <2>1. CASE ConnectRefused(p) BY <2>1 DEF ConnectRefused, PeersOK
  <2>2. CASE ConnectBeside(p) BY <2>2 DEF ConnectBeside, PeersOK
  <2>3. CASE ConnectDownload(p) BY <2>3 DEF ConnectDownload, PeersOK
  <2> QED BY <2>1, <2>2, <2>3 DEF PeerConnected
<1>5. /\ estimated' \in 0..MaxHeight \cup {LastBlock[q] : q \in Peers}
      /\ \/ download' = download
         \/ download' \in Peers /\ conn'[download'] # "none"
  <2>1. CASE ConnectRefused(p) \/ ConnectBeside(p)
    BY <2>1 DEF ConnectRefused, ConnectBeside, HeightsOK, chain
  <2>2. CASE ConnectDownload(p)
    <3>1. PICK best \in {p} \cup {q \in Up : LastBlock[q] >= LastBlock[p]} :
            download' = best /\ estimated' = LastBlock[best]
      BY <2>2 DEF ConnectDownload
    <3>2. best \in Peers /\ (best = p \/ conn[best] # "none") BY <3>1 DEF Up
    <3>3. conn'[p] = "up" BY <2>2 DEF ConnectDownload
    <3> QED BY <1>4, <3>1, <3>2, <3>3
  <2> QED BY <2>1, <2>2 DEF PeerConnected
<1>6. FlagsOK' /\ JobsOK' BY <1>1 DEF FlagsOK, JobsOK
<1>7. HeightsOK' BY <1>1, <1>2, <1>5 DEF HeightsOK
<1>8. PeersOK' BY <1>1, <1>3, <1>4, <1>5 DEF PeersOK
<1> QED BY <1>1, <1>2, <1>4, <1>5, <1>6, <1>7, <1>8 DEF Lasting

LEMMA RelayedBlockLasts ==
  ASSUME PoolInv, NEW p \in Peers, RelayedBlock(p)
  PROVE  Lasting
<1> USE PoolTypeParts, LimitIsPositive DEF PoolInv
<1>1. UNCHANGED <<addrs, conn, download, syncing, job, calls, stopped>> BY DEF RelayedBlock
<1>2. failures' \in {failures, 0} BY DEF RelayedBlock
<1>3. height' \in 0..MaxHeight BY HeightsAssumption DEF RelayedBlock, HeightsOK
<1>4. estimated' \in {estimated, height'} BY DEF RelayedBlock, Seen
<1>5. load' \in [Peers -> {"none", "filter", "mempool"}]
  BY LoadMempoolsType DEF RelayedBlock, PeersOK
<1>6. FlagsOK' /\ JobsOK' BY <1>1 DEF FlagsOK, JobsOK
<1>7. HeightsOK' BY <1>1, <1>2, <1>3, <1>4 DEF HeightsOK
<1>8. PeersOK' BY <1>1, <1>5 DEF PeersOK
<1> QED BY <1>1, <1>2, <1>6, <1>7, <1>8 DEF Lasting

(* Filters, mempools, lost links and new addresses.                         *)
LEMMA ServingLasts ==
  ASSUME PoolInv, NEW p \in Peers,
         FilterLoaded(p) \/ MempoolDone(p) \/ Lose(p) \/ LoadFails(p) \/ RelayedPeers(p)
  PROVE  Lasting
<1> USE PoolTypeParts DEF PoolInv
<1>1. UNCHANGED <<download, failures, height, estimated, calls, stopped>>
  BY DEF FilterLoaded, MempoolDone, Lose, LoadFails, RelayedPeers, pool, chain
<1>2. syncing' \in {syncing, FALSE}
  BY DEF FilterLoaded, MempoolDone, Lose, LoadFails, RelayedPeers, chain
<1>3. job' = job \/ Continue("stopped")
  BY DEF FilterLoaded, MempoolDone, Lose, LoadFails, RelayedPeers
<1>4. JobsOK' /\ \A j \in Jobs : job[j] \in Searching => job'[j] = job[j]
  BY <1>3, ContinueEffect DEF JobsOK, Steps, Searching
<1>5. addrs' \subseteq Peers
  BY DEF FilterLoaded, MempoolDone, Lose, LoadFails, RelayedPeers, PeersOK, pool
<1>6. /\ conn' \in [Peers -> {"none", "waiting", "unborn", "dialing", "up", "closing", "lost"}]
      /\ \A q \in Peers : conn[q] # "none" => conn'[q] # "none"
  BY DEF FilterLoaded, MempoolDone, Lose, LoadFails, RelayedPeers, PeersOK, pool
<1>7. load' \in [Peers -> {"none", "filter", "mempool"}]
  BY DEF FilterLoaded, MempoolDone, Lose, LoadFails, RelayedPeers, PeersOK, chain
<1>8. FlagsOK' BY <1>1, <1>2 DEF FlagsOK
<1>9. HeightsOK' BY <1>1 DEF HeightsOK
<1>10. PeersOK' BY <1>1, <1>5, <1>6, <1>7 DEF PeersOK
<1>11. (syncing' => syncing) /\ (~stopped' => ~stopped)
  <2>1. syncing' => syncing BY <1>2
  <2>2. ~stopped' => ~stopped BY <1>1
  <2> QED BY <2>1, <2>2
<1>12. (failures' >= MaxFailures => failures >= MaxFailures) /\ download' = download BY <1>1
<1> QED BY <1>4, <1>6, <1>8, <1>9, <1>10, <1>11, <1>12 DEF Lasting

LEMMA EndingLasts ==
  ASSUME PoolInv, NEW j \in Jobs, SyncStopped(j) \/ DisconnectReturns(j)
  PROVE  Lasting
<1> USE PoolTypeParts DEF PoolInv
<1>1. UNCHANGED <<addrs, conn, download, failures, syncing, height, estimated, load, calls, stopped>>
  BY DEF SyncStopped, DisconnectReturns, pool, chain
<1>2. Goes(j, "none") /\ job[j] \in {"stopped", "wait"} BY DEF SyncStopped, DisconnectReturns
<1>3. JobsOK' /\ \A k \in Jobs : job[k] \in Searching => job'[k] = job[k]
  BY <1>2, GoesEffect DEF Steps, Searching
<1>4. FlagsOK' BY <1>1 DEF FlagsOK
<1>5. HeightsOK' BY <1>1 DEF HeightsOK
<1>6. PeersOK' BY <1>1 DEF PeersOK
<1> QED BY <1>1, <1>3, <1>4, <1>5, <1>6 DEF Lasting

-----------------------------------------------------------------------------
(* BRPeerManagerConnect.                                                    *)

LEMMA NothingIsEmpty ==
  ASSUME NEW S \in SUBSET Peers
  PROVE  Cardinality(S) \in Nat /\ (Cardinality(S) = 0 <=> S = {})
<1>1. IsFiniteSet(S) BY FS_Subset, PeersAssumption
<1> QED BY <1>1, FS_CardinalityType, FS_EmptySet

(* After the dialling there is a peer, or the sync has ended.               *)
LEMMA FillEffect ==
  ASSUME PeersOK, FlagsOK, JobsOK, NEW j \in Jobs, NEW from \in SUBSET Peers,
         NEW c \in [Peers -> {"none", "waiting", "unborn", "dialing", "up", "closing", "lost"}],
         Fill(j, c, from)
  PROVE  /\ conn' \in [Peers -> {"none", "waiting", "unborn", "dialing", "up", "closing", "lost"}]
         /\ \A p \in Peers : c[p] # "none" => conn'[p] # "none"
         /\ syncing' \in {syncing, FALSE}
         /\ JobsOK' /\ \A k \in Jobs : k # j => job'[k] = job[k]
         /\ Connected' = {} => syncing' = FALSE
<1> DEFINE free  == {p \in from : c[p] = "none"}
           room  == IF Count(c) < MaxConnect THEN MaxConnect - Count(c) ELSE 0
           count == IF Cardinality(free) < room THEN Cardinality(free) ELSE room
<1>1. PICK new \in kSubset(count, free), how \in Dialled :
        /\ conn' = [p \in Peers |-> IF p \in new THEN how ELSE c[p]]
        /\ IF Count(c) + count = 0
             THEN syncing' = FALSE /\ Goes(j, "stopped")
             ELSE UNCHANGED syncing /\ Goes(j, "none")
  BY DEF Fill
<1>2. Count(c) \in Nat /\ (Count(c) = 0 <=> {p \in Peers : c[p] # "none"} = {})
  BY NothingIsEmpty DEF Count
<1>3. Cardinality(free) \in Nat BY NothingIsEmpty
<1>4. count \in Nat BY <1>2, <1>3, LimitsAssumption
<1> HIDE DEF count, free
<1>5. new \in SUBSET free /\ Cardinality(new) = count
  BY DEF kSubset
<1>6. new \in SUBSET Peers BY <1>5 DEF free
<1>7. how \in {"dialing", "waiting", "unborn"} BY DEF Dialled
<1>8. /\ conn' \in [Peers -> {"none", "waiting", "unborn", "dialing", "up", "closing", "lost"}]
      /\ \A p \in Peers : (c[p] # "none" \/ p \in new) => conn'[p] # "none"
  BY <1>1, <1>7
<1>9. syncing' \in {syncing, FALSE} BY <1>1
<1>10. JobsOK' /\ \A k \in Jobs : k # j => job'[k] = job[k]
  BY <1>1, GoesEffect DEF Steps
<1>11. ASSUME Connected' = {} PROVE Count(c) + count = 0
  <2>1. {p \in Peers : c[p] # "none"} = {} /\ new = {} BY <1>6, <1>8, <1>11 DEF Connected
  <2>2. Cardinality(new) = 0 BY <2>1, <1>6, NothingIsEmpty
  <2> QED BY <1>2, <1>5, <2>1, <2>2
<1>12. Connected' = {} => syncing' = FALSE BY <1>1, <1>11
<1> QED BY <1>8, <1>9, <1>10, <1>12

(* A call that dials leaves a peer behind it, looks on, or has ended the sync. *)
Dials(j) ==
  /\ conn' \in [Peers -> {"none", "waiting", "unborn", "dialing", "up", "closing", "lost"}]
  /\ \A p \in Peers : conn[p] # "none" => conn'[p] # "none"
  /\ syncing' \in {syncing, FALSE}
  /\ JobsOK' /\ \A k \in Jobs : k # j => job'[k] = job[k]
  /\ Connected' = {} => syncing' = FALSE \/ job'[j] \in Searching

LEMMA OpenPeersDials ==
  ASSUME PeersOK, FlagsOK, JobsOK, NEW j \in Jobs, OpenPeers(j)
  PROVE  Dials(j)
<1> DEFINE c(how) == [p \in Peers |-> IF conn[p] = "waiting" THEN how ELSE conn[p]]
<1>1. PICK how \in Dialled :
        \/ conn' = c(how) /\ Goes(j, "find") /\ UNCHANGED syncing
        \/ Fill(j, c(how), addrs)
  BY DEF OpenPeers
<1>2. /\ c(how) \in [Peers -> {"none", "waiting", "unborn", "dialing", "up", "closing", "lost"}]
      /\ \A p \in Peers : conn[p] # "none" => c(how)[p] # "none"
  BY <1>1 DEF Dialled, PeersOK
<1> HIDE DEF c
<1>3. CASE conn' = c(how) /\ Goes(j, "find") /\ UNCHANGED syncing
  <2>1. JobsOK' /\ job'[j] = "find" /\ \A k \in Jobs : k # j => job'[k] = job[k]
    BY <1>3, GoesEffect DEF Steps
  <2>2. syncing' \in {syncing, FALSE} BY <1>3
  <2> QED BY <1>2, <1>3, <2>1, <2>2 DEF Dials, Searching
<1>4. CASE Fill(j, c(how), addrs)
  <2>1. addrs \in SUBSET Peers BY DEF PeersOK
  <2>2. /\ conn' \in [Peers -> {"none", "waiting", "unborn", "dialing", "up", "closing", "lost"}]
        /\ \A p \in Peers : c(how)[p] # "none" => conn'[p] # "none"
        /\ syncing' \in {syncing, FALSE}
        /\ JobsOK' /\ \A k \in Jobs : k # j => job'[k] = job[k]
        /\ Connected' = {} => syncing' = FALSE
    BY <1>2, <1>4, <2>1, FillEffect
  <2>3. \A p \in Peers : conn[p] # "none" => conn'[p] # "none" BY <1>2, <2>2
  <2> QED BY <2>2, <2>3 DEF Dials
<1> QED BY <1>1, <1>3, <1>4

LEMMA FillDials ==
  ASSUME PeersOK, FlagsOK, JobsOK, NEW j \in Jobs, Fill(j, conn, addrs)
  PROVE  Dials(j)
<1>1. addrs \in SUBSET Peers
      /\ conn \in [Peers -> {"none", "waiting", "unborn", "dialing", "up", "closing", "lost"}]
  BY DEF PeersOK
<1> QED BY <1>1, FillEffect DEF Dials

(* Whoever dials without being about to connect keeps the invariant.        *)
LEMMA DialingKeeps ==
  ASSUME PoolInv, NEW j \in Jobs, Dials(j),
         UNCHANGED <<addrs, download, height, estimated, load, calls, stopped>>,
         \/ failures' = failures /\ job[j] # "connect"
         \/ failures' \in Nat /\ ~(failures' >= MaxFailures)
  PROVE  PoolInv'
<1> USE PoolTypeParts DEF PoolInv
<1>1. FlagsOK' BY DEF Dials, FlagsOK
<1>2. HeightsOK' BY DEF HeightsOK
<1>3. PeersOK' BY DEF PeersOK, Dials
<1>4. DownloadIsConnected' BY DEF DownloadIsConnected, Connected, Dials, PeersOK
<1>5. ASSUME Connected' = {}, syncing' PROVE Connecting'
  BY <1>5 DEF Dials, Connecting
<1>6. SyncIsTended' BY <1>5 DEF SyncIsTended
<1>7. syncing' => syncing BY DEF Dials
<1>8. ASSUME failures' >= MaxFailures, syncing', download' = NoPeer, ~stopped'
      PROVE  \E k \in Jobs : job'[k] = "connect"
  <2>1. failures >= MaxFailures /\ job[j] # "connect" BY <1>8
  <2>2. PICK k \in Jobs : job[k] = "connect" BY <1>7, <1>8, <2>1 DEF LimitIsHeeded
  <2> QED BY <2>1, <2>2 DEF Dials
<1>9. LimitIsHeeded' BY <1>8 DEF LimitIsHeeded
<1>10. JobsOK' BY DEF Dials
<1> QED BY <1>1, <1>2, <1>3, <1>4, <1>6, <1>9, <1>10, PoolInvWhole

LEMMA ConnectBeginsKeeps ==
  ASSUME PoolInv, NEW j \in Jobs, ConnectBegins(j)
  PROVE  PoolInv'
<1> USE PoolTypeParts DEF PoolInv
<1>1. UNCHANGED <<addrs, download, height, estimated, load, calls, stopped>>
  BY DEF ConnectBegins
<1>2. failures' \in Nat /\ ~(failures' >= MaxFailures)
  BY LimitIsPositive DEF ConnectBegins, HeightsOK
<1>3. ASSUME syncing' = TRUE, Goes(j, "started"), UNCHANGED conn
      PROVE  PoolInv'
  <2>1. JobsOK' /\ job'[j] = "started" BY <1>3, GoesEffect DEF Steps
  <2>2. FlagsOK' BY <1>1, <1>3 DEF FlagsOK
  <2>3. HeightsOK' BY <1>1, <1>2 DEF HeightsOK
  <2>4. PeersOK' BY <1>1, <1>3 DEF PeersOK
  <2>5. DownloadIsConnected' BY <1>1, <1>3 DEF DownloadIsConnected, Connected
  <2>6. SyncIsTended' BY <2>1 DEF SyncIsTended, Connecting, Searching
  <2>7. LimitIsHeeded' BY <1>2 DEF LimitIsHeeded
  <2> QED BY <2>1, <2>2, <2>3, <2>4, <2>5, <2>6, <2>7, PoolInvWhole
<1>4. ASSUME OpenPeers(j) PROVE PoolInv'
  <2>1. Dials(j) BY <1>4, OpenPeersDials
  <2> QED BY <1>1, <1>2, <2>1, DialingKeeps
<1> QED BY <1>3, <1>4 DEF ConnectBegins

LEMMA SyncStartedKeeps ==
  ASSUME PoolInv, NEW j \in Jobs, SyncStarted(j)
  PROVE  PoolInv'
<1>1. Dials(j) BY OpenPeersDials, PoolTypeParts DEF PoolInv, SyncStarted
<1> QED BY <1>1, DialingKeeps DEF SyncStarted

LEMMA FindPeersKeeps ==
  ASSUME PoolInv, NEW j \in Jobs, FindPeers(j)
  PROVE  PoolInv'
<1>1. Dials(j) BY FillDials, PoolTypeParts DEF PoolInv, FindPeers
<1> QED BY <1>1, DialingKeeps DEF FindPeers

LEMMA SeedsAnswerKeeps ==
  ASSUME PoolInv, NEW j \in Jobs, SeedsAnswer(j)
  PROVE  PoolInv'
<1> USE PoolTypeParts DEF PoolInv
<1>1. UNCHANGED <<conn, download, failures, syncing, height, estimated, load, calls, stopped>>
  BY DEF SeedsAnswer, chain
<1>2. JobsOK' /\ job'[j] = "fill" /\ \A k \in Jobs : k # j => job'[k] = job[k]
  BY GoesEffect DEF SeedsAnswer, Steps
<1>3. FlagsOK' BY <1>1 DEF FlagsOK
<1>4. HeightsOK' BY <1>1 DEF HeightsOK
<1>5. PeersOK' BY <1>1, PeersAssumption DEF SeedsAnswer, PeersOK
<1>6. DownloadIsConnected' BY <1>1 DEF DownloadIsConnected, Connected
<1>7. SyncIsTended' BY <1>2 DEF SyncIsTended, Connecting, Searching
<1>8. (\E k \in Jobs : job[k] = "connect") => \E k \in Jobs : job'[k] = "connect"
  BY <1>2 DEF SeedsAnswer
<1>9. LimitIsHeeded' BY <1>1, <1>8 DEF LimitIsHeeded
<1> QED BY <1>2, <1>3, <1>4, <1>5, <1>6, <1>7, <1>9, PoolInvWhole

-----------------------------------------------------------------------------
(* _peerDisconnected.                                                       *)

LEMMA PeerDisconnectedKeeps ==
  ASSUME PoolInv, NEW p \in Peers, PeerDisconnected(p)
  PROVE  PoolInv'
<1> USE PoolTypeParts DEF PoolInv
<1>1. PICK error \in {"none", "proto", "other"} :
        LET dl    == DownloadWithout(p)
            fails == Counted(p, IF error = "other" THEN failures + 1 ELSE failures)
        IN  /\ failures' = fails /\ download' = dl
            /\ conn' = [conn EXCEPT ![p] = "none"]
            /\ \/ /\ dl = NoPeer /\ fails = MaxFailures
                  /\ syncing' = FALSE /\ addrs' = {} /\ Continue("stopped")
               \/ /\ fails < MaxFailures
                  /\ addrs' \in Forgotten(p, error) /\ Continue("connect")
                  /\ UNCHANGED syncing
               \/ /\ fails >= MaxFailures /\ ~(dl = NoPeer /\ fails = MaxFailures)
                  /\ addrs' \in Forgotten(p, error)
                  /\ UNCHANGED <<syncing, job>>
  BY DEF PeerDisconnected
<1>2. UNCHANGED <<height, estimated, load, calls, stopped>> BY DEF PeerDisconnected
<1>3. conn' = [conn EXCEPT ![p] = "none"] BY <1>1
<1>4. download' \in Peers \cup {NoPeer} /\ download' # p /\ download' \in {download, NoPeer}
  BY <1>1, PeersAssumption DEF DownloadWithout, PeersOK
<1>5. failures' \in Nat BY <1>1, LimitIsPositive DEF Counted, HeightsOK
<1>6. addrs' \subseteq Peers BY <1>1 DEF Forgotten, PeersOK
<1>7. syncing' \in {syncing, FALSE} BY <1>1
<1>8. /\ JobsOK'
      /\ \A j \in Jobs : job[j] # "none" => job'[j] = job[j]
  BY <1>1, ContinueEffect DEF Steps, JobsOK
<1>9. FlagsOK' BY <1>2, <1>7 DEF FlagsOK
<1>10. HeightsOK' BY <1>2, <1>5 DEF HeightsOK
<1>11. PeersOK' BY <1>2, <1>3, <1>4, <1>6 DEF PeersOK
<1>12. DownloadIsConnected' BY <1>3, <1>4 DEF DownloadIsConnected, Connected, PeersOK
<1>13. \/ syncing' = FALSE
       \/ \E j \in Jobs : job'[j] = "connect"
       \/ failures' >= MaxFailures /\ ~(download' = NoPeer /\ failures' = MaxFailures)
  BY <1>1, ContinueEffect DEF Steps
(* Beyond the limit the failures are only counted for a peer beside a        *)
(* download peer, or when the last download peer is gone already.            *)
<1>14. ASSUME failures' >= MaxFailures, failures' # MaxFailures, download' = NoPeer
       PROVE  download = NoPeer /\ failures >= MaxFailures
  BY <1>1, <1>14, LimitIsPositive DEF Counted, DownloadWithout, HeightsOK
<1>15. ASSUME syncing', download' = NoPeer, ~stopped'
       PROVE  \E j \in Jobs : job'[j] = "connect"
  <2>1. CASE failures' >= MaxFailures /\ ~(download' = NoPeer /\ failures' = MaxFailures)
    <3>1. download = NoPeer /\ failures >= MaxFailures BY <1>14, <1>15, <2>1
    <3>2. syncing /\ ~stopped BY <1>2, <1>7, <1>15
    <3>3. PICK j \in Jobs : job[j] = "connect" BY <3>1, <3>2 DEF LimitIsHeeded
    <3> QED BY <1>8, <3>3
  <2> QED BY <1>13, <1>15, <2>1
<1>16. LimitIsHeeded' BY <1>15 DEF LimitIsHeeded
<1>17. Connected' = {} => download' = NoPeer BY <1>12 DEF DownloadIsConnected
<1>18. SyncIsTended' BY <1>15, <1>17 DEF SyncIsTended, Connecting, Searching
<1> QED BY <1>8, <1>9, <1>10, <1>11, <1>12, <1>16, <1>18, PoolInvWhole

-----------------------------------------------------------------------------
(* The application's calls.                                                 *)

LEMMA DroppedKeeps ==
  ASSUME PeersOK, NEW S, conn' \in Dropped(S)
  PROVE  /\ conn' \in [Peers -> {"none", "waiting", "unborn", "dialing", "up", "closing", "lost"}]
         /\ \A p \in Peers : conn[p] # "none" => conn'[p] # "none"
<1>1. PICK near \in SUBSET S :
        conn' = [p \in Peers |-> CASE p \in S /\ conn[p] = "up"                      -> "closing"
                                   [] p \in S /\ conn[p] = "dialing" /\ p \in near -> "lost"
                                   [] OTHER                                         -> conn[p]]
  BY DEF Dropped
<1> QED BY <1>1 DEF PeersOK

LEMMA CallEffect ==
  ASSUME HeightsOK, JobsOK, NEW step \in Steps, Call(step)
  PROVE  /\ calls' \in 0..MaxCalls /\ JobsOK'
         /\ \E j \in Jobs : job'[j] = step
  BY ContinueEffect, LimitsAssumption DEF Call, HeightsOK

LEMMA ApplicationKeeps ==
  ASSUME PoolInv, ManagerConnect \/ ManagerDisconnect \/ Rescan
  PROVE  PoolInv'
<1> USE PoolTypeParts DEF PoolInv
<1>1. PICK step \in {"connect", "wait"} : Call(step) /\ (step = "connect" \/ stopped' = TRUE)
  BY DEF ManagerConnect, ManagerDisconnect, Rescan
<1>2. /\ calls' \in 0..MaxCalls /\ JobsOK'
      /\ \E j \in Jobs : job'[j] = step
  BY <1>1, CallEffect DEF Steps
<1>3. UNCHANGED <<download, estimated, load>>
  BY DEF ManagerConnect, ManagerDisconnect, Rescan, pool, chain
<1>4. /\ conn' \in [Peers -> {"none", "waiting", "unborn", "dialing", "up", "closing", "lost"}]
      /\ \A p \in Peers : conn[p] # "none" => conn'[p] # "none"
  <2>1. CASE ManagerConnect BY <2>1 DEF ManagerConnect, pool, PeersOK
  <2>2. CASE ManagerDisconnect BY <2>2, DroppedKeeps DEF ManagerDisconnect
  <2>3. CASE Rescan BY <2>3, DroppedKeeps DEF Rescan
  <2> QED BY <2>1, <2>2, <2>3
<1>5. addrs' \subseteq Peers BY DEF ManagerConnect, ManagerDisconnect, Rescan, pool, PeersOK
<1>6. failures' \in Nat
  BY LimitIsPositive DEF ManagerConnect, ManagerDisconnect, Rescan, pool, HeightsOK
<1>7. height' \in 0..MaxHeight
  BY HeightsAssumption DEF ManagerConnect, ManagerDisconnect, Rescan, chain, HeightsOK
<1>8. FlagsOK' BY DEF ManagerConnect, ManagerDisconnect, Rescan, chain, FlagsOK
<1>9. HeightsOK' BY <1>2, <1>3, <1>6, <1>7 DEF HeightsOK
<1>10. PeersOK' BY <1>3, <1>4, <1>5 DEF PeersOK
<1>11. DownloadIsConnected' BY <1>3, <1>4 DEF DownloadIsConnected, Connected
<1>12. stopped' = TRUE \/ \E j \in Jobs : job'[j] = "connect" BY <1>1, <1>2
<1>13. SyncIsTended' BY <1>12 DEF SyncIsTended, Connecting, Searching
<1>14. LimitIsHeeded' BY <1>12 DEF LimitIsHeeded
<1> QED BY <1>2, <1>8, <1>9, <1>10, <1>11, <1>13, <1>14, PoolInvWhole

-----------------------------------------------------------------------------
LEMMA StutterKeeps ==
  ASSUME PoolInv, UNCHANGED poolVars
  PROVE  PoolInv'
<1>1. UNCHANGED <<addrs, conn, download, failures, syncing, height, estimated, load, job, calls, stopped>>
  BY DEF poolVars, pool, chain
<1> QED BY <1>1 DEF PoolInv, PoolTypeOK, DownloadIsConnected, SyncIsTended, LimitIsHeeded,
                    Connected, Connecting

LEMMA PoolInvNext == PoolInv /\ [PoolNext]_poolVars => PoolInv'
<1> SUFFICES ASSUME PoolInv, [PoolNext]_poolVars PROVE PoolInv'
  OBVIOUS
<1>1. ASSUME NEW j \in Jobs, Running(j) PROVE PoolInv'
  <2>1. CASE ConnectBegins(j) BY <2>1, ConnectBeginsKeeps
  <2>2. CASE SyncStarted(j) BY <2>2, SyncStartedKeeps
  <2>3. CASE SeedsAnswer(j) BY <2>3, SeedsAnswerKeeps
  <2>4. CASE FindPeers(j) BY <2>4, FindPeersKeeps
  <2>5. CASE SyncStopped(j) \/ DisconnectReturns(j) BY <2>5, EndingLasts, LastingKeeps
  <2> QED BY <1>1, <2>1, <2>2, <2>3, <2>4, <2>5 DEF Running
<1>2. ASSUME NEW p \in Peers, PeerConnected(p) PROVE PoolInv'
  BY <1>2, PeerConnectedLasts, LastingKeeps
<1>3. ASSUME NEW p \in Peers, RelayedBlock(p) PROVE PoolInv'
  BY <1>3, RelayedBlockLasts, LastingKeeps
<1>4. ASSUME NEW p \in Peers,
             FilterLoaded(p) \/ MempoolDone(p) \/ Lose(p) \/ LoadFails(p) \/ RelayedPeers(p)
      PROVE  PoolInv'
  BY <1>4, ServingLasts, LastingKeeps
<1>5. ASSUME NEW p \in Peers, PeerDisconnected(p) PROVE PoolInv'
  BY <1>5, PeerDisconnectedKeeps
<1>6. ASSUME ManagerConnect \/ ManagerDisconnect \/ Rescan PROVE PoolInv'
  BY <1>6, ApplicationKeeps
<1>7. ASSUME UNCHANGED poolVars PROVE PoolInv'
  BY <1>7, StutterKeeps
<1> QED BY <1>1, <1>2, <1>3, <1>4, <1>5, <1>6, <1>7 DEF PoolNext

-----------------------------------------------------------------------------
(* The theorems.                                                            *)

\* The invariant holds in every reachable state, whatever the addresses, the
\* heights the peers report and the number of calls that run at once.
THEOREM PoolInvariant == PoolSpec => []PoolInv
<1>1. PoolInit => PoolInv BY PoolInvInit
<1>2. PoolInv /\ [PoolNext]_poolVars => PoolInv' BY PoolInvNext
<1> QED BY <1>1, <1>2, PTL DEF PoolSpec

\* The variables of BRPeerManagerStruct keep the values the code gives them.
THEOREM PoolTypeCorrect == PoolSpec => []PoolTypeOK
<1>1. PoolInv => PoolTypeOK BY DEF PoolInv
<1> QED BY <1>1, PoolInvariant, PTL

\* downloadPeer is never a peer that _peerDisconnected has freed: the manager may
\* use it whenever it holds the lock.
THEOREM DownloadIsUsable == PoolSpec => []DownloadIsConnected
<1>1. PoolInv => DownloadIsConnected BY DEF PoolInv
<1> QED BY <1>1, PoolInvariant, PTL

\* When the last peer is gone and every call has returned, _peerDisconnected or
\* BRPeerManagerConnect has ended the sync, unless the application disconnected.
THEOREM NoSyncIsLeft == PoolSpec => []NoDeadSync
<1>1. PoolInv => NoDeadSync
  BY DEF PoolInv, NoDeadSync, SyncIsTended, Connecting, Searching
<1> QED BY <1>1, PoolInvariant, PTL
=============================================================================
