------------------------------- MODULE PeerLink -------------------------------
(***************************************************************************)
(* One connection to a peer: jni/breadwallet-core/BRPeer.c.                *)
(*                                                                         *)
(* The peer's own thread (_peerThreadRoutine) opens the socket, handles    *)
(* the messages that arrive and, when the link fails, reports every        *)
(* outstanding callback.  The manager calls the same structure from other  *)
(* threads, serialised by its own lock, which the peer's thread takes only *)
(* inside callbacks: "busy" is a manager that holds the lock and has seen  *)
(* this peer connected.  The remote end is free to send any message at any *)
(* time; a message is "bad" when the handler refuses it for what it says   *)
(* (malformed, too long, wrong checksum, wrong nonce, non-standard).       *)
(***************************************************************************)
EXTENDS Naturals, FiniteSets, Sequences, SequencesExt

CONSTANTS
  Requests,     \* calls of BRPeerSendPing and BRPeerSendMempool with a callback
  Txs, Blocks,  \* transactions and blocks the remote knows
  Matched,      \* the transactions of a block that match the filter
  Invs,         \* the lists of blocks the remote announces together
  MaxKnown,     \* MAX_GETDATA_HASHES: length of knownBlockHashes
  None

ASSUME NoneAssumption    == None \notin Requests \cup Blocks
ASSUME MatchedAssumption == Matched \in [Blocks -> SUBSET Txs]
ASSUME InvsAssumption    == \A B \in Invs : B \in Seq(Blocks) /\ Len(B) <= MaxKnown
ASSUME KnownAssumption   == MaxKnown \in Nat /\ MaxKnown > 1

VARIABLES
  thread,   \* where the peer's thread is
  status,   \* BRPeerStatus
  waiting,  \* waitingForNetwork
  open,     \* socket >= 0
  flags,    \* the flags that are set (sentVerack, gotVerack, sentFilter, ...)
  pongs,    \* pongInfo and pongCallback
  mempool,  \* mempoolInfo and mempoolCallback
  waits,    \* mempoolTime # DBL_MAX
  known,    \* knownTxHashes
  blocks,   \* knownBlockHashes
  last,     \* lastBlockHash
  current,  \* currentBlock
  missing,  \* currentBlockTxHashes
  busy,     \* the manager holds its lock and has seen this peer connected
  phase,    \* what the manager was told: see PeerContract
  answer,   \* history: what became of each request
  relayed,  \* history: transactions given to relayedTx since current arrived
  skipped,  \* history: announced blocks not requested because of needsFilterUpdate, but for
            \* those that are older than what the list must hold
  given     \* history: a block given to relayedBlock in the last step, with relayed

life == <<thread, status, waiting, open>>
asks == <<pongs, mempool, waits, answer>>
data == <<known, blocks, last, current, missing, relayed, skipped>>
vars == <<life, flags, asks, data, busy, phase, given>>

Flags == {"sentVerack", "gotVerack", "sentFilter", "sentGetdata", "sentMempool",
          "needsFilterUpdate"}

Init ==
  /\ thread = "none" /\ status = "disconnected"
  /\ waiting = FALSE /\ open = FALSE
  /\ flags = {}
  /\ pongs = <<>> /\ mempool = None /\ waits = FALSE
  /\ known = {} /\ blocks = <<>> /\ last = None
  /\ current = None /\ missing = {}
  /\ busy = FALSE /\ phase = "new"
  /\ answer = [r \in Requests |-> "unasked"]
  /\ relayed = {} /\ skipped = {} /\ given = None

-----------------------------------------------------------------------------
(* The life of the link.                                                   *)

\* BRPeerConnect.  A thread that cannot be created is not reported.
Connect ==
  /\ thread = "none"
  /\ status = "disconnected" \/ waiting
  /\ \/ /\ status' = "connecting" /\ waiting' = TRUE     \* network unreachable
        /\ UNCHANGED thread
     \/ /\ status' = "connecting" /\ waiting' = FALSE
        /\ thread' = "open"
     \/ /\ status' = "disconnected" /\ waiting' = FALSE  \* pthread_create fails
        /\ UNCHANGED thread
  /\ given' = None
  /\ UNCHANGED <<open, flags, asks, data, busy, phase>>

\* Leaving the read loop.  The reason (error) is what disconnected() is told, and
\* what the manager makes of it is no matter of this module.
Fail == thread' = "close"

\* _BRPeerOpenSocket: an IPv4 address is tried over IPv6 first, and a second
\* socket replaces the first when that fails at once.
OpenSocket ==
  /\ \/ thread = "open" /\ thread' = "dial" /\ open' = TRUE
     \/ thread = "fallback" /\ thread' = "redial" /\ open' = TRUE
     \/ thread \in {"open", "fallback"} /\ Fail /\ UNCHANGED open
  /\ given' = None
  /\ UNCHANGED <<status, waiting, flags, asks, data, busy, phase>>

Dial ==
  /\ \/ thread = "dial" /\ thread' = "fallback"
     \/ thread \in {"dial", "redial"} /\ thread' = "hello"
     \/ thread \in {"dial", "redial"} /\ Fail
  /\ given' = None
  /\ UNCHANGED <<status, waiting, open, flags, asks, data, busy, phase>>

\* BRPeerSendMessage: a message that cannot be sent disconnects the peer.
SendMessage == open' \in {FALSE, open}

\* The thread sends "version" and enters its loop.
SayHello ==
  /\ thread = "hello"
  /\ SendMessage
  /\ thread' = "talk"
  /\ given' = None
  /\ UNCHANGED <<status, waiting, flags, asks, data, busy, phase>>

\* Mutant: the loop does not look at the socket.
LoopGoesOn == FALSE

\* The loop ends when it finds the socket closed by another thread.
LoopEnds ==
  /\ thread = "talk" /\ ~open
  /\ Fail
  /\ given' = None
  /\ UNCHANGED <<status, waiting, open, flags, asks, data, busy, phase>>

\* The remote closes the link, or disconnectTime passes: it is set while
\* connecting, and the manager may set it at any time (BRPeerScheduleDisconnect).
LinkFails ==
  /\ thread = "talk" /\ open
  /\ Fail
  /\ given' = None
  /\ UNCHANGED <<status, waiting, open, flags, asks, data, busy, phase>>

\* BRPeerDisconnect has an effect only on a socket that is open already.
Disconnect ==
  /\ open /\ phase # "down"
  /\ open' = FALSE
  /\ given' = None
  /\ UNCHANGED <<thread, status, waiting, flags, asks, data, busy, phase>>

\* The end of _peerThreadRoutine.
Close ==
  /\ thread = "close"
  /\ open' = FALSE /\ status' = "disconnected" /\ thread' = "drain"
  /\ given' = None
  /\ UNCHANGED <<waiting, flags, asks, data, busy, phase>>

\* The callbacks of the manager take its lock.
DrainPongs ==
  /\ thread = "drain"
  /\ \/ /\ pongs # <<>> /\ ~busy
        /\ answer' = [answer EXCEPT ![Head(pongs)] = "failed"]
        /\ pongs' = Tail(pongs)
        /\ UNCHANGED thread
     \/ pongs = <<>> /\ thread' = "mempool" /\ UNCHANGED <<answer, pongs>>
  /\ given' = None
  /\ UNCHANGED <<status, waiting, open, flags, mempool, waits, data, busy, phase>>

\* Mutant: the mempool callback is not called.
DropMempoolSilently ==
  /\ thread = "mempool" /\ thread' = "clear"
  /\ given' = None
  /\ UNCHANGED <<status, waiting, open, flags, asks, data, busy, phase>>

\* The mempool callback is called if there is one; then it is cleared, one that
\* was set in between included.
DropMempool ==
  /\ thread = "mempool" /\ thread' = "clear"
  /\ \/ mempool = None /\ UNCHANGED answer
     \/ /\ mempool # None /\ ~busy
        /\ answer' = [answer EXCEPT ![mempool] = "failed"]
  /\ given' = None
  /\ UNCHANGED <<status, waiting, open, flags, pongs, mempool, waits, data, busy, phase>>

ClearMempool ==
  /\ thread = "clear" /\ thread' = "report"
  /\ mempool' = None /\ given' = None
  /\ UNCHANGED <<status, waiting, open, flags, pongs, waits, answer, data, busy, phase>>

\* disconnected(info): the manager frees the peer (BRPeerFree).
Report ==
  /\ thread = "report" /\ ~busy
  /\ thread' = "done" /\ phase' = "down"
  /\ flags' = {} /\ waits' = FALSE /\ pongs' = <<>> /\ mempool' = None
  /\ known' = {} /\ blocks' = <<>> /\ last' = None /\ current' = None /\ missing' = {}
  /\ relayed' = {} /\ skipped' = {} /\ given' = None
  /\ UNCHANGED <<status, waiting, open, answer, busy>>

-----------------------------------------------------------------------------
(* What the manager does with a peer it has found connected.               *)

Enter ==
  /\ ~busy /\ status = "connected"
  /\ busy' = TRUE /\ given' = None
  /\ UNCHANGED <<life, flags, asks, data, phase>>

Leave ==
  /\ busy
  /\ busy' = FALSE /\ given' = None
  /\ UNCHANGED <<life, flags, asks, data, phase>>

\* The part of life a message sent by another thread can change.
Sends == SendMessage /\ UNCHANGED <<thread, status, waiting>>

\* A request made once its callbacks have been drained has missed them.
Missed(stages) == IF thread \in stages THEN "late" ELSE "asked"

SendPing(r) ==
  /\ busy /\ answer[r] = "unasked"
  /\ pongs' = Append(pongs, r)
  /\ answer' = [answer EXCEPT ![r] = Missed({"mempool", "clear", "report"})]
  /\ Sends
  /\ given' = None
  /\ UNCHANGED <<flags, mempool, waits, data, busy, phase>>

\* The mempool is asked for once; a second request fails at once.
SendMempool(r) ==
  /\ busy /\ answer[r] = "unasked"
  /\ flags' = flags \cup {"sentMempool"}
  /\ \/ /\ "sentMempool" \notin flags /\ mempool = None
        /\ mempool' = r /\ waits' = TRUE
        /\ answer' = [answer EXCEPT ![r] = Missed({"clear", "report"})]
        /\ \E T \in SUBSET Txs : known' = known \cup T
        /\ Sends
     \/ /\ "sentMempool" \in flags \/ mempool # None
        /\ answer' = [answer EXCEPT ![r] = "failed"]
        /\ UNCHANGED <<life, mempool, waits, known>>
  /\ given' = None
  /\ UNCHANGED <<pongs, blocks, last, current, missing, relayed, skipped, busy, phase>>

SendFilterload ==
  /\ busy
  /\ flags' = (flags \ {"sentMempool"}) \cup {"sentFilter"}
  /\ Sends
  /\ given' = None
  /\ UNCHANGED <<asks, data, busy, phase>>

SetNeedsFilterUpdate(b) ==
  /\ busy
  /\ flags' = IF b THEN flags \cup {"needsFilterUpdate"} ELSE flags \ {"needsFilterUpdate"}
  /\ given' = None
  /\ UNCHANGED <<life, asks, data, busy, phase>>

\* A published transaction; it is announced unless the peer knows it.
SendInv(t) ==
  /\ busy
  /\ known' = known \cup {t}
  /\ \/ t \in known /\ UNCHANGED life
     \/ t \notin known /\ Sends
  /\ given' = None
  /\ UNCHANGED <<flags, asks, blocks, last, current, missing, relayed, skipped, busy, phase>>

\* Requests that leave no trace but the flag that was sent.
SendGetdata ==
  /\ busy
  /\ flags' = flags \cup {"sentGetdata"}
  /\ Sends
  /\ given' = None
  /\ UNCHANGED <<asks, data, busy, phase>>

\* The known blocks from the last occurrence of "from" on are requested anew; the
\* caller has those before it.
RerequestBlocks(from) ==
  /\ busy
  /\ \/ from \notin ToSet(blocks) /\ UNCHANGED <<blocks, skipped, flags, life>>
     \/ \E i \in 1..Len(blocks) :
          /\ blocks[i] = from /\ \A j \in i+1..Len(blocks) : blocks[j] # from
          /\ blocks' = SubSeq(blocks, i, Len(blocks))
          /\ skipped' = skipped \ ToSet(blocks)
          /\ flags' = flags \cup {"sentGetdata"}
          /\ Sends
  /\ given' = None
  /\ UNCHANGED <<asks, known, last, current, missing, relayed, busy, phase>>

ManagerCalls ==
  \/ \E r \in Requests : SendPing(r) \/ SendMempool(r)
  \/ \E b \in BOOLEAN : SetNeedsFilterUpdate(b)
  \/ \E t \in Txs : SendInv(t)
  \/ \E b \in Blocks : RerequestBlocks(b)
  \/ SendFilterload \/ SendGetdata

-----------------------------------------------------------------------------
(* The messages of the remote end.                                         *)

\* The thread has read a whole message.
Read ==
  /\ thread = "talk" /\ open
  /\ thread' = "got" /\ given' = None
  /\ UNCHANGED <<status, waiting, open, flags, asks, data, busy, phase>>

\* A handler runs, and takes the manager's lock if it calls back.  Any message
\* but "tx" while the transactions of a block are awaited is an error.
Handles(calls) == thread = "got" /\ current = None /\ (calls => ~busy)

Done == thread' = "talk"

\* "version" is answered with "verack".
AcceptVersion ==
  /\ Handles(FALSE) /\ Done /\ SendMessage
  /\ flags' = flags \cup {"sentVerack"}
  /\ given' = None
  /\ UNCHANGED <<status, waiting, asks, data, busy, phase>>

\* The handshake is complete and the manager is told.
DidConnect ==
  /\ ~busy
  /\ status' = "connected" /\ phase' = "up"

\* Only "verack" completes the handshake: one that comes before "version" does
\* not, and neither does a second one.
AcceptVerack ==
  /\ Handles(FALSE) /\ Done
  /\ flags' = flags \cup {"gotVerack"}
  /\ \/ /\ "gotVerack" \notin flags /\ "sentVerack" \in flags /\ status = "connecting"
        /\ DidConnect
     \/ /\ "gotVerack" \in flags \/ "sentVerack" \notin flags \/ status # "connecting"
        /\ UNCHANGED <<status, phase>>
  /\ given' = None
  /\ UNCHANGED <<waiting, open, asks, data, busy>>

\* When there are more than MaxKnown blocks the oldest third is dropped; twice is
\* enough, for an announcement is no longer than MaxKnown itself.
Shortened(seq) ==
  IF Len(seq) > MaxKnown THEN SubSeq(seq, Len(seq) \div 3 + 1, Len(seq)) ELSE seq

\* Mutant: the newest blocks are dropped instead of the oldest.
RememberOldest(seq) == IF Len(seq) > MaxKnown THEN SubSeq(seq, 1, MaxKnown) ELSE seq

Remember(seq) == Shortened(Shortened(seq))

\* The blocks of a list that the newest two thirds of MaxKnown do not hold.
Older(seq) ==
  LET kept == (2 * MaxKnown) \div 3
  IN  IF Len(seq) > MaxKnown THEN ToSet(seq) \ ToSet(SubSeq(seq, Len(seq) - kept + 1, Len(seq))) ELSE {}

\* The blocks of a list that count.
Announced(B) ==
  CASE "sentFilter" \notin flags -> <<>>
    [] "sentFilter" \in flags /\ B = <<last>> -> <<>>   \* the tip once more
    [] OTHER -> B

\* Mutant: the callback is not looked at before it is handed to the ping.
AnswersAlways(T) == T # {}

\* The first transactions after a mempool request are its answer: a ping is
\* sent, and its pong completes the request.
Answers(T) == T # {} /\ mempool # None

HandOver == pongs' = Append(pongs, mempool) /\ thread' = "forget"

\* The remote announces transactions T and the blocks of the list B.
AcceptInv(T, B) ==
  /\ Handles(T \cap known # {})                          \* hasTx
  /\ T # {} => {"sentFilter", "sentMempool"} \cap flags # {}
  /\ LET news == Announced(B)
         asked == IF "needsFilterUpdate" \in flags THEN <<>> ELSE news
         requests == T \ known # {} \/ asked # <<>>
     IN  /\ last' = IF Len(news) = 1 THEN news[1] ELSE last
         /\ blocks' = Remember(blocks \o news)
         /\ skipped' = (IF asked = news THEN skipped \ ToSet(news) ELSE skipped \cup ToSet(news))
                          \ Older(blocks \o news)
         /\ flags' = IF requests THEN flags \cup {"sentGetdata"} ELSE flags
         /\ IF requests \/ Answers(T) THEN SendMessage ELSE UNCHANGED open
  /\ known' = known \cup T
  /\ \/ Answers(T) /\ HandOver
     \/ ~Answers(T) /\ Done /\ UNCHANGED pongs
  /\ given' = None
  /\ UNCHANGED <<status, waiting, mempool, waits, answer, current, missing, relayed, busy, phase>>

\* The answer to the mempool request did not come in time.
MempoolTimeout ==
  /\ thread = "talk" /\ open /\ waits /\ mempool # None
  /\ HandOver /\ SendMessage
  /\ given' = None
  /\ UNCHANGED <<status, waiting, flags, mempool, waits, answer, data, busy, phase>>

\* The callback has been handed to the ping; then it is cleared, then its timer.
Forget ==
  /\ thread = "forget" /\ thread' = "disarm"
  /\ mempool' = None /\ given' = None
  /\ UNCHANGED <<status, waiting, open, flags, pongs, waits, answer, data, busy, phase>>

Disarm ==
  /\ thread = "disarm" /\ thread' = "talk"
  /\ waits' = FALSE /\ given' = None
  /\ UNCHANGED <<status, waiting, open, flags, pongs, mempool, answer, data, busy, phase>>

\* A pong answers the oldest ping.
AcceptPong ==
  /\ Handles(TRUE) /\ Done
  /\ pongs # <<>>
  /\ pongs' = Tail(pongs)
  /\ answer' = [answer EXCEPT ![Head(pongs)] = "ok"]
  /\ given' = None
  /\ UNCHANGED <<status, waiting, open, flags, mempool, waits, data, busy, phase>>

\* A block waits until the transactions the peer is not known to have sent
\* before have arrived.
AcceptMerkleblock(b) ==
  /\ Handles(TRUE) /\ Done
  /\ {"sentFilter", "sentGetdata"} \cap flags # {}
  /\ missing' = Matched[b] \ known
  /\ \/ missing' # {} /\ current' = b /\ given' = None
     \/ missing' = {} /\ given' = [block |-> b, txs |-> {}] /\ UNCHANGED current
  /\ UNCHANGED <<status, waiting, open, flags, asks, known, blocks, last, relayed,
                 skipped, busy, phase>>

\* Mutant: the block is relayed as soon as one of its transactions arrives.
AcceptFirstTx(t) ==
  /\ thread = "got" /\ ~busy /\ Done
  /\ {"sentFilter", "sentGetdata"} \cap flags # {}
  /\ missing' = {}
  /\ \/ current = None /\ given' = None /\ UNCHANGED current
     \/ /\ current # None
        /\ given' = [block |-> current, txs |-> {t}]
        /\ current' = None
  /\ UNCHANGED <<status, waiting, open, flags, asks, known, blocks, last, relayed, skipped,
                 busy, phase>>

AcceptTx(t) ==
  /\ thread = "got" /\ ~busy /\ Done
  /\ {"sentFilter", "sentGetdata"} \cap flags # {}
  /\ missing' = missing \ {t}
  /\ \/ current = None /\ given' = None /\ UNCHANGED <<current, relayed>>
     \/ /\ current # None /\ missing' # {}
        /\ relayed' = relayed \cup {t}
        /\ given' = None /\ UNCHANGED current
     \/ /\ current # None /\ missing' = {}
        /\ given' = [block |-> current, txs |-> relayed \cup {t}]
        /\ current' = None /\ relayed' = {}
  /\ UNCHANGED <<status, waiting, open, flags, asks, known, blocks, last, skipped, busy, phase>>

\* Headers: more headers or blocks are requested, and each header is relayed.
AcceptHeaders ==
  /\ Handles(TRUE) /\ Done /\ SendMessage
  /\ given' = None
  /\ UNCHANGED <<status, waiting, flags, asks, data, busy, phase>>

\* Addresses are relayed, or dropped when there are too many or none were asked for.
AcceptAddr ==
  /\ \E relays \in BOOLEAN : Handles(relays)
  /\ Done
  /\ given' = None
  /\ UNCHANGED <<status, waiting, open, flags, asks, data, busy, phase>>

\* "getdata" is answered with the manager's transactions and "notfound".
AcceptGetdata ==
  /\ Handles(TRUE) /\ Done /\ SendMessage
  /\ given' = None
  /\ UNCHANGED <<status, waiting, flags, asks, data, busy, phase>>

\* "ping" and "getaddr" are answered.
AcceptPing ==
  /\ Handles(FALSE) /\ Done /\ SendMessage
  /\ given' = None
  /\ UNCHANGED <<status, waiting, flags, asks, data, busy, phase>>

\* "notfound", "reject" and "feefilter" are passed on.
AcceptNotice ==
  /\ Handles(TRUE) /\ Done
  /\ given' = None
  /\ UNCHANGED <<status, waiting, open, flags, asks, data, busy, phase>>

\* A message is refused: for what it says, because it has no place yet (a
\* transaction or a block before any was asked for, a pong without a ping), or
\* because it interrupts a block, whose transactions are then forgotten.
Refuse ==
  /\ thread = "got" /\ Fail
  /\ \/ UNCHANGED <<current, missing, relayed>>
     \/ current # None /\ current' = None /\ missing' = {} /\ relayed' = {}
  /\ given' = None
  /\ UNCHANGED <<status, waiting, open, flags, asks, known, blocks, last, skipped, busy, phase>>

Handler ==
  \/ AcceptVersion \/ AcceptVerack \/ AcceptPong \/ AcceptHeaders
  \/ AcceptAddr \/ AcceptGetdata \/ AcceptPing \/ AcceptNotice \/ Refuse
  \/ \E T \in SUBSET Txs, B \in Invs : AcceptInv(T, B)
  \/ \E t \in Txs : AcceptTx(t)
  \/ \E b \in Blocks : AcceptMerkleblock(b)

\* Steps of the peer's thread that wait for nothing but the manager's lock.
Thread ==
  \/ OpenSocket \/ Dial \/ SayHello \/ Handler \/ Forget \/ Disarm
  \/ LoopEnds \/ Close \/ DrainPongs \/ DropMempool
  \/ ClearMempool \/ Report

Next ==
  \/ Connect \/ Thread \/ Read \/ LinkFails \/ MempoolTimeout
  \/ Enter \/ Leave \/ ManagerCalls \/ Disconnect

\* The peer's thread runs and the manager releases its lock; the remote may
\* fall silent.
Fairness == WF_vars(Thread) /\ WF_vars(Leave)

Spec == Init /\ [][Next]_vars

FairSpec == Spec /\ Fairness

-----------------------------------------------------------------------------
(* Properties                                                              *)

\* The variables have the values their C types and the code give them.
TypeOK ==
  /\ thread \in {"none", "open", "dial", "fallback", "redial", "hello", "talk", "got",
                 "forget", "disarm", "close", "drain", "mempool", "clear", "report",
                 "done"}
  /\ status \in {"disconnected", "connecting", "connected"}
  /\ waiting \in BOOLEAN /\ open \in BOOLEAN
  /\ flags \subseteq Flags
  /\ pongs \in Seq(Requests) /\ mempool \in Requests \cup {None} /\ waits \in BOOLEAN
  /\ known \subseteq Txs /\ relayed \subseteq Txs
  /\ blocks \in Seq(Blocks) /\ skipped \subseteq Blocks
  /\ last \in Blocks \cup {None} /\ current \in Blocks \cup {None}
  /\ given \in [block : Blocks, txs : SUBSET Txs] \cup {None}
  /\ missing \subseteq Txs
  /\ busy \in BOOLEAN /\ phase \in {"new", "up", "down"}
  /\ answer \in [Requests -> {"unasked", "asked", "late", "ok", "failed"}]

\* BRPeer.c keeps its promise to the manager: connected once, disconnected once
\* and last, every completion callback at most once, successful only while the
\* link is up, and none forgotten that was asked for before the link failed.
Contract == INSTANCE PeerContract WITH phase <- phase, answer <- answer

KeepsContract == Contract!Spec

\* "wait til we get all tx messages before processing the block": a block is
\* relayed only after each of its matching transactions was relayed after it or
\* had been announced before.
BlockIsComplete == given # None => Matched[given.block] \subseteq given.txs \cup known

\* A block announced while the filter is out of date is not requested, and stays
\* among the known blocks, where RerequestBlocks finds it: when the list is full, only
\* blocks go that are older than its newest two thirds.
SkippedIsKnown == skipped \subseteq ToSet(blocks)

\* Once its socket is open, a peer that is disconnected goes down.
DisconnectEnds ==
  thread \in {"redial", "hello", "talk", "got"} /\ ~open ~> phase = "down"
=============================================================================
