----------------------------- MODULE ManagerProofs -----------------------------
(***************************************************************************)
(* What BRPeerManager.c keeps beside its connections.                      *)
(*                                                                         *)
(* Transactions (TxRelay): the callback of a published transaction is      *)
(* called once, never waits for a peer without a timeout, and a            *)
(* transaction is given up only when no connected peer may have it: for    *)
(* any peers, transactions and calls.                                      *)
(*                                                                         *)
(* The block chain (ChainSync): enough of it is kept to walk it and to go  *)
(* on from it, and the wallet is told the heights of the main chain: for   *)
(* any tree of blocks, checkpoints and peers, and any interval between     *)
(* the transitions.                                                        *)
(***************************************************************************)
EXTENDS TxRelay, ChainSync, TLAPS, FiniteSetTheorems, WellFoundedInduction


-----------------------------------------------------------------------------
(* The invariant.  A peer was told only of what is listed, once connected.  *)
ToldIsListed ==
  \A p \in Peers : told[p] \subseteq published /\ (link[p] \in {"none", "dialing"} => told[p] = {})

(* A callback that waits is that of a call that was made, in one place, and *)
(* was not called; a call that was not made was not answered.               *)
CallsInOnePlace ==
  /\ \A c \in Calls : answered[c] <= 1 /\ (c \notin made => answered[c] = 0)
  /\ \A t \in Tx : callback[t] # None => callback[t] \in made /\ answered[callback[t]] = 0
  /\ \A t, u \in Tx : callback[t] = callback[u] /\ callback[t] # None => t = u

(* What a peer may have is in the lists that are looked at.                 *)
ClaimsAreListed == \A p \in Peers : \A t \in claims[p] : p \in relays[t] \cup requests[t]

(* The type invariant by what it is of.                                     *)
RelaysLinked == \A t \in Tx : \A p \in relays[t] : link[p] # "none"

FlagsOK == syncing \in BOOLEAN /\ behind \in BOOLEAN

LinksOK ==
  /\ link \in [Peers -> {"none", "dialing", "up", "timedout", "lost"}]
  /\ download \in Peers \cup {None} /\ timer \subseteq Peers /\ synced \subseteq Peers
  /\ links \in 0..MaxLinks /\ news \in 0..MaxNews /\ made \subseteq Calls

AskedOK == asked \in [Peers -> Seq(Ask)]

ListsOK ==
  /\ published \subseteq Tx /\ callback \in [Tx -> Calls \cup {None}]
  /\ relays \in [Tx -> SUBSET Peers] /\ requests \in [Tx -> SUBSET Peers]
  /\ wallet \in [Tx -> {"unknown", "unconfirmed", "removed", "confirmed"}]

HistoryOK ==
  /\ answered \in [Calls -> Nat] /\ told \in [Peers -> SUBSET Tx] /\ claims \in [Peers -> SUBSET Tx]

IInv == /\ TypeOK /\ ToldIsListed /\ AnnouncedIsTimed /\ CallsInOnePlace /\ ClaimsAreListed

LEMMA TypeParts ==
  TypeOK <=> RelaysLinked /\ FlagsOK /\ LinksOK /\ AskedOK /\ ListsOK /\ HistoryOK
BY DEF TypeOK, RelaysLinked, FlagsOK, LinksOK, AskedOK, ListsOK, HistoryOK

LEMMA TypeWhole ==
  ASSUME RelaysLinked', FlagsOK', LinksOK', AskedOK', ListsOK', HistoryOK'
  PROVE  TypeOK'
BY DEF TypeOK, RelaysLinked, FlagsOK, LinksOK, AskedOK, ListsOK, HistoryOK

(* None stands for no peer, no call and no transaction.                     *)
LEMMA NoneIsNobody == None \notin Peers /\ None \notin Tx /\ None \notin Calls
BY PeersAssumption

LEMMA InvInit == Init => IInv
<1> SUFFICES ASSUME Init PROVE IInv
  OBVIOUS
<1>1. FlagsOK BY DEF Init, FlagsOK
<1>2. LinksOK BY LimitAssumption DEF Init, LinksOK
<1>3. AskedOK BY DEF Init, AskedOK
<1>4. ListsOK BY DEF Init, ListsOK
<1>5. HistoryOK BY DEF Init, HistoryOK
<1>6. RelaysLinked BY DEF Init, RelaysLinked
<1>7. ToldIsListed BY DEF Init, ToldIsListed
<1>8. AnnouncedIsTimed BY DEF Init, AnnouncedIsTimed, Up
<1>9. CallsInOnePlace BY DEF Init, CallsInOnePlace
<1>10. ClaimsAreListed BY DEF Init, ClaimsAreListed
<1> QED BY <1>1, <1>2, <1>3, <1>4, <1>5, <1>6, <1>7, <1>8, <1>9, <1>10, TypeParts DEF IInv

-----------------------------------------------------------------------------
(* The queues.                                                              *)

LEMMA ConcatType ==
  ASSUME NEW S, NEW s \in Seq(S), NEW t \in Seq(S)
  PROVE  s \o t \in Seq(S)
OBVIOUS

LEMMA TailType ==
  ASSUME NEW S, NEW s \in Seq(S), s # <<>>
  PROVE  Tail(s) \in Seq(S) /\ Head(s) \in S
OBVIOUS

LEMMA PingType ==
  ASSUME NEW done \in {"load", "mempool", "memdone", "getdone", "invdone"}
  PROVE  Ping(done) \in Seq(Ask)
<1>1. [ask |-> done, tx |-> None] \in Ask BY DEF Ask
<1> QED BY <1>1 DEF Ping

LEMMA MempoolType ==
  ASSUME NEW q \in Seq(Ask)
  PROVE  Mempool(q) \in Seq(Ask)
BY PingType, ConcatType DEF Mempool

(* A set of requests can be sent one after the other.                       *)
LEMMA ListType ==
  ASSUME NEW S, IsFiniteSet(S)
  PROVE  SetToSeq(S) \in Seq(S)
<1>1. Cardinality(S) \in Nat /\ ExistsBijection(1..Cardinality(S), S) BY FS_CardinalityType
<1>2. PICK f \in Bijection(1..Cardinality(S), S) : TRUE BY <1>1 DEF ExistsBijection
<1>3. f \in [1..Cardinality(S) -> S] /\ IsInjective(f)
  BY <1>2 DEF Bijection, Injection, IsInjective
<1>4. SetToSeq(S) \in [1..Cardinality(S) -> S] BY <1>3 DEF SetToSeq
<1> QED BY <1>1, <1>4

(* What a peer is asked for when transactions are missing.                  *)
LEMMA DataType ==
  ASSUME NEW M \in SUBSET Tx
  PROVE  SetToSeq({[ask |-> "data", tx |-> t] : t \in M}) \in Seq(Ask)
<1> DEFINE S == {[ask |-> "data", tx |-> t] : t \in M}
           f == [t \in M |-> [ask |-> "data", tx |-> t]]
<1>1. IsFiniteSet(M) BY TxAssumption, FS_Subset
<1>2. f \in Surjection(M, S) BY DEF Surjection
<1>3. IsFiniteSet(S) BY <1>1, <1>2, FS_Surjection
<1>4. SetToSeq(S) \in Seq(S) BY <1>3, ListType
<1>5. S \subseteq Ask BY DEF Ask
<1> QED BY <1>4, <1>5

LEMMA RequestUnrelayedType ==
  ASSUME TypeOK, NEW p \in Peers, NEW q \in Seq(Ask), RequestUnrelayed(p, q)
  PROVE  AskedOK'
<1> DEFINE missing == {t \in Unconfirmed : p \notin relays[t] \cup requests[t]}
           data == SetToSeq({[ask |-> "data", tx |-> t] : t \in missing})
           ping == IF missing = {} \/ p \in synced THEN <<>> ELSE Ping("getdone")
<1>1. missing \subseteq Tx BY DEF Unconfirmed
<1>2. data \in Seq(Ask) BY <1>1, DataType
<1>3. ping \in Seq(Ask) BY PingType
<1>4. q \o data \o ping \in Seq(Ask) BY <1>2, <1>3, ConcatType
<1>5. asked' = [asked EXCEPT ![p] = q \o data \o ping] BY DEF RequestUnrelayed
<1> QED BY <1>4, <1>5, TypeParts DEF AskedOK
-----------------------------------------------------------------------------
(* What the steps have in common.                                           *)

(* What a peer says of t, asked or not.                                     *)
Word(p, t) ==
  RelayedTx(p, t) \/ HasTx(p, t) \/ NotFound(p, t) \/ RejectedTx(p, t) \/ RequestedTx(p, t)

Quiet == UNCHANGED <<peers, timer, synced, lists, history>>

(* A sync stops, perhaps, and the rest stays.                               *)
Stopped == SyncStopped \/ UNCHANGED <<syncing, timer>>

Stops == Stopped /\ UNCHANGED <<link, download, behind, links, made, synced, lists, history>>

Requesting(p) ==
  /\ Stopped
  /\ RequestUnrelayed(p, Tail(asked[p]))
  /\ UNCHANGED <<link, download, behind, links, made, published, callback, relays, wallet, answered, told>>

Removing(p) ==
  /\ GetdataDone({p}) \/ GetdataDone({})
  /\ UNCHANGED <<link, download, behind, links, made, published, callback, relays, history>>

Talking(p) == Answers(p) \/ Drain(p) \/ Speaks(p)

LEMMA TalkingCases ==
  ASSUME TypeOK, NEW p \in Peers, Talking(p)
  PROVE  \/ \E t \in Tx : p \in Up /\ Word(p, t)
         \/ Quiet \/ Stops
         \/ asked[p] # <<>> /\ Requesting(p)
         \/ Removing(p)
<1>1. CASE AnswerData(p) /\ p \in Up
  <2>1. asked[p] \in Seq(Ask) /\ asked[p] # <<>> /\ Head(asked[p]).ask = "data"
    BY <1>1, TypeParts DEF AskedOK, AnswerData, Waits
  <2>2. Head(asked[p]) \in Ask BY <2>1, TailType
  <2>3. Head(asked[p]).tx \in Tx BY <2>1, <2>2 DEF Ask
  <2> QED BY <1>1, <2>3 DEF AnswerData, Word, Quiet
<1>2. CASE AnswerLoad(p) \/ AnswerMempool(p) BY <1>2 DEF AnswerLoad, AnswerMempool, Quiet
<1>3. CASE AnswerMempoolDone(p) \/ InvDone(p)
  BY <1>3 DEF AnswerMempoolDone, InvDone, Requesting, Stopped, Waits, peers
<1>4. CASE AnswerGetdataDone(p) BY <1>4 DEF AnswerGetdataDone, Removing
<1>5. CASE Drain(p) /\ ~InvDone(p)
  <2>1. CASE Quiet BY <2>1
  <2>2. CASE /\ IF p = download THEN SyncStopped ELSE UNCHANGED <<syncing, timer>>
             /\ UNCHANGED <<link, download, behind, links, made, synced, lists, history>>
    BY <2>2 DEF Stops, Stopped
  <2>3. CASE /\ GetdataDone({})
             /\ UNCHANGED <<link, download, behind, links, made, published, callback, relays, history>>
    BY <2>3 DEF Removing
  <2> QED BY <1>5, <2>1, <2>2, <2>3 DEF Drain, Quiet
<1>6. CASE Speaks(p) BY <1>6 DEF Speaks, Word
<1> QED BY <1>1, <1>2, <1>3, <1>4, <1>5, <1>6 DEF Talking, Answers, Drain

(* The queues and the count of what was said unasked.                       *)
LEMMA AskedTalking ==
  ASSUME TypeOK, NEW p \in Peers, Talking(p)
  PROVE  AskedOK' /\ news' \in 0..MaxNews
<1>1. AskedOK /\ asked[p] \in Seq(Ask) /\ news \in 0..MaxNews
  BY TypeParts DEF AskedOK, LinksOK
<1>2. CASE Speaks(p)
  BY <1>1, <1>2, LimitAssumption DEF Speaks, AskedOK
<1>3. ASSUME Answers(p) \/ Drain(p)
      PROVE  /\ UNCHANGED news /\ asked[p] # <<>>
             /\ \/ Pop(p)
                \/ RequestUnrelayed(p, Tail(asked[p]))
                \/ asked' = [asked EXCEPT ![p] = Mempool(Tail(@))]
                \/ asked' = [asked EXCEPT ![p] = Tail(@) \o Ping("memdone")]
  <2>1. UNCHANGED news BY <1>3 DEF Answers, Drain
  <2>2. asked[p] # <<>>
    BY <1>3 DEF Answers, Drain, Waits, AnswerData, AnswerLoad, AnswerMempool, AnswerMempoolDone,
                AnswerGetdataDone, InvDone
  <2>3. \/ Pop(p)
        \/ RequestUnrelayed(p, Tail(asked[p]))
        \/ asked' = [asked EXCEPT ![p] = Mempool(Tail(@))]
        \/ asked' = [asked EXCEPT ![p] = Tail(@) \o Ping("memdone")]
    BY <1>3 DEF Answers, Drain, AnswerData, AnswerLoad, AnswerMempool, AnswerMempoolDone,
                AnswerGetdataDone, InvDone
  <2> QED BY <2>1, <2>2, <2>3
<1>4. ASSUME Answers(p) \/ Drain(p)
      PROVE  AskedOK'
  <2>1. Tail(asked[p]) \in Seq(Ask) BY <1>1, <1>3, <1>4, TailType
  <2>2. CASE Pop(p) BY <1>1, <2>1, <2>2 DEF Pop, AskedOK
  <2>3. CASE RequestUnrelayed(p, Tail(asked[p])) BY <2>1, <2>3, RequestUnrelayedType
  <2>4. CASE asked' = [asked EXCEPT ![p] = Mempool(Tail(@))]
    <3>1. Mempool(Tail(asked[p])) \in Seq(Ask) BY <2>1, MempoolType
    <3> QED BY <1>1, <2>4, <3>1 DEF AskedOK
  <2>5. CASE asked' = [asked EXCEPT ![p] = Tail(@) \o Ping("memdone")]
    <3>1. Tail(asked[p]) \o Ping("memdone") \in Seq(Ask) BY <2>1, PingType, ConcatType
    <3> QED BY <1>1, <2>5, <3>1 DEF AskedOK
  <2> QED BY <1>3, <1>4, <2>2, <2>3, <2>4, <2>5
<1>5. CASE Answers(p) \/ Drain(p) BY <1>1, <1>3, <1>4, <1>5
<1> QED BY <1>2, <1>5 DEF Talking

(* As long as a callback waits that waited before, no timeout ends.         *)
TimersHold ==
  /\ timer' \subseteq Peers
  /\ \A t \in Tx : callback'[t] # None => callback'[t] = callback[t] /\ timer \subseteq timer'

LEMMA TimedByHolding ==
  ASSUME AnnouncedIsTimed, TimersHold, told' = told, Up' \subseteq Up, HistoryOK
  PROVE  AnnouncedIsTimed'
BY DEF AnnouncedIsTimed, TimersHold, HistoryOK, Up

LEMMA StoppedHolds ==
  ASSUME LinksOK, Stopped, callback' = callback
  PROVE  TimersHold
BY DEF LinksOK, Stopped, SyncStopped, TimersHold, Pending

(* Calling back.                                                            *)
LEMMA AnswerKeepsCalls ==
  ASSUME ListsOK, HistoryOK, CallsInOnePlace, NEW t \in Tx, Answer(t), made' = made
  PROVE  /\ callback' \in [Tx -> Calls \cup {None}] /\ answered' \in [Calls -> Nat]
         /\ CallsInOnePlace'
         /\ \A u \in Tx : callback'[u] # None => u # t /\ callback'[u] = callback[u]
<1>1. callback' \in [Tx -> Calls \cup {None}] BY DEF ListsOK, Answer
<1>2. \A u \in Tx : callback'[u] = IF u = t THEN None ELSE callback[u] BY DEF ListsOK, Answer
<1>3. CASE callback[t] = None
  <2>1. answered' = answered BY <1>3 DEF Answer
  <2> QED BY <1>1, <1>2, <2>1 DEF CallsInOnePlace, HistoryOK
<1>4. CASE callback[t] # None
  <2>1. callback[t] \in Calls BY <1>4 DEF ListsOK
  <2>2. answered' = [answered EXCEPT ![callback[t]] = @ + 1] BY <1>4 DEF Answer
  <2>3. answered[callback[t]] = 0 /\ callback[t] \in made BY <1>4 DEF CallsInOnePlace
  <2>4. answered' \in [Calls -> Nat] /\ answered'[callback[t]] = 1
    BY <2>1, <2>2, <2>3 DEF HistoryOK
  <2>5. \A c \in Calls : c # callback[t] => answered'[c] = answered[c]
    BY <2>1, <2>2 DEF HistoryOK
  <2>6. \A c \in Calls : answered'[c] <= 1 /\ (c \notin made' => answered'[c] = 0)
    BY <2>3, <2>4, <2>5 DEF CallsInOnePlace
  <2>7. ASSUME NEW u \in Tx, callback'[u] # None
        PROVE  callback'[u] \in made' /\ answered'[callback'[u]] = 0
    <3>1. u # t /\ callback'[u] = callback[u] BY <1>2, <2>7
    <3>2. callback[u] # callback[t] BY <1>4, <3>1 DEF CallsInOnePlace
    <3>3. callback[u] \in Calls BY <2>7, <3>1 DEF ListsOK
    <3> QED BY <2>5, <2>7, <3>1, <3>2, <3>3 DEF CallsInOnePlace
  <2>8. \A u, v \in Tx : callback'[u] = callback'[v] /\ callback'[u] # None => u = v
    BY <1>2 DEF CallsInOnePlace
  <2> QED BY <1>1, <1>2, <2>4, <2>6, <2>7, <2>8 DEF CallsInOnePlace
<1> QED BY <1>3, <1>4

LEMMA AnswerHolds ==
  ASSUME LinksOK, ListsOK, NEW p \in Peers, NEW t \in Tx, Answer(t),
         timer' \in {TimerFor(p, t), Rescheduled(p, TimerFor(p, t))}
  PROVE  TimersHold
<1>1. \A u \in Tx : callback'[u] # None => u # t /\ callback'[u] = callback[u]
  BY DEF ListsOK, Answer
<1>2. timer' \subseteq Peers BY DEF LinksOK, TimerFor, Rescheduled
<1>3. ASSUME NEW u \in Tx, callback'[u] # None
      PROVE  timer \subseteq timer'
  <2>1. ~(Pending \subseteq {t}) BY <1>1, <1>3 DEF Pending
  <2>2. TimerFor(p, t) = timer BY <2>1 DEF TimerFor
  <2> QED BY <2>2 DEF Rescheduled
<1> QED BY <1>1, <1>2, <1>3 DEF TimersHold

-----------------------------------------------------------------------------
(* The words of a peer.                                                     *)

(* The invariant without the queues, and the steps that keep it.            *)
Core ==
  /\ RelaysLinked /\ FlagsOK /\ LinksOK /\ ListsOK /\ HistoryOK
  /\ ToldIsListed /\ AnnouncedIsTimed /\ CallsInOnePlace /\ ClaimsAreListed

LEMMA InvParts == IInv <=> Core /\ AskedOK
BY TypeParts DEF IInv, Core

LEMMA InvWhole ==
  ASSUME Core', AskedOK'
  PROVE  IInv'
BY TypeWhole DEF IInv, Core

LEMMA CoreWhole ==
  ASSUME RelaysLinked', FlagsOK', LinksOK', ListsOK', HistoryOK',
         ToldIsListed', AnnouncedIsTimed', CallsInOnePlace', ClaimsAreListed'
  PROVE  Core'
BY DEF Core

(* What the words that answer a callback do to the lists.                   *)
LEMMA SpokenEffect ==
  ASSUME Core, NEW p \in Peers, NEW t \in Tx, RelayedTx(p, t) \/ HasTx(p, t) \/ RequestedTx(p, t)
  PROVE  /\ UNCHANGED <<peers, synced, told>> /\ Answer(t)
         /\ timer' \in {TimerFor(p, t), Rescheduled(p, TimerFor(p, t))}
         /\ published \subseteq published' /\ published' \subseteq Tx
         /\ relays' \in {relays, AddPeer(relays, t, p)}
         /\ requests' \in {requests, RemovePeer(requests, t, p)}
         /\ wallet' \in {wallet, Register(t)}
         /\ \/ UNCHANGED <<claims, requests>>
            \/ claims' = [claims EXCEPT ![p] = @ \ {t}]
            \/ claims' = [claims EXCEPT ![p] = @ \cup {t}] /\ relays' = AddPeer(relays, t, p)
<1>1. published \subseteq Tx BY DEF Core, ListsOK
<1>2. CASE RelayedTx(p, t)
  <2>1. \A w : ToPublish(t, w) \subseteq Tx BY DEF ToPublish
  <2>2. published \subseteq published' /\ published' \subseteq Tx
    BY <1>1, <1>2, <2>1 DEF RelayedTx
  <2>3. CASE syncing BY <1>2, <2>2, <2>3 DEF RelayedTx, Says
  <2>4. CASE ~syncing BY <1>2, <2>2, <2>4 DEF RelayedTx, Says
  <2> QED BY <2>3, <2>4
<1>3. CASE HasTx(p, t)
  <2>1. CASE ~Known(t) BY <1>1, <1>3, <2>1 DEF HasTx
  <2>2. CASE Known(t) /\ syncing BY <1>1, <1>3, <2>2 DEF HasTx, Says
  <2>3. CASE Known(t) /\ ~syncing BY <1>1, <1>3, <2>3 DEF HasTx, Says
  <2> QED BY <2>1, <2>2, <2>3
<1>4. CASE RequestedTx(p, t) BY <1>1, <1>4 DEF RequestedTx
<1> QED BY <1>2, <1>3, <1>4

LEMMA SpokenKeeps ==
  ASSUME Core, NEW p \in Up, NEW t \in Tx, news' \in 0..MaxNews,
         RelayedTx(p, t) \/ HasTx(p, t) \/ RequestedTx(p, t)
  PROVE  Core'
<1> USE SpokenEffect, AnswerKeepsCalls, AnswerHolds DEF Core
<1>0. p \in Peers /\ link[p] = "up" BY DEF Up
<1>1. /\ UNCHANGED <<link, download, syncing, behind, links, made, synced, told>> /\ Answer(t)
      /\ published \subseteq published' /\ published' \subseteq Tx
      /\ relays' \in {relays, AddPeer(relays, t, p)}
      /\ requests' \in {requests, RemovePeer(requests, t, p)}
      /\ wallet' \in {wallet, Register(t)}
      /\ \/ UNCHANGED <<claims, requests>>
         \/ claims' = [claims EXCEPT ![p] = @ \ {t}]
         \/ claims' = [claims EXCEPT ![p] = @ \cup {t}] /\ relays' = AddPeer(relays, t, p)
  BY <1>0 DEF peers
<1>2. /\ callback' \in [Tx -> Calls \cup {None}] /\ answered' \in [Calls -> Nat] /\ CallsInOnePlace'
  BY <1>1
<1>3. TimersHold BY <1>0
<1> HIDE SpokenEffect, AnswerKeepsCalls, AnswerHolds
<1>4. FlagsOK' BY <1>1 DEF FlagsOK
<1>5. LinksOK' BY <1>1, <1>3 DEF LinksOK, TimersHold
<1>6. /\ relays' \in [Tx -> SUBSET Peers]
      /\ \A u \in Tx : \A q \in Peers : q \in relays'[u] => q \in relays[u] \/ q = p
      /\ \A u \in Tx : relays[u] \subseteq relays'[u]
      /\ relays' = AddPeer(relays, t, p) => p \in relays'[t]
  BY <1>0, <1>1 DEF ListsOK, AddPeer
<1>7. /\ requests' \in [Tx -> SUBSET Peers]
      /\ \A u \in Tx : \A q \in requests[u] : (q = p /\ u = t) \/ q \in requests'[u]
  BY <1>1 DEF ListsOK, RemovePeer
<1>8. ListsOK'
  <2>1. wallet' \in [Tx -> {"unknown", "unconfirmed", "removed", "confirmed"}]
    BY <1>1 DEF ListsOK, Register
  <2> QED BY <1>1, <1>2, <1>6, <1>7, <2>1 DEF ListsOK
<1>9. HistoryOK' BY <1>0, <1>1, <1>2 DEF HistoryOK
<1>10. RelaysLinked' BY <1>0, <1>1, <1>6 DEF RelaysLinked, ListsOK
<1>11. ToldIsListed' BY <1>1 DEF ToldIsListed
<1>12. AnnouncedIsTimed'
  <2>1. Up' = Up BY <1>1 DEF Up
  <2> QED BY <1>1, <1>3, <2>1, TimedByHolding
<1>13. ClaimsAreListed'
  <2>1. CASE UNCHANGED <<claims, requests>>
    BY <1>6, <2>1 DEF ClaimsAreListed, HistoryOK
  <2>2. CASE claims' = [claims EXCEPT ![p] = @ \ {t}]
    BY <1>0, <1>6, <1>7, <2>2 DEF ClaimsAreListed, HistoryOK
  <2>3. CASE claims' = [claims EXCEPT ![p] = @ \cup {t}] /\ relays' = AddPeer(relays, t, p)
    BY <1>0, <1>6, <1>7, <2>3 DEF ClaimsAreListed, HistoryOK
  <2> QED BY <1>1, <2>1, <2>2, <2>3
<1> QED BY <1>2, <1>4, <1>5, <1>8, <1>9, <1>10, <1>11, <1>12, <1>13, CoreWhole

(* Denials.                                                                 *)
LEMMA DeniedKeeps ==
  ASSUME Core, NEW p \in Up, NEW t \in Tx, news' \in 0..MaxNews, NotFound(p, t) \/ RejectedTx(p, t)
  PROVE  Core'
<1> USE DEF Core
<1>0. p \in Peers /\ link[p] = "up" BY DEF Up
<1>1. /\ UNCHANGED <<download, syncing, behind, links, made, synced, told, timer, published, callback,
                     wallet, answered>>
      /\ link' \in {link, [link EXCEPT ![p] = "lost"]}
      /\ relays' \in {relays, RemovePeer(relays, t, p)}
      /\ requests' = RemovePeer(requests, t, p)
      /\ claims' = [claims EXCEPT ![p] = @ \ {t}]
  BY DEF NotFound, RejectedTx, Unsays, peers
<1>2. /\ relays' \in [Tx -> SUBSET Peers] /\ requests' \in [Tx -> SUBSET Peers]
      /\ \A u \in Tx : relays'[u] \subseteq relays[u]
      /\ \A u \in Tx : \A q \in relays[u] \cup requests[u] :
           (q = p /\ u = t) \/ q \in relays'[u] \cup requests'[u]
  BY <1>1 DEF ListsOK, RemovePeer
<1>3. /\ link' \in [Peers -> {"none", "dialing", "up", "timedout", "lost"}]
      /\ \A q \in Peers : link'[q] = link[q] \/ (link[q] = "up" /\ link'[q] = "lost")
  BY <1>0, <1>1 DEF LinksOK
<1>4. FlagsOK' BY <1>1 DEF FlagsOK
<1>5. LinksOK' BY <1>1, <1>3 DEF LinksOK
<1>6. ListsOK' BY <1>1, <1>2 DEF ListsOK
<1>7. HistoryOK' BY <1>0, <1>1 DEF HistoryOK
<1>8. RelaysLinked' BY <1>2, <1>3 DEF RelaysLinked, ListsOK
<1>9. ToldIsListed' BY <1>1, <1>3 DEF ToldIsListed
<1>10. AnnouncedIsTimed' BY <1>1, <1>3 DEF AnnouncedIsTimed, Up
<1>11. CallsInOnePlace' BY <1>1 DEF CallsInOnePlace
<1>12. ClaimsAreListed' BY <1>0, <1>1, <1>2 DEF ClaimsAreListed, HistoryOK
<1> QED BY <1>4, <1>5, <1>6, <1>7, <1>8, <1>9, <1>10, <1>11, <1>12, CoreWhole

-----------------------------------------------------------------------------
(* What follows a ping.                                                     *)

(* Core speaks of neither the queues nor the marks.                         *)
LEMMA QuietKeeps ==
  ASSUME Core, news' \in 0..MaxNews,
         UNCHANGED <<link, download, links, made, timer, lists, history>>,
         syncing' \in BOOLEAN, behind' \in BOOLEAN, synced' \subseteq Peers
  PROVE  Core'
<1> USE DEF Core
<1>1. /\ UNCHANGED <<link, download, links, made, timer, published, callback, relays, requests, wallet,
                     answered, told, claims>>
  BY DEF lists, history
<1>2. FlagsOK' BY DEF FlagsOK
<1>3. LinksOK' BY <1>1 DEF LinksOK
<1>4. ListsOK' BY <1>1 DEF ListsOK
<1>5. HistoryOK' BY <1>1 DEF HistoryOK
<1>6. RelaysLinked' BY <1>1 DEF RelaysLinked
<1>7. ToldIsListed' BY <1>1 DEF ToldIsListed
<1>8. AnnouncedIsTimed' BY <1>1 DEF AnnouncedIsTimed, Up
<1>9. CallsInOnePlace' BY <1>1 DEF CallsInOnePlace
<1>10. ClaimsAreListed' BY <1>1 DEF ClaimsAreListed
<1> QED BY <1>2, <1>3, <1>4, <1>5, <1>6, <1>7, <1>8, <1>9, <1>10, CoreWhole

LEMMA StopsKeeps ==
  ASSUME Core, news' \in 0..MaxNews, Stops
  PROVE  Core'
<1> USE DEF Core
<1>1. UNCHANGED <<link, download, behind, links, made, synced, published, callback, relays, requests,
                  wallet, answered, told, claims>>
  BY DEF Stops, lists, history
<1>2. TimersHold BY <1>1, StoppedHolds DEF Stops
<1>3. FlagsOK' BY <1>1 DEF FlagsOK, Stops, Stopped, SyncStopped
<1>4. LinksOK' BY <1>1, <1>2 DEF LinksOK, TimersHold
<1>5. ListsOK' BY <1>1 DEF ListsOK
<1>6. HistoryOK' BY <1>1 DEF HistoryOK
<1>7. RelaysLinked' BY <1>1 DEF RelaysLinked
<1>8. ToldIsListed' BY <1>1 DEF ToldIsListed
<1>9. AnnouncedIsTimed'
  <2>1. Up' = Up BY <1>1 DEF Up
  <2> QED BY <1>1, <1>2, <2>1, TimedByHolding
<1>10. CallsInOnePlace' BY <1>1 DEF CallsInOnePlace
<1>11. ClaimsAreListed' BY <1>1 DEF ClaimsAreListed
<1> QED BY <1>3, <1>4, <1>5, <1>6, <1>7, <1>8, <1>9, <1>10, <1>11, CoreWhole

(* What is asked for is counted as requested and as a claim alike.          *)
LEMMA RequestingKeeps ==
  ASSUME Core, news' \in 0..MaxNews, NEW p \in Peers, Requesting(p)
  PROVE  Core'
<1> USE DEF Core
<1>1. UNCHANGED <<link, download, behind, links, made, published, callback, relays, wallet,
                  answered, told>>
  BY DEF Requesting
<1>2. PICK missing \in SUBSET Tx :
        /\ requests' = [t \in Tx |-> IF t \in missing THEN requests[t] \cup {p} ELSE requests[t]]
        /\ claims' = [claims EXCEPT ![p] = @ \cup missing]
        /\ synced' \in {synced, synced \cup {p}}
  <2> DEFINE missing == {t \in Unconfirmed : p \notin relays[t] \cup requests[t]}
  <2>1. missing \subseteq Tx BY DEF Unconfirmed
  <2> QED BY <2>1 DEF Requesting, RequestUnrelayed
<1>3. TimersHold BY <1>1, StoppedHolds DEF Requesting
<1>4. FlagsOK' BY <1>1 DEF FlagsOK, Requesting, Stopped, SyncStopped
<1>5. LinksOK' BY <1>1, <1>2, <1>3 DEF LinksOK, TimersHold
<1>6. /\ requests' \in [Tx -> SUBSET Peers]
      /\ \A u \in Tx : requests[u] \subseteq requests'[u]
      /\ \A u \in missing : p \in requests'[u]
  BY <1>2 DEF ListsOK
<1>7. ListsOK' BY <1>1, <1>6 DEF ListsOK
<1>8. HistoryOK' BY <1>1, <1>2 DEF HistoryOK
<1>9. RelaysLinked' BY <1>1 DEF RelaysLinked
<1>10. ToldIsListed' BY <1>1 DEF ToldIsListed
<1>11. AnnouncedIsTimed'
  <2>1. Up' = Up BY <1>1 DEF Up
  <2> QED BY <1>1, <1>3, <2>1, TimedByHolding
<1>12. CallsInOnePlace' BY <1>1 DEF CallsInOnePlace
<1>13. ClaimsAreListed' BY <1>1, <1>2, <1>6 DEF ClaimsAreListed, HistoryOK
<1> QED BY <1>4, <1>5, <1>7, <1>8, <1>9, <1>10, <1>11, <1>12, <1>13, CoreWhole

LEMMA RemovingKeeps ==
  ASSUME Core, news' \in 0..MaxNews, NEW p \in Peers, Removing(p)
  PROVE  Core'
<1> USE DEF Core
<1>1. UNCHANGED <<link, download, behind, syncing, timer, links, made, published, callback, relays,
                  requests, answered, told, claims>>
  BY DEF Removing, GetdataDone, history
<1>2. FlagsOK' BY <1>1 DEF FlagsOK
<1>3. LinksOK' BY <1>1 DEF LinksOK, Removing, GetdataDone
<1>4. ListsOK' BY <1>1 DEF ListsOK, Removing, GetdataDone
<1>5. HistoryOK' BY <1>1 DEF HistoryOK
<1>6. RelaysLinked' BY <1>1 DEF RelaysLinked
<1>7. ToldIsListed' BY <1>1 DEF ToldIsListed
<1>8. AnnouncedIsTimed' BY <1>1 DEF AnnouncedIsTimed, Up
<1>9. CallsInOnePlace' BY <1>1 DEF CallsInOnePlace
<1>10. ClaimsAreListed' BY <1>1 DEF ClaimsAreListed
<1> QED BY <1>2, <1>3, <1>4, <1>5, <1>6, <1>7, <1>8, <1>9, <1>10, CoreWhole

LEMMA TalkingKeeps ==
  ASSUME IInv, NEW p \in Peers, Talking(p)
  PROVE  IInv'
<1>1. Core BY InvParts
<1>2. AskedOK' /\ news' \in 0..MaxNews BY AskedTalking DEF IInv
<1>3. Core'
  <2>1. CASE \E t \in Tx : p \in Up /\ Word(p, t)
    <3>1. PICK t \in Tx : p \in Up /\ Word(p, t) BY <2>1
    <3>2. CASE RelayedTx(p, t) \/ HasTx(p, t) \/ RequestedTx(p, t)
      BY <1>1, <1>2, <3>1, <3>2, SpokenKeeps
    <3>3. CASE NotFound(p, t) \/ RejectedTx(p, t) BY <1>1, <1>2, <3>1, <3>3, DeniedKeeps
    <3> QED BY <3>1, <3>2, <3>3 DEF Word
  <2>2. CASE Quiet
    <3>1. syncing' \in BOOLEAN /\ behind' \in BOOLEAN /\ synced' \subseteq Peers
      BY <1>1, <2>2 DEF Core, FlagsOK, LinksOK, Quiet, peers
    <3> QED BY <1>1, <1>2, <2>2, <3>1, QuietKeeps DEF Quiet, peers
  <2>3. CASE Stops BY <1>1, <1>2, <2>3, StopsKeeps
  <2>4. CASE Requesting(p) BY <1>1, <1>2, <2>4, RequestingKeeps
  <2>5. CASE Removing(p) BY <1>1, <1>2, <2>5, RemovingKeeps
  <2> QED BY <2>1, <2>2, <2>3, <2>4, <2>5, TalkingCases DEF IInv
<1> QED BY <1>2, <1>3, InvWhole

-----------------------------------------------------------------------------
(* Connections.                                                             *)

LEMMA LoadMempoolsType ==
  ASSUME AskedOK, NEW S, NEW good, LoadMempools(S, good)
  PROVE  AskedOK'
<1>1. ASSUME NEW p \in Peers
      PROVE  /\ asked[p] \in Seq(Ask) /\ asked[p] \o Ping("load") \in Seq(Ask)
             /\ Mempool(asked[p]) \in Seq(Ask)
  <2>1. asked[p] \in Seq(Ask) BY DEF AskedOK
  <2>2. asked[p] \o Ping("load") \in Seq(Ask) BY <2>1, PingType, ConcatType
  <2> QED BY <2>1, <2>2, MempoolType
<1> QED BY <1>1 DEF AskedOK, LoadMempools

(* Steps that tell the peers of S what is listed, and call nobody back.     *)
Tells(S) ==
  /\ UNCHANGED <<made, synced, lists, answered, claims>> /\ news' \in 0..MaxNews
  /\ told' = [p \in Peers |-> IF p \in S THEN told[p] \cup published ELSE told[p]]
  /\ timer \subseteq timer' /\ timer' \subseteq Peers
  /\ (\E t \in Tx : callback[t] # None) => S \subseteq timer'
  /\ syncing' \in BOOLEAN /\ behind' \in BOOLEAN
  /\ links' \in 0..MaxLinks /\ download' \in Peers \cup {None}
  /\ link' \in [Peers -> {"none", "dialing", "up", "timedout", "lost"}]
  /\ \A p \in Peers :
       /\ link'[p] = "none" => link[p] = "none"
       /\ link'[p] \in {"none", "dialing"} => link[p] \in {"none", "dialing"}
       /\ link'[p] = "up" => link[p] \in {"dialing", "up"}
       /\ p \in S => link'[p] \notin {"none", "dialing"}

LEMMA TellsKeeps ==
  ASSUME Core, NEW S \in SUBSET Peers, Tells(S)
  PROVE  Core'
<1> USE DEF Core
<1>1. UNCHANGED <<made, synced, published, callback, relays, requests, wallet, answered, claims>>
  BY DEF Tells, lists
<1>2. FlagsOK' BY DEF FlagsOK, Tells
<1>3. LinksOK' BY <1>1 DEF LinksOK, Tells
<1>4. ListsOK' BY <1>1 DEF ListsOK
<1>5. HistoryOK' BY <1>1 DEF HistoryOK, ListsOK, Tells
<1>6. RelaysLinked' BY <1>1 DEF RelaysLinked, ListsOK, Tells
<1>7. ToldIsListed'
  <2>1. \A p \in Peers : told'[p] = IF p \in S THEN told[p] \cup published ELSE told[p] BY DEF Tells
  <2> QED BY <1>1, <2>1 DEF ToldIsListed, Tells
<1>8. AnnouncedIsTimed'
  <2> SUFFICES ASSUME NEW p \in Peers, link'[p] = "up", NEW t \in told'[p], callback'[t] # None
               PROVE  p \in timer'
    BY DEF AnnouncedIsTimed, Up
  <2>1. t \in Tx /\ callback[t] # None BY <1>1, <1>5 DEF HistoryOK
  <2>2. CASE p \in S BY <2>1, <2>2 DEF Tells
  <2>3. CASE p \notin S
    <3>1. t \in told[p] BY <2>3 DEF Tells
    <3>2. link[p] = "up" BY <3>1 DEF ToldIsListed, Tells
    <3> QED BY <2>1, <3>1, <3>2 DEF AnnouncedIsTimed, Up, Tells
  <2> QED BY <2>2, <2>3
<1>9. CallsInOnePlace' BY <1>1 DEF CallsInOnePlace
<1>10. ClaimsAreListed' BY <1>1 DEF ClaimsAreListed
<1> QED BY <1>2, <1>3, <1>4, <1>5, <1>6, <1>7, <1>8, <1>9, <1>10, CoreWhole

LEMMA PublishPendingTells ==
  ASSUME Core, NEW S \in SUBSET Peers, PublishPending(S, published, callback)
  PROVE  /\ told' = [p \in Peers |-> IF p \in S THEN told[p] \cup published ELSE told[p]]
         /\ timer \subseteq timer' /\ timer' \subseteq Peers
         /\ (\E t \in Tx : callback[t] # None) => S \subseteq timer'
BY DEF PublishPending, Core, LinksOK

LEMMA ConnectKeeps ==
  ASSUME IInv, NEW S \in SUBSET Peers, Connect(S)
  PROVE  IInv'
<1> USE InvParts
<1>1. AskedOK' BY DEF Connect, AskedOK
<1>2. links + Cardinality(S) \in 0..MaxLinks
  <2>1. Cardinality(S) \in Nat BY PeersAssumption, FS_Subset, FS_CardinalityType
  <2>2. links \in Nat /\ links + Cardinality(S) <= MaxLinks BY DEF Core, LinksOK, Connect
  <2> QED BY <2>1, <2>2, LimitAssumption
<1>3. Tells({})
  <2>1. syncing' \in BOOLEAN /\ behind' \in BOOLEAN BY DEF Core, FlagsOK, Connect
  <2>2. link' \in [Peers -> {"none", "dialing", "up", "timedout", "lost"}]
    BY DEF Core, LinksOK, Connect
  <2>3. told' = [p \in Peers |-> IF p \in {} THEN told[p] \cup published ELSE told[p]]
    BY DEF Core, HistoryOK, Connect, history
  <2>4. UNCHANGED <<made, synced, lists, answered, claims, timer, download>>
    BY DEF Connect, history
  <2>6. news' \in 0..MaxNews
    <3>1. news \in 0..MaxNews BY DEF Core, LinksOK
    <3>2. (S = {} /\ news < MaxNews /\ news' = news + 1) \/ news' = news BY DEF Connect
    <3> QED BY <3>1, <3>2, LimitAssumption
  <2>5. \A p \in Peers : link'[p] = link[p] \/ (link[p] = "none" /\ link'[p] = "dialing")
    BY DEF Connect
  <2> QED BY <1>2, <2>1, <2>2, <2>3, <2>4, <2>5, <2>6 DEF Tells, Core, LinksOK, Connect
<1>4. Core' BY <1>3, TellsKeeps
<1> QED BY <1>1, <1>4, InvWhole

LEMMA ConnectBesideKeeps ==
  ASSUME IInv, NEW p \in Peers, ConnectBeside(p)
  PROVE  IInv'
<1> USE InvParts
<1>1. AskedOK'
  <2>1. asked[p] \o Ping("load") \in Seq(Ask) BY PingType, ConcatType DEF AskedOK
  <2> QED BY <2>1 DEF ConnectBeside, AskedOK
<1>2. /\ link' = [link EXCEPT ![p] = "up"] /\ link[p] = "dialing"
      /\ UNCHANGED <<download, syncing, behind, links, made, news, synced, lists, answered, claims>>
  BY DEF ConnectBeside
<1>3. /\ link' \in [Peers -> {"none", "dialing", "up", "timedout", "lost"}] /\ link'[p] = "up"
      /\ \A q \in Peers : q # p => link'[q] = link[q]
  BY <1>2 DEF Core, LinksOK
<1>4. syncing' \in BOOLEAN /\ behind' \in BOOLEAN BY <1>2 DEF Core, FlagsOK
<1>5. CASE UNCHANGED <<asked, timer, told>>
  <2>1. /\ told' = [q \in Peers |-> IF q \in {} THEN told[q] \cup published ELSE told[q]]
        /\ timer' = timer
    BY <1>5 DEF Core, HistoryOK
  <2>2. Tells({}) BY <1>2, <1>3, <1>4, <2>1 DEF Tells, Core, LinksOK
  <2>3. Core' BY <2>2, TellsKeeps
  <2> QED BY <1>1, <2>3, InvWhole
<1>6. CASE PublishPending({p}, published, callback)
  <2>1. Tells({p}) BY <1>2, <1>3, <1>4, <1>6, PublishPendingTells DEF Tells, Core, LinksOK
  <2>2. Core' BY <2>1, TellsKeeps
  <2> QED BY <1>1, <2>2, InvWhole
<1> QED BY <1>5, <1>6 DEF ConnectBeside

LEMMA ConnectDownloadKeeps ==
  ASSUME IInv, NEW p \in Peers, ConnectDownload(p)
  PROVE  IInv'
<1> USE InvParts
<1>1. /\ link' = [link EXCEPT ![p] = "up"] /\ link[p] = "dialing"
      /\ UNCHANGED <<syncing, links, made, news, synced, lists, answered, claims>>
  BY DEF ConnectDownload
<1>2. /\ link' \in [Peers -> {"none", "dialing", "up", "timedout", "lost"}] /\ link'[p] = "up"
      /\ \A q \in Peers : q # p => link'[q] = link[q]
  BY <1>1 DEF Core, LinksOK
<1>3. PICK best \in Up \cup {p} :
        /\ download' = best
        /\ \/ /\ behind' = TRUE
              /\ told' = [told EXCEPT ![best] = @ \cup published]
              /\ timer' = timer \cup {best}
              /\ UNCHANGED asked
           \/ /\ behind' = FALSE
              /\ PublishPending(Up \cup {p}, published, callback)
              /\ LoadMempools(Up \cup {p}, {best})
  BY DEF ConnectDownload
<1>4. Up \cup {p} \subseteq Peers /\ \A q \in Up \cup {p} : link'[q] = "up" BY <1>2 DEF Up
<1>5. AskedOK' BY <1>3, LoadMempoolsType DEF AskedOK
<1>6. syncing' \in BOOLEAN /\ behind' \in BOOLEAN BY <1>1, <1>3 DEF Core, FlagsOK
<1>7. CASE told' = [told EXCEPT ![best] = @ \cup published] /\ timer' = timer \cup {best}
  <2>1. told' = [q \in Peers |-> IF q \in {best} THEN told[q] \cup published ELSE told[q]]
    BY <1>4, <1>7 DEF Core, HistoryOK
  <2>2. timer \subseteq timer' /\ timer' \subseteq Peers /\ download' \in Peers \cup {None}
    BY <1>3, <1>4, <1>7 DEF Core, LinksOK
  <2>3. links' \in 0..MaxLinks /\ news' \in 0..MaxNews BY <1>1 DEF Core, LinksOK
  <2>4. Tells({best}) BY <1>1, <1>2, <1>4, <1>6, <1>7, <2>1, <2>2, <2>3 DEF Tells
  <2>5. Core' BY <1>4, <2>4, TellsKeeps
  <2> QED BY <1>5, <2>5, InvWhole
<1>8. CASE PublishPending(Up \cup {p}, published, callback)
  <2>1. download' \in Peers \cup {None} /\ links' \in 0..MaxLinks /\ news' \in 0..MaxNews
    BY <1>1, <1>3, <1>4 DEF Core, LinksOK
  <2>2. Tells(Up \cup {p})
    BY <1>1, <1>2, <1>4, <1>6, <1>8, <2>1, PublishPendingTells DEF Tells
  <2>3. Core' BY <1>4, <2>2, TellsKeeps
  <2> QED BY <1>5, <2>3, InvWhole
<1> QED BY <1>3, <1>7, <1>8

LEMMA ReplaceDownloadKeeps ==
  ASSUME IInv, NEW p \in Peers, ReplaceDownload(p)
  PROVE  IInv'
<1> USE InvParts
<1>1. /\ link' = [link EXCEPT ![p] = "up", ![download] = IF @ = "up" THEN "lost" ELSE @]
      /\ link[p] = "dialing" /\ download \in Peers /\ behind' = TRUE
      /\ UNCHANGED <<asked, syncing, links, made, news, synced, lists, answered, claims>>
  BY DEF ReplaceDownload, Core, LinksOK
<1>2. PICK best \in (Up \cup {p}) \ {download} :
        /\ download' = best
        /\ told' = [told EXCEPT ![best] = @ \cup published]
        /\ timer' = timer \cup {best}
  BY DEF ReplaceDownload
<1>3. /\ link' \in [Peers -> {"none", "dialing", "up", "timedout", "lost"}]
      /\ \A q \in Peers : q \notin {p, download} => link'[q] = link[q]
      /\ download # p => link'[p] = "up"
      /\ link'[download] = "lost" \/ link'[download] = link[download]
  BY <1>1 DEF Core, LinksOK
<1>4. best \in Peers /\ link'[best] = "up" BY <1>1, <1>2, <1>3 DEF Up
<1>5. told' = [q \in Peers |-> IF q \in {best} THEN told[q] \cup published ELSE told[q]]
  BY <1>2, <1>4 DEF Core, HistoryOK
<1>6. syncing' \in BOOLEAN /\ behind' \in BOOLEAN BY <1>1 DEF Core, FlagsOK
<1>7. \A q \in Peers : /\ link'[q] = "none" => link[q] = "none"
                       /\ link'[q] \in {"none", "dialing"} => link[q] \in {"none", "dialing"}
                       /\ link'[q] = "up" => link[q] \in {"dialing", "up"}
  BY <1>1, <1>3
<1>8. Tells({best}) BY <1>1, <1>2, <1>3, <1>4, <1>5, <1>6, <1>7 DEF Tells, Core, LinksOK
<1>9. Core' BY <1>4, <1>8, TellsKeeps
<1>10. AskedOK' BY <1>1 DEF AskedOK
<1> QED BY <1>9, <1>10, InvWhole

LEMMA ChainCompleteKeeps ==
  ASSUME IInv, ChainComplete
  PROVE  IInv'
<1> USE InvParts
<1>1. /\ behind' = FALSE
      /\ UNCHANGED <<link, download, syncing, links, made, news, synced, lists, answered, claims>>
  BY DEF ChainComplete
<1>2. PICK good \in SUBSET (Up \cap {download}) :
        LoadMempools(Up, good) /\ PublishPending(Up \ good, published, callback)
  BY DEF ChainComplete
<1>3. Up \ good \subseteq Peers /\ \A q \in Up \ good : link'[q] = "up" BY <1>1 DEF Up
<1>4. syncing' \in BOOLEAN /\ behind' \in BOOLEAN BY <1>1 DEF Core, FlagsOK
<1>5. Tells(Up \ good)
  BY <1>1, <1>2, <1>3, <1>4, PublishPendingTells DEF Tells, Core, LinksOK
<1>6. Core' BY <1>3, <1>5, TellsKeeps
<1>7. AskedOK' BY <1>2, LoadMempoolsType
<1> QED BY <1>6, <1>7, InvWhole

LEMMA LoseKeeps ==
  ASSUME IInv, NEW p \in Peers, Lose(p)
  PROVE  IInv'
<1> USE InvParts
<1>1. /\ link' \in {[link EXCEPT ![p] = "timedout"], [link EXCEPT ![p] = "lost"]}
      /\ link[p] \in {"dialing", "up"}
      /\ UNCHANGED <<download, syncing, behind, links, made, timer, asked, news, synced, lists,
                     answered, told, claims>>
  BY DEF Lose, talk, history
<1>2. /\ link' \in [Peers -> {"none", "dialing", "up", "timedout", "lost"}]
      /\ link'[p] \in {"timedout", "lost"}
      /\ \A q \in Peers : q # p => link'[q] = link[q]
  BY <1>1 DEF Core, LinksOK
<1>3. told' = [q \in Peers |-> IF q \in {} THEN told[q] \cup published ELSE told[q]]
  BY <1>1 DEF Core, HistoryOK
<1>4. syncing' \in BOOLEAN /\ behind' \in BOOLEAN BY <1>1 DEF Core, FlagsOK
<1>5. Tells({}) BY <1>1, <1>2, <1>3, <1>4 DEF Tells, Core, LinksOK
<1>6. Core' BY <1>5, TellsKeeps
<1>7. AskedOK' BY <1>1 DEF AskedOK
<1> QED BY <1>6, <1>7, InvWhole

(* All the callbacks that wait are called, or none.                         *)
LEMMA PeerDisconnectedKeeps ==
  ASSUME IInv, NEW p \in Peers, PeerDisconnected(p)
  PROVE  IInv'
<1> USE InvParts DEF Core
<1>1. /\ link' = [link EXCEPT ![p] = "none"]
      /\ relays' = [t \in Tx |-> relays[t] \ {p}]
      /\ timer' = timer \ {p} /\ synced' = synced \ {p}
      /\ told' = [told EXCEPT ![p] = {}] /\ claims' = [claims EXCEPT ![p] = {}]
      /\ UNCHANGED <<behind, links, made, news, asked, published, requests, wallet>>
      /\ download' \in {None, download}
  BY DEF PeerDisconnected, RelaysWithout
<1>2. \/ UNCHANGED <<callback, answered>>
      \/ /\ callback' = [t \in Tx |-> None]
         /\ answered' = [c \in Calls |-> IF \E t \in Tx : callback[t] = c
                                           THEN answered[c] + 1 ELSE answered[c]]
  BY DEF PeerDisconnected
<1>3. syncing' \in BOOLEAN /\ behind' \in BOOLEAN BY <1>1 DEF FlagsOK, PeerDisconnected
<1>4. /\ link' \in [Peers -> {"none", "dialing", "up", "timedout", "lost"}] /\ link'[p] = "none"
      /\ \A q \in Peers : q # p => link'[q] = link[q]
  BY <1>1 DEF LinksOK
<1>5. /\ callback' \in [Tx -> Calls \cup {None}] /\ answered' \in [Calls -> Nat] /\ CallsInOnePlace'
      /\ \A t \in Tx : callback'[t] # None => callback'[t] = callback[t]
  <2>1. CASE UNCHANGED <<callback, answered>>
    BY <1>1, <2>1 DEF ListsOK, HistoryOK, CallsInOnePlace
  <2>2. CASE /\ callback' = [t \in Tx |-> None]
             /\ answered' = [c \in Calls |-> IF \E t \in Tx : callback[t] = c
                                               THEN answered[c] + 1 ELSE answered[c]]
    <3>1. ASSUME NEW c \in Calls
          PROVE  answered'[c] \in Nat /\ answered'[c] <= 1 /\ (c \notin made' => answered'[c] = 0)
      <4>1. answered[c] \in Nat /\ answered[c] <= 1 /\ (c \notin made => answered[c] = 0)
        BY DEF HistoryOK, CallsInOnePlace
      <4>2. CASE \E t \in Tx : callback[t] = c
        <5>1. c \in made /\ answered[c] = 0 BY <4>2, NoneIsNobody DEF CallsInOnePlace
        <5> QED BY <1>1, <2>2, <4>2, <5>1
      <4>3. CASE ~\E t \in Tx : callback[t] = c BY <1>1, <2>2, <4>1, <4>3
      <4> QED BY <4>2, <4>3
    <3>2. \A t \in Tx : callback'[t] = None BY <2>2
    <3>3. callback' \in [Tx -> Calls \cup {None}] /\ answered' \in [Calls -> Nat]
      BY <2>2, <3>1
    <3> QED BY <3>1, <3>2, <3>3 DEF CallsInOnePlace
  <2> QED BY <1>2, <2>1, <2>2
<1>6. FlagsOK' BY <1>3 DEF FlagsOK
<1>7. LinksOK' BY <1>1, <1>4 DEF LinksOK
<1>8. /\ relays' \in [Tx -> SUBSET Peers]
      /\ \A t \in Tx : \A q \in Peers : q \in relays'[t] <=> q \in relays[t] /\ q # p
  BY <1>1 DEF ListsOK
<1>9. ListsOK' BY <1>1, <1>5, <1>8 DEF ListsOK
<1>10. HistoryOK' BY <1>1, <1>5 DEF HistoryOK
<1>11. RelaysLinked' BY <1>4, <1>8 DEF RelaysLinked, ListsOK
<1>12. told'[p] = {} /\ \A q \in Peers : q # p => told'[q] = told[q] BY <1>1 DEF HistoryOK
<1>13. ToldIsListed' BY <1>1, <1>4, <1>12 DEF ToldIsListed
<1>14. AnnouncedIsTimed' BY <1>1, <1>4, <1>5, <1>12 DEF AnnouncedIsTimed, Up, HistoryOK
<1>15. ClaimsAreListed' BY <1>1, <1>8 DEF ClaimsAreListed, HistoryOK
<1>16. Core' BY <1>5, <1>6, <1>7, <1>9, <1>10, <1>11, <1>13, <1>14, <1>15, CoreWhole
<1>17. AskedOK' BY <1>1 DEF AskedOK
<1> QED BY <1>16, <1>17, InvWhole

LEMMA ConfirmKeeps ==
  ASSUME IInv, NEW t \in Tx, Confirm(t)
  PROVE  IInv'
<1> USE InvParts DEF Core
<1>1. /\ wallet' = [wallet EXCEPT ![t] = "confirmed"]
      /\ UNCHANGED <<link, download, syncing, behind, links, made, timer, asked, synced, news, published,
                     callback, relays, requests, answered, told, claims>>
  BY DEF Confirm, peers, talk, history
<1>2. FlagsOK' BY <1>1 DEF FlagsOK
<1>3. LinksOK' BY <1>1 DEF LinksOK
<1>4. ListsOK' BY <1>1 DEF ListsOK
<1>5. HistoryOK' BY <1>1 DEF HistoryOK
<1>6. RelaysLinked' BY <1>1 DEF RelaysLinked
<1>7. ToldIsListed' BY <1>1 DEF ToldIsListed
<1>8. AnnouncedIsTimed' BY <1>1 DEF AnnouncedIsTimed, Up
<1>9. CallsInOnePlace' BY <1>1 DEF CallsInOnePlace
<1>10. ClaimsAreListed' BY <1>1 DEF ClaimsAreListed
<1>11. Core' BY <1>2, <1>3, <1>4, <1>5, <1>6, <1>7, <1>8, <1>9, <1>10, CoreWhole
<1>12. AskedOK' BY <1>1 DEF AskedOK
<1> QED BY <1>11, <1>12, InvWhole

-----------------------------------------------------------------------------
(* Publishing.                                                              *)

LEMMA PublishRefusedKeeps ==
  ASSUME IInv, NEW c \in Calls, NEW t \in Tx, c \notin made, made' = made \cup {c},
         PublishRefused(c, t)
  PROVE  IInv'
<1> USE InvParts DEF Core
<1>1. /\ answered' = [answered EXCEPT ![c] = @ + 1]
      /\ UNCHANGED <<link, download, syncing, behind, links, timer, asked, synced, news, published,
                     callback, relays, requests, wallet, told, claims>>
  BY DEF PublishRefused, talk, lists
<1>2. answered[c] = 0 BY DEF CallsInOnePlace
<1>3. answered' \in [Calls -> Nat] /\ answered'[c] = 1 /\ \A d \in Calls : d # c => answered'[d] = answered[d]
  BY <1>1, <1>2 DEF HistoryOK
<1>4. FlagsOK' BY <1>1 DEF FlagsOK
<1>5. LinksOK' BY <1>1 DEF LinksOK
<1>6. ListsOK' BY <1>1 DEF ListsOK
<1>7. HistoryOK' BY <1>1, <1>3 DEF HistoryOK
<1>8. RelaysLinked' BY <1>1 DEF RelaysLinked
<1>9. ToldIsListed' BY <1>1 DEF ToldIsListed
<1>10. AnnouncedIsTimed' BY <1>1 DEF AnnouncedIsTimed, Up
<1>11. CallsInOnePlace'
  <2>1. \A d \in Calls : answered'[d] <= 1 /\ (d \notin made' => answered'[d] = 0)
    BY <1>3 DEF CallsInOnePlace
  <2>2. ASSUME NEW u \in Tx, callback[u] # None
        PROVE  callback[u] \in made' /\ answered'[callback[u]] = 0
    <3>1. callback[u] \in made /\ answered[callback[u]] = 0 BY <2>2 DEF CallsInOnePlace
    <3>2. callback[u] \in Calls \ {c} BY <2>2, <3>1 DEF ListsOK
    <3> QED BY <1>3, <3>1, <3>2
  <2>3. \A u, v \in Tx : callback[u] = callback[v] /\ callback[u] # None => u = v
    BY DEF CallsInOnePlace
  <2> QED BY <1>1, <2>1, <2>2, <2>3 DEF CallsInOnePlace
<1>12. ClaimsAreListed' BY <1>1 DEF ClaimsAreListed
<1>13. Core' BY <1>4, <1>5, <1>6, <1>7, <1>8, <1>9, <1>10, <1>11, <1>12, CoreWhole
<1>14. AskedOK' BY <1>1 DEF AskedOK
<1> QED BY <1>13, <1>14, InvWhole

(* What is put on the list was not on it, so nobody was told of it.         *)
LEMMA PublishListedKeeps ==
  ASSUME IInv, NEW c \in Calls, NEW t \in Tx, c \notin made, made' = made \cup {c},
         PublishListed(c, t)
  PROVE  IInv'
<1> USE InvParts DEF Core
<1> DEFINE new   == ToPublish(t, wallet)
           first == IF Cardinality(Up) = 1 THEN Up ELSE Up \ {download}
<1>1. /\ published' = published \cup new
      /\ callback' = IF t \in new THEN [callback EXCEPT ![t] = c] ELSE callback
      /\ PublishPending(first, published', callback')
      /\ asked' = [p \in Peers |-> IF p \in first THEN asked[p] \o Ping("invdone") ELSE asked[p]]
      /\ UNCHANGED <<link, download, syncing, behind, links, news, synced, relays, requests, wallet,
                     answered, claims>>
  BY DEF PublishListed
<1>2. new \subseteq Tx /\ (t \in new => t \notin published) BY DEF ToPublish, Fits
<1>3. first \subseteq Up OBVIOUS
<1> HIDE DEF new, first
<1>4. AskedOK'
  <2>1. \A p \in Peers : asked[p] \o Ping("invdone") \in Seq(Ask) BY PingType, ConcatType DEF AskedOK
  <2> QED BY <1>1, <2>1 DEF AskedOK
<1>5. /\ callback' \in [Tx -> Calls \cup {None}]
      /\ \A u \in Tx : callback'[u] = callback[u] \/ (u = t /\ u \in new /\ callback'[u] = c)
  BY <1>1 DEF ListsOK
<1>6. /\ timer \subseteq timer' /\ timer' \subseteq Peers
      /\ \A u \in Tx : callback'[u] # None => first \subseteq timer'
      /\ told' = [p \in Peers |-> IF p \in first THEN told[p] \cup published' ELSE told[p]]
  BY <1>1, <1>3 DEF PublishPending, LinksOK, Up
<1>7. FlagsOK' BY <1>1 DEF FlagsOK
<1>8. LinksOK' BY <1>1, <1>6 DEF LinksOK
<1>9. ListsOK' BY <1>1, <1>2, <1>5 DEF ListsOK
<1>10. HistoryOK' BY <1>1, <1>2, <1>6 DEF HistoryOK, ListsOK
<1>11. RelaysLinked' BY <1>1 DEF RelaysLinked
<1>12. \A p \in Peers : told'[p] = IF p \in first THEN told[p] \cup published' ELSE told[p]
  BY <1>6
<1>13. ToldIsListed' BY <1>1, <1>3, <1>12 DEF ToldIsListed, Up
<1>14. AnnouncedIsTimed'
  <2> SUFFICES ASSUME NEW p \in Peers, link'[p] = "up", NEW u \in told'[p], callback'[u] # None
               PROVE  p \in timer'
    BY DEF AnnouncedIsTimed, Up
  <2>1. u \in Tx BY <1>10 DEF HistoryOK
  <2>2. CASE p \in first BY <1>6, <2>1, <2>2
  <2>3. CASE p \notin first
    <3>1. u \in told[p] BY <1>12, <2>3
    <3>2. u \in published BY <3>1 DEF ToldIsListed
    <3>3. callback[u] # None BY <1>2, <1>5, <2>1, <3>2
    <3>4. p \in timer BY <1>1, <3>1, <3>3 DEF AnnouncedIsTimed, Up
    <3> QED BY <1>6, <3>4
  <2> QED BY <2>2, <2>3
<1>15. CallsInOnePlace'
  <2>1. \A d \in Calls : answered'[d] <= 1 /\ (d \notin made' => answered'[d] = 0)
    BY <1>1 DEF CallsInOnePlace
  <2>2. ASSUME NEW u \in Tx, callback'[u] # None
        PROVE  callback'[u] \in made' /\ answered'[callback'[u]] = 0
    <3>1. CASE callback'[u] = callback[u] BY <1>1, <2>2, <3>1 DEF CallsInOnePlace
    <3>2. CASE callback'[u] = c BY <1>1, <3>2 DEF CallsInOnePlace
    <3> QED BY <1>5, <3>1, <3>2
  <2>3. \A u \in Tx : callback[u] # c BY NoneIsNobody DEF CallsInOnePlace
  <2>4. \A u, v \in Tx : callback'[u] = callback'[v] /\ callback'[u] # None => u = v
    BY <1>5, <2>3 DEF CallsInOnePlace
  <2> QED BY <2>1, <2>2, <2>4 DEF CallsInOnePlace
<1>16. ClaimsAreListed' BY <1>1 DEF ClaimsAreListed
<1>17. Core' BY <1>7, <1>8, <1>9, <1>10, <1>11, <1>13, <1>14, <1>15, <1>16, CoreWhole
<1> QED BY <1>4, <1>17, InvWhole

-----------------------------------------------------------------------------
(* What is removed.                                                         *)

(* The dependents of what is unconfirmed are unconfirmed, and each of them  *)
(* has an input that goes: otherwise the set would do without it.           *)
LEMMA DependentsGoWith ==
  ASSUME NEW S \in SUBSET Unconfirmed, NEW t \in WithDependents(S)
  PROVE  /\ WithDependents(S) \subseteq Unconfirmed
         /\ t \in S \/ Inputs[t] \cap WithDependents(S) # {}
<1> DEFINE W == WithDependents(S)
<1>1. Unconfirmed \subseteq Tx BY DEF Unconfirmed
<1>2. W \subseteq Unconfirmed
  <2>1. S \cup Outward(Unconfirmed) \subseteq Unconfirmed BY DEF Outward
  <2> QED BY <1>1, <2>1 DEF WithDependents
<1>3. ASSUME t \notin S, Inputs[t] \cap W = {}
      PROVE  FALSE
  <2> DEFINE U == W \ {t}
  <2>1. S \subseteq U
    <3>1. S \subseteq W BY <1>1 DEF WithDependents
    <3> QED BY <1>3, <3>1
  <2>2. ASSUME NEW u \in Outward(U)
        PROVE  u \in U
    <3>1. u \in Unconfirmed /\ Inputs[u] \cap W # {} BY <2>2 DEF Outward
    <3>2. u \in Outward(W) BY <3>1 DEF Outward
    <3>3. \A V \in SUBSET Tx : S \cup Outward(V) \subseteq V => u \in V
      <4> SUFFICES ASSUME NEW V \in SUBSET Tx, S \cup Outward(V) \subseteq V PROVE u \in V
        OBVIOUS
      <4>1. W \subseteq V BY DEF WithDependents
      <4>2. u \in Outward(V) BY <3>2, <4>1 DEF Outward
      <4> QED BY <4>2
    <3>4. u \in W BY <1>1, <3>1, <3>3 DEF WithDependents
    <3> QED BY <1>3, <3>1, <3>4
  <2>3. U \in SUBSET Tx /\ S \cup Outward(U) \subseteq U BY <1>1, <1>2, <2>1, <2>2
  <2>4. t \in U BY <2>3 DEF WithDependents
  <2> QED BY <2>4
<1> QED BY <1>2, <1>3

LEMMA RemovalsAreUnclaimed ==
  ASSUME IInv, NEW p \in Peers, Removing(p), NEW t \in Tx,
         wallet[t] = "unconfirmed", wallet'[t] = "removed"
  PROVE  \/ \A q \in Up : t \notin claims[q]
         \/ \E u \in Inputs[t] : wallet[u] # "removed" /\ wallet'[u] = "removed"
<1>1. wallet' = [u \in Tx |-> IF u \in WithDependents(Dropped) THEN "removed" ELSE wallet[u]]
  BY DEF Removing, GetdataDone
<1>2. t \in WithDependents(Dropped) BY <1>1
<1>3. Dropped \subseteq Unconfirmed BY DEF Dropped
<1>4. CASE t \in Dropped
  <2>1. relays[t] = {} /\ requests[t] = {} BY <1>4 DEF Dropped
  <2> QED BY <2>1 DEF IInv, ClaimsAreListed, Up
<1>5. CASE Inputs[t] \cap WithDependents(Dropped) # {}
  <2>1. PICK u \in Inputs[t] : u \in WithDependents(Dropped) BY <1>5
  <2>2. u \in Unconfirmed BY <1>3, <2>1, DependentsGoWith
  <2>3. u \in Tx /\ wallet[u] = "unconfirmed" BY <2>2 DEF Unconfirmed
  <2> QED BY <1>1, <2>1, <2>3
<1> QED BY <1>2, <1>3, <1>4, <1>5, DependentsGoWith

(* Nothing else removes.                                                    *)
LEMMA OthersRemoveNothing ==
  ASSUME IInv, NEW p \in Peers, Talking(p), ~Removing(p), NEW t \in Tx, wallet[t] = "unconfirmed"
  PROVE  wallet'[t] # "removed"
<1>1. wallet \in [Tx -> {"unknown", "unconfirmed", "removed", "confirmed"}]
  BY InvParts DEF Core, ListsOK
<1>2. ASSUME NEW u \in Tx, wallet' \in {wallet, Register(u)}
      PROVE  wallet'[t] # "removed"
  BY <1>1, <1>2 DEF Register
<1>3. CASE \E u \in Tx : p \in Up /\ Word(p, u)
  <2>1. PICK u \in Tx : p \in Up /\ Word(p, u) BY <1>3
  <2>2. wallet' \in {wallet, Register(u)}
    BY <2>1 DEF Word, RelayedTx, HasTx, NotFound, RejectedTx, RequestedTx
  <2> QED BY <1>2, <2>2
<1>4. CASE Quiet \/ Stops \/ Requesting(p)
  <2>1. wallet' = wallet BY <1>4 DEF Quiet, Stops, Requesting, lists
  <2> QED BY <2>1
<1> QED BY <1>3, <1>4, TalkingCases DEF IInv

-----------------------------------------------------------------------------
(* The steps together.                                                      *)

LEMMA InvNext ==
  ASSUME IInv, [Next]_vars
  PROVE  IInv'
<1>1. ASSUME NEW S \in SUBSET Peers, Connect(S) PROVE IInv' BY <1>1, ConnectKeeps
<1>2. ASSUME NEW p \in Peers,
             \/ ConnectBeside(p) \/ ConnectDownload(p) \/ ReplaceDownload(p)
             \/ Lose(p) \/ PeerDisconnected(p)
      PROVE  IInv'
  BY <1>2, ConnectBesideKeeps, ConnectDownloadKeeps, ReplaceDownloadKeeps, LoseKeeps,
     PeerDisconnectedKeeps
<1>3. ASSUME NEW p \in Peers, Answers(p) \/ Drain(p) \/ Speaks(p) PROVE IInv'
  BY <1>3, TalkingKeeps DEF Talking
<1>4. ASSUME ChainComplete PROVE IInv' BY <1>4, ChainCompleteKeeps
<1>5. ASSUME NEW t \in Tx, Confirm(t) PROVE IInv' BY <1>5, ConfirmKeeps
<1>6. ASSUME NEW c \in Calls, NEW t \in Payments, PublishTx(c, t) PROVE IInv'
  BY <1>6, PublishRefusedKeeps, PublishListedKeeps, TxAssumption DEF PublishTx
<1>7. ASSUME UNCHANGED vars PROVE IInv'
  <2> USE InvParts DEF Core
  <2>1. UNCHANGED <<link, download, syncing, behind, links, made, timer, asked, synced, news, published,
                    callback, relays, requests, wallet, answered, told, claims>>
    BY <1>7 DEF vars, peers, talk, lists, history
  <2>2. Core'
    <3>1. syncing' \in BOOLEAN /\ behind' \in BOOLEAN /\ synced' \subseteq Peers /\ news' \in 0..MaxNews
      BY <2>1 DEF FlagsOK, LinksOK
    <3>2. UNCHANGED <<link, download, links, made, timer, lists, history>>
      BY <2>1 DEF lists, history
    <3> QED BY <3>1, <3>2, QuietKeeps
  <2>3. AskedOK' BY <2>1 DEF AskedOK
  <2> QED BY <2>2, <2>3, InvWhole
<1> QED BY <1>1, <1>2, <1>3, <1>4, <1>5, <1>6, <1>7 DEF Next

(* The invariant of the relay, for any peers, transactions and calls.       *)
THEOREM RelayInvariant == Spec => []IInv
BY InvInit, InvNext, PTL DEF Spec

(* The variables have the values the code gives them, and only connected    *)
(* peers are counted as relaying (_BRTxPeerListRemovePeer at a disconnect). *)
THEOREM TypeCorrect == Spec => []TypeOK
<1>1. IInv => TypeOK BY DEF IInv
<1> QED BY <1>1, RelayInvariant, PTL

(* A publisher is called back once at most, whichever peers request, relay, *)
(* announce or time out (publishedTx[].callback).                           *)
THEOREM CalledBackOnce == Spec => []CallbackOnce
<1>1. IInv => CallbackOnce BY DEF IInv, CallsInOnePlace, CallbackOnce
<1> QED BY <1>1, RelayInvariant, PTL

(* A publisher that waits has every peer it was announced to under a        *)
(* timeout (BRPeerScheduleDisconnect).                                      *)
THEOREM WaitsUnderTimeout == Spec => []AnnouncedIsTimed
<1>1. IInv => AnnouncedIsTimed BY DEF IInv
<1> QED BY <1>1, RelayInvariant, PTL

(* A transaction is given up only when no connected peer was asked for it   *)
(* and has not answered, or last said outside a sync that it has it, or     *)
(* with an input (_requestUnrelayedTxGetdataDone).                          *)
THEOREM GivenUpIsUnclaimed == Spec => RemovedIsUnclaimed
<1> DEFINE Unclaimed ==
      \A t \in Tx : wallet[t] = "unconfirmed" /\ wallet'[t] = "removed"
        => \/ \A p \in Up : t \notin claims[p]
           \/ \E u \in Inputs[t] : wallet[u] # "removed" /\ wallet'[u] = "removed"
<1>1. ASSUME IInv, [Next]_vars
      PROVE  [Unclaimed]_vars
  <2> SUFFICES ASSUME Next, NEW t \in Tx, wallet[t] = "unconfirmed", wallet'[t] = "removed"
               PROVE  \/ \A p \in Up : t \notin claims[p]
                      \/ \E u \in Inputs[t] : wallet[u] # "removed" /\ wallet'[u] = "removed"
    BY <1>1
  <2>1. wallet' # wallet OBVIOUS
  <2>2. ASSUME NEW u \in Tx, Confirm(u) PROVE FALSE
    <3>1. wallet' = [wallet EXCEPT ![u] = "confirmed"] BY <2>2 DEF Confirm
    <3> QED BY <1>1, <3>1, InvParts DEF Core, ListsOK
  <2>3. PICK p \in Peers : Talking(p)
    BY <2>1, <2>2 DEF Next, Talking, Connect, ConnectBeside, ConnectDownload, ReplaceDownload, Lose,
                      PeerDisconnected, ChainComplete, PublishTx, PublishRefused, PublishListed, lists
  <2>4. Removing(p) BY <1>1, <2>3, OthersRemoveNothing
  <2> QED BY <1>1, <2>4, RemovalsAreUnclaimed
<1> QED BY <1>1, RelayInvariant, PTL DEF Spec, RemovedIsUnclaimed


-----------------------------------------------------------------------------
(* Numbers and heights.                                                     *)

LEMMA DivMod ==
  ASSUME NEW n \in Nat, NEW i \in Nat \ {0}
  PROVE  n \div i \in Int /\ n = i * (n \div i) + (n % i) /\ n % i \in 0..(i - 1)
OBVIOUS

LEMMA Multiples ==
  ASSUME NEW m \in Nat, NEW n \in Nat, NEW i \in Nat \ {0}, m % i = 0, n % i = 0, m < n
  PROVE m + i <= n
<1> DEFINE p == m \div i
           q == n \div i
<1>1. p \in Int /\ m = i * p BY DivMod
<1>2. q \in Int /\ n = i * q BY DivMod
<1> HIDE DEF p, q
<1>3. p < q BY <1>1, <1>2
<1>4. i * (p + 1) <= i * q BY <1>1, <1>2, <1>3
<1>5. i * (p + 1) = i * p + i BY <1>1, <1>2
<1> QED BY <1>1, <1>2, <1>4, <1>5

LEMMA OneLess ==
  ASSUME NEW n \in Nat, NEW i \in Nat \ {0}, n % i = 0, n >= i
  PROVE  (n - i) % i = 0 /\ n - i \in Nat
<1> DEFINE m == n - i
           p == m \div i
           q == n \div i
           r == m % i
<1>1. m \in Nat OBVIOUS
<1>2. p \in Int /\ m = i * p + r /\ r \in 0..(i - 1)
  <2> HIDE DEF m
  <2> QED BY <1>1, DivMod
<1>3. q \in Int /\ n = i * q BY DivMod
<1>4. m = n - i OBVIOUS
<1> HIDE DEF m, p, q, r
<1>5. i * (q - 1) = i * q - i BY <1>3
<1>6. i * (q - 1) - i * p = i * (q - 1 - p) BY <1>2, <1>3
<1>7. i * (q - 1 - p) = r BY <1>2, <1>3, <1>4, <1>5, <1>6
<1>8. q - 1 - p <= 0 \/ q - 1 - p >= 1 BY <1>2, <1>3
<1>9. q - 1 - p >= 1 => i * (q - 1 - p) >= i BY <1>2, <1>3
<1>10. q - 1 - p <= 0 => i * (q - 1 - p) <= 0 BY <1>2, <1>3
<1>11. r = 0 BY <1>2, <1>7, <1>8, <1>9, <1>10
<1> QED BY <1>1, <1>11 DEF m, r

LEMMA Heights ==
  ASSUME NEW b \in Block
  PROVE  /\ Height[b] \in Nat /\ Interval \in Nat \ {0}
         /\ Prev[b] \in Block \union {NoBlock}
         /\ Prev[b] # NoBlock => Prev[b] \in Block /\ Height[b] = Height[Prev[b]] + 1
         /\ b # NoBlock
BY TreeAssumption

(* Of finitely many blocks one is the highest, and one the lowest.          *)
LEMMA HighestIs ==
  ASSUME NEW S \in SUBSET Block, S # {}
  PROVE  \E x \in S : \A y \in S : Height[y] <= Height[x]
<1> DEFINE Above(x) == {y \in S : Height[y] > Height[x]}
           R == StrictSubsetOrdering(S)
           T == {Above(x) : x \in S}
<1>1. IsFiniteSet(S) BY FS_Subset, TreeAssumption
<1>2. IsWellFoundedOn(R, SUBSET S)
  BY <1>1, FS_StrictSubsetOrderingWellFounded, FS_FiniteSubsetsOfFinite
<1>3. T \subseteq SUBSET S /\ T # {}
  <2>1. \A x \in S : Above(x) \in SUBSET S OBVIOUS
  <2> QED BY <2>1
<1>4. \A u, v \in SUBSET S : u \subseteq v /\ u # v => <<u, v>> \in R BY DEF StrictSubsetOrdering
<1> HIDE DEF R
<1>5. PICK u \in T : \A v \in T : ~ (<<v, u>> \in R)
  <2> HIDE DEF T
  <2> QED BY <1>2, <1>3, WFMin
<1>6. PICK x \in S : u = Above(x) BY <1>5
<1>7. ASSUME NEW y \in S, ~ (Height[y] <= Height[x]) PROVE FALSE
  <2>1. Height[y] \in Nat /\ Height[x] \in Nat /\ \A z \in S : Height[z] \in Nat BY Heights
  <2>2. y \in u /\ y \notin Above(y) BY <1>6, <1>7, <2>1
  <2>3. Above(y) \subseteq u BY <1>6, <1>7, <2>1
  <2>4. <<Above(y), u>> \in R BY <1>3, <1>4, <1>5, <2>2, <2>3
  <2> QED BY <1>5, <2>4
<1> QED BY <1>6, <1>7

LEMMA LowestIs ==
  ASSUME NEW S \in SUBSET Block, S # {}
  PROVE  \E x \in S : \A y \in S : Height[x] <= Height[y]
<1> DEFINE R == {ss \in Nat \X Nat : ss[1] < ss[2]}
           T == {Height[x] : x \in S}
<1>1. IsWellFoundedOn(R, Nat) BY NatLessThanWellFounded DEF OpToRel
<1>2. \A x, y \in Nat : y < x => <<y, x>> \in R OBVIOUS
<1>3. T \subseteq Nat /\ T # {} BY Heights
<1> HIDE DEF R
<1>4. PICK n \in T : \A m \in T : ~ (<<m, n>> \in R)
  <2> HIDE DEF T
  <2> QED BY <1>1, <1>3, WFMin
<1>5. \A m \in T : n <= m
  <2> HIDE DEF T
  <2>1. n \in T /\ n \in Nat /\ \A m \in T : m \in Nat BY <1>3, <1>4
  <2>2. \A m \in T : ~ (m < n) BY <1>2, <1>4, <2>1
  <2> QED BY <2>1, <2>2
<1>6. PICK x \in S : n = Height[x] BY <1>4
<1>7. \A y \in S : Height[y] \in T OBVIOUS
<1> HIDE DEF T
<1> QED BY <1>5, <1>6, <1>7

LEMMA LowestHeight ==
  ASSUME NEW S \in SUBSET Block, S # {}
  PROVE  LET m == Min({Height[x] : x \in S})
         IN  m \in Nat /\ (\E x \in S : Height[x] = m) /\ \A x \in S : m <= Height[x]
<1> DEFINE T == {Height[x] : x \in S}
<1>1. PICK x \in S : \A y \in S : Height[x] <= Height[y] BY LowestIs
<1>2. Height[x] \in T /\ \A n \in T : Height[x] <= n BY <1>1
<1>3. Min(T) \in T /\ \A n \in T : Min(T) <= n BY <1>2 DEF Min
<1> QED BY <1>3, Heights

LEMMA MaxHeightIs == MaxHeight \in Nat /\ \A b \in Block : Height[b] <= MaxHeight
<1> DEFINE T == {Height[b] : b \in Block}
<1>1. Block # {} BY TreeAssumption
<1>2. PICK x \in Block : \A y \in Block : Height[y] <= Height[x] BY <1>1, HighestIs
<1>3. Height[x] \in T /\ \A n \in T : n <= Height[x] BY <1>2
<1>4. T \subseteq Nat BY Heights
<1>5. Max(T) \in T /\ \A n \in T : Max(T) >= n
  <2> HIDE DEF T
  <2>1. \A n \in T : Height[x] >= n BY <1>3, <1>4
  <2> QED BY <1>3, <2>1 DEF Max
<1> QED BY <1>4, <1>5 DEF MaxHeight

LEMMA UnconfirmedIs == TxUnconfirmed \in Nat /\ \A b \in Block : Height[b] # TxUnconfirmed
BY MaxHeightIs, Heights DEF TxUnconfirmed

-----------------------------------------------------------------------------
(* The blocks before a block.                                               *)

LEMMA AncestorsAre ==
  ASSUME NEW b \in Block
  PROVE  /\ b \in Ancestors[b] /\ Ancestors[b] \subseteq Block
         /\ \A x \in Ancestors[b] : Prev[x] # NoBlock => Prev[x] \in Ancestors[b]
BY Heights DEF Ancestors

LEMMA AncestorsLeast ==
  ASSUME NEW b \in Block, NEW S \in SUBSET Block, b \in S,
         \A x \in S : Prev[x] # NoBlock => Prev[x] \in S
  PROVE  Ancestors[b] \subseteq S
BY DEF Ancestors

LEMMA AncestorsTrans ==
  ASSUME NEW b \in Block, NEW x \in Ancestors[b]
  PROVE  Ancestors[x] \subseteq Ancestors[b]
BY AncestorsAre, AncestorsLeast

LEMMA AncestorsUnfold ==
  ASSUME NEW b \in Block
  PROVE  Ancestors[b] = {b} \union (IF Prev[b] = NoBlock THEN {} ELSE Ancestors[Prev[b]])
<1> DEFINE S == {b} \union (IF Prev[b] = NoBlock THEN {} ELSE Ancestors[Prev[b]])
<1>1. S \in SUBSET Block /\ b \in S /\ \A x \in S : Prev[x] # NoBlock => Prev[x] \in S
  BY Heights, AncestorsAre
<1>2. Ancestors[b] \subseteq S
  <2> HIDE DEF S
  <2> QED BY <1>1, AncestorsLeast
<1>3. S \subseteq Ancestors[b]
  <2>1. CASE Prev[b] = NoBlock BY <2>1, AncestorsAre
  <2>2. CASE Prev[b] # NoBlock
    <3>1. Prev[b] \in Ancestors[b] BY <2>2, AncestorsAre
    <3>2. Ancestors[Prev[b]] \subseteq Ancestors[b] BY <3>1, AncestorsTrans
    <3> QED BY <2>2, <3>2, AncestorsAre
  <2> QED BY <2>1, <2>2
<1> QED BY <1>2, <1>3

LEMMA AncestorsLower ==
  ASSUME NEW b \in Block, NEW a \in Ancestors[b]
  PROVE  Height[a] <= Height[b] /\ (Height[a] = Height[b] => a = b) /\ a \in Block
<1> DEFINE S == {x \in Block : x = b \/ Height[x] < Height[b]}
<1>1. b \in S /\ \A x \in S : Prev[x] # NoBlock => Prev[x] \in S BY Heights
<1>2. Ancestors[b] \subseteq S
  <2> HIDE DEF S
  <2> S \in SUBSET Block BY DEF S
  <2> QED BY <1>1, AncestorsLeast
<1> QED BY <1>2, AncestorsAre, Heights

(* Of two blocks before b the lower one is before the higher one.           *)
LEMMA AncestorsChain ==
  ASSUME NEW b \in Block, NEW a \in Ancestors[b], NEW c \in Ancestors[b], Height[a] <= Height[c]
  PROVE  a \in Ancestors[c]
<1> DEFINE S == {x \in Block : c \in Ancestors[x] \/ x \in Ancestors[c]}
<1>0. c \in Block /\ a \in Block BY AncestorsAre
<1>1. b \in S OBVIOUS
<1>2. ASSUME NEW x \in S, Prev[x] # NoBlock PROVE Prev[x] \in S
  <2>1. Prev[x] \in Block BY <1>2, Heights
  <2>2. CASE x \in Ancestors[c] BY <2>1, <2>2, <1>0, <1>2, AncestorsAre
  <2>3. CASE c \in Ancestors[x]
    <3>1. c = x \/ c \in Ancestors[Prev[x]] BY <2>3, <1>2, AncestorsUnfold
    <3>2. c = x => Prev[x] \in Ancestors[c] BY <1>0, <1>2, AncestorsAre
    <3> QED BY <2>1, <3>1, <3>2
  <2> QED BY <2>2, <2>3
<1>3. Ancestors[b] \subseteq S
  <2> HIDE DEF S
  <2> S \in SUBSET Block BY DEF S
  <2> QED BY <1>1, <1>2, AncestorsLeast
<1>4. c \in Ancestors[a] => Height[c] <= Height[a] /\ (Height[c] = Height[a] => c = a)
  BY <1>0, AncestorsLower
<1>5. Height[a] \in Nat /\ Height[c] \in Nat BY <1>0, Heights
<1>6. c \in Ancestors[a] => a = c BY <1>4, <1>5
<1> QED BY <1>0, <1>3, <1>6, AncestorsAre

LEMMA SameHeight ==
  ASSUME NEW b \in Block, NEW a \in Ancestors[b], NEW c \in Ancestors[b], Height[a] = Height[c]
  PROVE  a = c
<1>1. c \in Block /\ Height[c] \in Nat /\ Height[a] \in Nat BY AncestorsAre, Heights
<1>2. a \in Ancestors[c] BY <1>1, AncestorsChain
<1> QED BY <1>1, <1>2, AncestorsLower

(* The chain has a block at every height.                                   *)
LEMMA AncestorAt ==
  ASSUME NEW b \in Block, NEW a \in Ancestors[b], NEW h \in Height[a]..Height[b]
  PROVE  \E x \in Ancestors[b] : Height[x] = h
<1> DEFINE S == {x \in Ancestors[b] : \A k \in Height[x]..Height[b] : \E y \in Ancestors[b] : Height[y] = k}
<1>0. Ancestors[b] \subseteq Block BY AncestorsAre
<1>1. b \in S
  <2>1. Height[b] \in Nat BY Heights
  <2>2. \A k \in Height[b]..Height[b] : k = Height[b] BY <2>1
  <2> QED BY <2>2, AncestorsAre
<1>2. ASSUME NEW x \in S, Prev[x] # NoBlock PROVE Prev[x] \in S
  <2>1. x \in Block /\ Prev[x] \in Ancestors[b] BY <1>0, <1>2, AncestorsAre
  <2>2. Height[x] \in Nat /\ Height[Prev[x]] \in Nat /\ Height[b] \in Nat
        /\ Height[x] = Height[Prev[x]] + 1 BY <1>2, <2>1, Heights
  <2>3. \A k \in Height[Prev[x]]..Height[b] : k = Height[Prev[x]] \/ k \in Height[x]..Height[b] BY <2>2
  <2> QED BY <2>1, <2>3
<1>3. S \in SUBSET Block BY <1>0
<1>4. Ancestors[b] \subseteq S
  <2> HIDE DEF S
  <2> QED BY <1>1, <1>2, <1>3, AncestorsLeast
<1> QED BY <1>4

-----------------------------------------------------------------------------
(* Walks through the blocks that are kept.                                  *)

(* A block is met when all that is above it is there.                       *)
LEMMA WalkMeets ==
  ASSUME NEW bs, NEW b \in Block
  PROVE  Walk(bs, b) = {a \in Ancestors[b] : \A x \in Ancestors[b] \ {b} : Height[a] <= Height[x] => x \in bs}
<1>1. \A x \in Ancestors[b] : Height[x] \in Nat BY AncestorsAre, Heights
<1>2. \A a, x \in Ancestors[b] : Height[a] > Height[x] <=> ~ (Height[a] <= Height[x]) BY <1>1
<1> QED BY <1>2 DEF Walk

LEMMA WalkIs ==
  ASSUME NEW bs \in SUBSET Block, NEW b \in Block
  PROVE  /\ b \in Walk(bs, b) /\ Walk(bs, b) \subseteq Ancestors[b]
         /\ Walk(bs, b) \subseteq Block /\ Walk(bs, b) \ {b} \subseteq bs
<1>1. Walk(bs, b) \subseteq Ancestors[b] BY WalkMeets
<1>2. b \in Walk(bs, b)
  <2>1. \A x \in Ancestors[b] \ {b} : ~ (Height[b] <= Height[x])
    BY AncestorsLower, Heights
  <2> QED BY <2>1, AncestorsAre, WalkMeets
<1>3. ASSUME NEW a \in Walk(bs, b) \ {b} PROVE a \in bs
  <2>1. a \in Block /\ a \in Ancestors[b] \ {b} /\ Height[a] \in Nat BY <1>1, AncestorsAre, Heights
  <2>2. Height[a] <= Height[a] BY <2>1
  <2> QED BY <2>1, <2>2, WalkMeets
<1> QED BY <1>1, <1>2, <1>3, AncestorsAre

(* What lies above a block that was met was met.                            *)
LEMMA WalkAbove ==
  ASSUME NEW bs \in SUBSET Block, NEW b \in Block, NEW a \in Walk(bs, b),
         NEW x \in Ancestors[b], Height[a] <= Height[x]
  PROVE  x \in Walk(bs, b)
<1>1. a \in Block /\ Ancestors[b] \subseteq Block BY WalkIs, AncestorsAre
<1>2. \A y \in Ancestors[b] : Height[y] \in Nat BY <1>1, Heights
<1>3. Height[a] \in Nat BY <1>1, Heights
<1>4. \A y \in Ancestors[b] \ {b} : Height[x] <= Height[y] => y \in bs BY <1>2, <1>3, WalkMeets
<1> QED BY <1>4, WalkMeets

LEMMA WalkGrows ==
  ASSUME NEW bs, NEW cs, bs \subseteq cs, NEW b
  PROVE  Walk(bs, b) \subseteq Walk(cs, b)
BY DEF Walk

(* A walk does not notice what is taken out below it.                       *)
LEMMA WalkStays ==
  ASSUME NEW bs \in SUBSET Block, NEW cs, NEW b \in Block, NEW a \in Walk(bs, b),
         \A x \in Ancestors[b] \ {b} : Height[a] <= Height[x] /\ x \in bs => x \in cs
  PROVE  a \in Walk(cs, b)
BY WalkMeets

(* It goes on while the block before is there.                              *)
LEMMA WalkOn ==
  ASSUME NEW bs \in SUBSET Block, NEW b \in Block, NEW a \in Walk(bs, b), Prev[a] \in bs
  PROVE  Prev[a] \in Walk(bs, b)
<1>1. a \in Block /\ a \in Ancestors[b] /\ Prev[a] \in Block BY WalkIs
<1>2. Prev[a] \in Ancestors[b] /\ Height[a] = Height[Prev[a]] + 1 /\ Height[Prev[a]] \in Nat
  BY <1>1, Heights, AncestorsAre
<1>3. ASSUME NEW x \in Ancestors[b] \ {b}, Height[Prev[a]] <= Height[x] PROVE x \in bs
  <2>1. x \in Block /\ Height[x] \in Nat BY AncestorsAre, Heights
  <2>2. Height[x] = Height[Prev[a]] \/ Height[a] <= Height[x] BY <1>2, <1>3, <2>1
  <2>3. Height[x] = Height[Prev[a]] => x = Prev[a] BY <1>2, SameHeight
  <2> QED BY <2>2, <2>3, WalkMeets
<1> QED BY <1>2, <1>3, WalkMeets

(* The walk from a block that was met is the rest of the walk.              *)
LEMMA WalkFrom ==
  ASSUME NEW bs \in SUBSET Block, NEW b \in Block, NEW c \in Walk(bs, b)
  PROVE  /\ Walk(bs, c) \subseteq Walk(bs, b)
         /\ \A a \in Walk(bs, b) : Height[a] <= Height[c] => a \in Walk(bs, c)
<1>1. c \in Block /\ c \in Ancestors[b] BY WalkIs
<1>2. Ancestors[c] \subseteq Ancestors[b] BY <1>1, AncestorsTrans
<1>3. ASSUME NEW a \in Walk(bs, c) PROVE a \in Walk(bs, b)
  <2>1. a \in Ancestors[c] BY <1>1, WalkIs
  <2>2. ASSUME NEW x \in Ancestors[b] \ {b}, Height[a] <= Height[x] PROVE x \in bs
    <3>1. x \in Block /\ Height[x] \in Nat /\ Height[c] \in Nat BY <1>1, AncestorsAre, Heights
    <3>2. CASE Height[c] <= Height[x] BY <3>2, <2>2, WalkMeets
    <3>3. CASE Height[x] < Height[c]
      <4>1. x \in Ancestors[c] BY <1>1, <3>1, <3>3, AncestorsChain
      <4>2. x # c BY <3>1, <3>3
      <4>3. \A y \in Ancestors[c] \ {c} : Height[a] <= Height[y] => y \in bs BY <1>1, WalkMeets
      <4> QED BY <2>2, <4>1, <4>2, <4>3
    <3> QED BY <3>1, <3>2, <3>3
  <2> QED BY <1>2, <2>1, <2>2, WalkMeets
<1>4. ASSUME NEW a \in Walk(bs, b), Height[a] <= Height[c] PROVE a \in Walk(bs, c)
  <2>1. a \in Ancestors[b] BY WalkIs
  <2>2. a \in Ancestors[c] BY <1>1, <1>4, <2>1, AncestorsChain
  <2>3. ASSUME NEW x \in Ancestors[c] \ {c}, Height[a] <= Height[x] PROVE x \in bs
    <3>1. x \in Ancestors[b] BY <1>2
    <3>2. Height[x] <= Height[c] /\ Height[x] # Height[c] BY <1>1, AncestorsLower
    <3>3. Height[c] <= Height[b] /\ Height[c] \in Nat /\ Height[b] \in Nat /\ Height[x] \in Nat
      BY <1>1, <3>1, AncestorsLower, AncestorsAre, Heights
    <3>4. x # b BY <3>2, <3>3
    <3> QED BY <2>3, <3>1, <3>4, WalkMeets
  <2>4. Walk(bs, c) = {y \in Ancestors[c] : \A x \in Ancestors[c] \ {c} : Height[y] <= Height[x] => x \in bs}
    BY <1>1, WalkMeets
  <2> QED BY <2>2, <2>3, <2>4
<1> QED BY <1>3, <1>4

(* A walk is the block and the walk from the one before, if that is there.  *)
LEMMA WalkUnfold ==
  ASSUME NEW bs \in SUBSET Block, NEW b \in Block
  PROVE  Walk(bs, b) = {b} \union (IF Prev[b] \in bs THEN Walk(bs, Prev[b]) ELSE {})
<1>1. CASE Prev[b] \in bs
  <2>1. Prev[b] \in Walk(bs, b) /\ b \in Walk(bs, b) BY <1>1, WalkIs, WalkOn
  <2>2. Walk(bs, Prev[b]) \subseteq Walk(bs, b) BY <2>1, WalkFrom
  <2>3. ASSUME NEW a \in Walk(bs, b) \ {b} PROVE a \in Walk(bs, Prev[b])
    <3>1. a \in Block /\ a \in Ancestors[b] BY WalkIs
    <3>2. Height[a] <= Height[b] /\ Height[a] # Height[b] BY <3>1, AncestorsLower
    <3>3. Height[b] = Height[Prev[b]] + 1 /\ Height[a] \in Nat /\ Height[Prev[b]] \in Nat
      BY <1>1, <3>1, Heights
    <3>4. Height[a] <= Height[Prev[b]] BY <3>2, <3>3
    <3> QED BY <2>1, <3>4, WalkFrom
  <2> QED BY <1>1, <2>1, <2>2, <2>3
<1>2. CASE Prev[b] \notin bs
  <2>1. ASSUME NEW a \in Walk(bs, b), a # b PROVE FALSE
    <3>1. a \in Ancestors[b] /\ a \in Block BY WalkIs
    <3>2. Prev[b] # NoBlock /\ a \in Ancestors[Prev[b]] BY <2>1, <3>1, AncestorsUnfold
    <3>3. Height[a] <= Height[Prev[b]] /\ Prev[b] \in Ancestors[b] /\ Prev[b] # b
      BY <3>2, AncestorsLower, AncestorsAre, Heights
    <3> QED BY <1>2, <3>3, WalkMeets
  <2> QED BY <1>2, <2>1, WalkIs
<1> QED BY <1>1, <1>2

LEMMA AtHeightIs ==
  ASSUME NEW bs \in SUBSET Block, NEW b \in Block, NEW h
  PROVE  /\ \A a \in Walk(bs, b) : Height[a] = h => AtHeight(bs, b, h) = a
         /\ AtHeight(bs, b, h) # NoBlock =>
              AtHeight(bs, b, h) \in Walk(bs, b) /\ Height[AtHeight(bs, b, h)] = h
<1>1. \A a, c \in Walk(bs, b) : Height[a] = Height[c] => a = c BY WalkIs, SameHeight
<1> QED BY <1>1 DEF AtHeight

(* A walk that gets below a height has a block at it.                       *)
LEMMA WalkAt ==
  ASSUME NEW bs \in SUBSET Block, NEW b \in Block, NEW a \in Walk(bs, b), NEW h \in Height[a]..Height[b]
  PROVE  \E x \in Walk(bs, b) : Height[x] = h
<1>1. PICK x \in Ancestors[b] : Height[x] = h BY WalkIs, AncestorAt
<1> QED BY <1>1, WalkIs, Heights, WalkAbove

(* It ends at a block whose previous one is not there.                      *)
LEMMA WalkEnds ==
  ASSUME NEW bs \in SUBSET Block, NEW b \in Block
  PROVE  \E x \in Walk(bs, b) : Prev[x] \notin bs /\ \A y \in Walk(bs, b) : Height[x] <= Height[y]
<1>1. PICK x \in Walk(bs, b) : \A y \in Walk(bs, b) : Height[x] <= Height[y] BY WalkIs, LowestIs
<1>2. x \in Block BY WalkIs
<1>3. ASSUME Prev[x] \in bs PROVE FALSE
  <2>1. Prev[x] \in Walk(bs, b) BY <1>3, WalkOn
  <2>2. Prev[x] # NoBlock BY <1>3, TreeAssumption
  <2> QED BY <1>1, <1>2, <2>1, <2>2, Heights
<1> QED BY <1>1, <1>3

-----------------------------------------------------------------------------
(* The invariant.                                                           *)
Fitting(x) == \A c \in Checkpoints : Height[c] = Height[x] => c = x

(* Of the checkpoints' heights only the checkpoints get in.                 *)
AllFit ==
  /\ \A x \in blocks : Fitting(x)
  /\ \A s \in saved : Fitting(s[1])
  /\ \A p \in Nodes : \A s \in saving[p] : Fitting(s[1])

(* lastBlock itself is never freed.                                         *)
LastIsKept == lastBlock \in blocks

(* The walk from lastBlock, or from a checkpoint before it, ends at a       *)
(* transition.                                                              *)
EndsRight(bs, c) == \A x \in Walk(bs, c) : Prev[x] \notin bs => IsTransition(x)

Steady == met \intersect {"jump", "ahead", "deep fork"} = {}

Rooted == Steady => \A c \in {lastBlock} \union (Checkpoints \intersect Ancestors[lastBlock]) : EndsRight(blocks, c)

(* While no rescan is under way nothing but checkpoints is higher than      *)
(* lastBlock, and a fork from what is kept of the chain is kept as well.    *)
Calm == met \intersect {"rescan", "ahead", "deep fork"} = {}

NothingHigher == Calm => \A x \in blocks \ Checkpoints : Height[x] <= Height[lastBlock]

ForksAreKept ==
  Calm => \A x \in blocks : Height[x] <= Height[lastBlock] =>
            Ancestors[x] \intersect MainChain \subseteq Walk(blocks, x)

(* What the next start loads with its hashes, if it loads it, and what will *)
(* soon be among that.                                                      *)
Loadable == {a \in Block : <<a, TRUE>> \in saved /\ \A s \in Stored : IsTransition(s) => Height[s] <= Height[a]}
BeingSaved == {a \in Block : \E p \in Nodes : <<a, TRUE>> \in saving[p]}
Hashed == full \union Loadable \union BeingSaved

(* A block that was stored with its hashes has them as long as it is kept.  *)
HashesKept == \A a \in blocks \intersect (Loadable \union BeingSaved) : a \in full \/ TxOf[a] = {}

(* The heights are right on all that the chain goes back to, and will be on *)
(* what a start loads of it.                                                *)
AncestorsConfirmed ==
  MainIsSure => \A b \in Ancestors[lastBlock] \intersect Hashed : \A t \in TxOf[b] : conf[t] = Height[b]

ChainIInv ==
  /\ ChainTypeOK /\ AllFit /\ LastIsKept /\ Rooted /\ NothingHigher /\ ForksAreKept /\ NoFault
  /\ ConfirmedOnMain /\ HashesKept /\ AncestorsConfirmed

-----------------------------------------------------------------------------
(* What the check of a block frees.                                         *)

LEMMA FreedIs ==
  ASSUME blocks \in SUBSET Block, NEW b \in Block, NEW f \in Freed(b)
  PROVE  /\ IsTransition(b) /\ Height[b] >= Interval
         /\ Transition(b) \in Walk(blocks \union {b}, b) /\ Height[Transition(b)] = Height[b] - Interval
         /\ Transition(b) \in Block /\ IsTransition(Transition(b))
         /\ f \in Walk(blocks, Transition(b)) \ {Transition(b)} /\ f \in blocks
         /\ ~ IsTransition(f) /\ Height[f] < Height[b] - Interval
<1> DEFINE T == Transition(b)
<1>1. IsTransition(b) /\ Height[b] >= Interval /\ T # NoBlock /\ f \in Walk(blocks, T) \ {T} /\ ~ IsTransition(f)
  BY DEF Freed
<1>2. blocks \union {b} \in SUBSET Block OBVIOUS
<1>3. T \in Walk(blocks \union {b}, b) /\ Height[T] = Height[b] - Interval
  BY <1>1, <1>2, AtHeightIs DEF Transition
<1>4. T \in Block BY <1>2, <1>3, WalkIs
<1>5. IsTransition(T) BY <1>1, <1>3, Heights, OneLess DEF IsTransition
<1> HIDE DEF T
<1>6. f \in blocks /\ f \in Ancestors[T] BY <1>1, <1>4, WalkIs
<1>7. f \in Block /\ Height[f] <= Height[T] /\ Height[f] # Height[T] BY <1>1, <1>4, <1>6, AncestorsLower
<1>8. Height[f] < Height[T] BY <1>4, <1>7, Heights
<1> QED BY <1>1, <1>3, <1>4, <1>5, <1>6, <1>8 DEF T

LEMMA KeepIs ==
  ASSUME blocks \in SUBSET Block, NEW b \in Block
  PROVE  /\ Keep(b) \in SUBSET Block /\ Keep(b) \subseteq blocks
         /\ \A x \in blocks : Height[x] >= Height[b] - Interval => x \in Keep(b)
         /\ ~ IsTransition(b) => Keep(b) = blocks
         /\ b \notin Freed(b)
         /\ Prev[b] \in blocks => Prev[b] \in Keep(b)
<1>1. \A f \in Freed(b) : IsTransition(b) /\ f \in blocks /\ f \in Block /\ Height[f] < Height[b] - Interval
  BY FreedIs
<1>2. \A x \in blocks : Height[x] \in Nat BY Heights
<1>3. Height[b] \in Nat /\ Interval \in Nat /\ Interval >= 1 BY Heights
<1>4. b \notin Freed(b) BY <1>1, <1>3
<1>5. Prev[b] \in blocks => Height[Prev[b]] >= Height[b] - Interval BY <1>2, <1>3, Heights
<1> QED BY <1>1, <1>2, <1>3, <1>4, <1>5 DEF Keep

(* A walk that stays above the transition before b is not cut.              *)
LEMMA WalkKept ==
  ASSUME blocks \in SUBSET Block, NEW b \in Block, NEW c \in Block, NEW a \in Walk(blocks, c),
         IsTransition(b) => Height[b] - Interval <= Height[a]
  PROVE  a \in Walk(Keep(b), c)
<1>1. a \in Block BY WalkIs
<1>2. ASSUME NEW x \in Ancestors[c] \ {c}, Height[a] <= Height[x], x \in blocks PROVE x \in Keep(b)
  <2>1. Height[x] \in Nat /\ Height[a] \in Nat /\ Height[b] \in Nat /\ Interval \in Nat BY <1>1, <1>2, Heights
  <2>2. CASE IsTransition(b) BY <1>2, <2>1, <2>2, KeepIs
  <2>3. CASE ~ IsTransition(b) BY <1>2, <2>3, KeepIs
  <2> QED BY <2>2, <2>3
<1> QED BY <1>2, WalkStays

(* A fork that is not deep leaves what is kept of the chain.                *)
LEMMA ForkMeets ==
  ASSUME blocks \in SUBSET Block, lastBlock \in Block, NEW b \in Block,
         Prev[b] \in blocks, b \notin MainChain, lastBlock \notin Ancestors[b], ~ Deep(b)
  PROVE  \E a \in Ancestors[b] \intersect MainChain :
           /\ a \in Walk(Keep(b), lastBlock) /\ a # b
           /\ IsTransition(b) => Height[b] - Interval <= Height[a]
<1>1. PICK a \in Ancestors[b] \intersect MainChain :
        \A x \in Ancestors[b] : ~ (IsTransition(x) /\ Height[x] > Height[a] + Interval)
  BY DEF Deep
<1>2. a \in Block /\ Height[a] \in Nat /\ Height[b] \in Nat /\ Interval \in Nat BY AncestorsAre, Heights
<1>3. IsTransition(b) => Height[b] - Interval <= Height[a] BY <1>1, <1>2, AncestorsAre
<1>4. a \in Walk(Keep(b), lastBlock) BY <1>1, <1>3, WalkKept DEF MainChain
<1> QED BY <1>1, <1>3, <1>4

(* If b is of the chain, it is in what is kept of it.                       *)
LEMMA NotBelow ==
  ASSUME blocks \in SUBSET Block, lastBlock \in Block, NEW b \in Block,
         Prev[b] \in blocks, b \in Ancestors[lastBlock], ~ Deep(b)
  PROVE  b \in MainChain /\ b \in Walk(Keep(b), lastBlock)
<1>1. ASSUME b \notin MainChain PROVE FALSE
  <2>1. b # lastBlock BY <1>1, WalkIs DEF MainChain
  <2>2. lastBlock \notin Ancestors[b]
    <3>1. Height[b] <= Height[lastBlock] /\ Height[b] # Height[lastBlock] BY <2>1, AncestorsLower
    <3>2. lastBlock \in Ancestors[b] => Height[lastBlock] <= Height[b] BY AncestorsLower
    <3> QED BY <3>1, <3>2, Heights
  <2>3. PICK a \in Ancestors[b] \intersect MainChain : TRUE BY <1>1, <2>2, ForkMeets
  <2>4. Height[a] <= Height[b] BY AncestorsLower
  <2> QED BY <1>1, <2>3, <2>4, WalkAbove DEF MainChain
<1>2. Height[b] - Interval <= Height[b] BY Heights
<1> QED BY <1>1, <1>2, WalkKept DEF MainChain

(* What is freed lies below a transition of the chain, and cuts it there.   *)
LEMMA CutClean ==
  ASSUME blocks \in SUBSET Block, lastBlock \in Block, NEW b \in Block,
         Prev[b] \in blocks, ~ Deep(b), ~ AheadOfRescan(b), Freed(b) # {}
  PROVE  LET T == Transition(b)
         IN  /\ T \in Ancestors[lastBlock] /\ T \in Block /\ IsTransition(T)
             /\ Height[T] = Height[b] - Interval
             /\ \A a \in Walk(Keep(b), lastBlock) : Height[T] <= Height[a]
<1> DEFINE T == Transition(b)
<1>1. PICK f \in Freed(b) : TRUE OBVIOUS
<1>2. /\ IsTransition(b) /\ T \in Walk(blocks \union {b}, b) /\ Height[T] = Height[b] - Interval
      /\ T \in Block /\ IsTransition(T)
      /\ f \in Walk(blocks, T) \ {T} /\ f \in blocks /\ ~ IsTransition(f)
  BY <1>1, FreedIs
<1> HIDE DEF T
<1>3. Height[T] \in Nat /\ Height[b] \in Nat /\ Height[lastBlock] \in Nat /\ Interval \in Nat \ {0}
  BY <1>2, Heights
<1>4. T \in Ancestors[b]
  <2> blocks \union {b} \in SUBSET Block OBVIOUS
  <2> QED BY <1>2, WalkIs
<1>5. \E a \in Ancestors[b] \intersect MainChain : Height[T] <= Height[a]
  <2>1. CASE b \in MainChain BY <1>2, <1>3, <2>1, AncestorsAre
  <2>2. CASE b \notin MainChain /\ lastBlock \notin Ancestors[b] BY <1>2, <2>2, ForkMeets
  <2>3. CASE b \notin MainChain /\ lastBlock \in Ancestors[b]
    <3>1. Height[b] <= Height[lastBlock] + 1 BY <1>2, <1>3 DEF AheadOfRescan
    <3>2. lastBlock \in MainChain BY WalkIs DEF MainChain
    <3> QED BY <1>2, <1>3, <2>3, <3>1, <3>2
  <2> QED BY <2>1, <2>2, <2>3
<1>6. PICK a \in Ancestors[b] \intersect MainChain : Height[T] <= Height[a] BY <1>5
<1>7. T \in Ancestors[a] BY <1>4, <1>6, AncestorsChain
<1>8. a \in Ancestors[lastBlock] /\ a \in Block BY <1>6, WalkIs DEF MainChain
<1>9. T \in Ancestors[lastBlock] BY <1>7, <1>8, AncestorsTrans
<1>10. Prev[T] \in Freed(b)
  <2>1. f \in Ancestors[T] /\ f # T /\ f \in Block BY <1>2, WalkIs
  <2>2. Prev[T] # NoBlock /\ f \in Ancestors[Prev[T]] BY <1>2, <2>1, AncestorsUnfold
  <2>3. Prev[T] \in Ancestors[T] /\ Prev[T] \in Block /\ Height[T] = Height[Prev[T]] + 1 BY <1>2, <2>2, Heights, AncestorsAre
  <2>4. Height[f] <= Height[Prev[T]] BY <2>2, <2>3, AncestorsLower
  <2>5. Prev[T] \in Walk(blocks, T) BY <1>2, <2>3, <2>4, WalkAbove
  <2>6. Interval # 1
    <3>1. Height[f] \in Nat BY <2>1, Heights
    <3>2. Height[f] % 1 = 0 BY <3>1
    <3> QED BY <1>2, <3>2 DEF IsTransition
  <2>7. ~ IsTransition(Prev[T])
    <3>1. Height[Prev[T]] \in Nat BY <2>3, Heights
    <3>2. Height[Prev[T]] < Height[T] BY <2>3, <3>1
    <3>3. ASSUME IsTransition(Prev[T]) PROVE FALSE
      <4>1. Height[Prev[T]] + Interval <= Height[T] BY <1>2, <1>3, <3>1, <3>2, <3>3, Multiples DEF IsTransition
      <4> QED BY <1>3, <2>3, <2>6, <3>1, <4>1
    <3> QED BY <3>3
  <2>8. Height[b] >= Interval /\ T # NoBlock BY <1>1, <1>2, FreedIs, Heights
  <2> QED BY <1>2, <2>3, <2>5, <2>7, <2>8, Heights DEF Freed, T
<1>11. ASSUME NEW c \in Walk(Keep(b), lastBlock), Height[c] < Height[T] PROVE FALSE
  <2>1. T \in Block /\ Prev[T] \in Block /\ Prev[T] \in Ancestors[lastBlock] /\ Height[T] = Height[Prev[T]] + 1
    <3>1. Prev[T] \in Block BY <1>10, FreedIs
    <3>2. Prev[T] # NoBlock BY <3>1, TreeAssumption
    <3> QED BY <1>2, <1>9, <3>1, <3>2, Heights, AncestorsAre
  <2>2. Height[c] \in Nat /\ Height[Prev[T]] \in Nat BY <2>1, KeepIs, WalkIs, Heights
  <2>3. Prev[T] \in Walk(Keep(b), lastBlock) BY <1>11, <2>1, <2>2, KeepIs, WalkAbove
  <2>4. Height[T] <= Height[lastBlock] BY <1>9, AncestorsLower
  <2>5. Prev[T] # lastBlock BY <1>3, <2>1, <2>2, <2>4
  <2>6. Prev[T] \in Keep(b) BY <2>3, <2>5, KeepIs, WalkIs
  <2> QED BY <1>10, <2>6 DEF Keep
<1>12. \A c \in Walk(Keep(b), lastBlock) : Height[c] \in Nat BY KeepIs, WalkIs, Heights
<1> QED BY <1>2, <1>3, <1>9, <1>11, <1>12 DEF T
-----------------------------------------------------------------------------
(* The handler's branches, by what becomes of the chain.                    *)

Linked(b) == Prev[b] \in blocks /\ lastBlock \notin Freed(b)

Shrinks(b) == blocks' = Keep(b) /\ full' = full \ Freed(b) /\ UNCHANGED <<lastBlock, conf, fault>>

LEMMA HandleIs ==
  ASSUME ChainTypeOK, NEW p \in Nodes, NEW b \in Block, NEW hdr \in BOOLEAN, Handle(p, b, hdr)
  PROVE  \/ UNCHANGED <<chain, fault>> /\ (Ignored(p) \/ Orphan(p, b))
         \/ Prev[b] \in blocks /\ lastBlock \in Freed(b) /\ Fault
         \/ Linked(b) /\ Shrinks(b) /\ (Refused(p, b) \/ DuringRescan(p, b))
         \/ Linked(b) /\ Verified(b) /\ b \in blocks /\ Prev[b] # lastBlock /\ Existing(p, b, hdr)
         \/ /\ Linked(b) /\ Verified(b) /\ b \notin blocks /\ Prev[b] # lastBlock /\ Fork(p, b, hdr)
            /\ Height[b] <= Height[lastBlock]
         \/ Linked(b) /\ Verified(b) /\ Prev[b] = lastBlock /\ Extend(p, b, hdr)
         \/ /\ Linked(b) /\ Verified(b) /\ b \notin blocks /\ Prev[b] # lastBlock /\ Reorganise(p, b, hdr)
            /\ Height[b] > Height[lastBlock]
<1>1. lastBlock \in Block /\ Height[b] \in Nat /\ Height[lastBlock] \in Nat BY Heights DEF ChainTypeOK
<1>2. Ignored(p) => UNCHANGED <<chain, fault>> BY DEF Ignored
<1>3. Orphan(p, b) => UNCHANGED <<chain, fault>> BY DEF Orphan
<1>4. Refused(p, b) => Shrinks(b) BY DEF Refused, Shrinks
<1>5. DuringRescan(p, b) => Shrinks(b) BY DEF DuringRescan, Shrinks
<1>6. ~ (Height[b] <= Height[lastBlock]) => Height[b] > Height[lastBlock] BY <1>1
<1> QED BY <1>2, <1>3, <1>4, <1>5, <1>6 DEF Handle, Linked

LEMMA FinishIs ==
  ASSUME ChainTypeOK, NEW p \in Nodes, NEW b \in Block, NEW os \in SUBSET Block, NEW save,
         Finish(p, b, os, save)
  PROVE  /\ orphans' \subseteq os /\ todo' \in [Nodes -> Block \union {NoBlock}] /\ estimated' \in Nat
         /\ saving' = [saving EXCEPT ![p] = save]
<1> DEFINE next == {o \in os : Prev[o] = b}
<1>1. next # {} => (CHOOSE o \in next : TRUE) \in Block OBVIOUS
<1>2. todo' = [todo EXCEPT ![p] = IF next = {} THEN NoBlock ELSE CHOOSE o \in next : TRUE]
  BY DEF Finish
<1>3. todo' \in [Nodes -> Block \union {NoBlock}]
  <2> HIDE DEF next
  <2> QED BY <1>1, <1>2 DEF ChainTypeOK
<1>4. estimated' \in Nat BY Heights DEF Finish, ChainTypeOK
<1> QED BY <1>3, <1>4 DEF Finish

LEMMA NewLastIs ==
  ASSUME ChainTypeOK, NEW p \in Nodes, NEW b \in Block, NEW bs, NEW fs, NEW save,
         NewLast(p, b, bs, fs, save)
  PROVE  /\ lastBlock' = b /\ lastOrphan' \in Block \union {NoBlock}
         /\ orphans' \subseteq orphans /\ todo' \in [Nodes -> Block \union {NoBlock}] /\ estimated' \in Nat
         /\ \E s \in {SaveOf(bs, fs, b), save} : saving' = [saving EXCEPT ![p] = s]
<1>0. orphans \in SUBSET Block /\ lastOrphan \in Block \union {NoBlock} BY DEF ChainTypeOK
<1>1. CASE Height[b] = estimated
  <2>1. PICK loads \in BOOLEAN :
          /\ Finish(p, b, IF loads THEN {} ELSE orphans, SaveOf(bs, fs, b))
          /\ lastOrphan' = IF loads THEN NoBlock ELSE lastOrphan
    BY <1>1 DEF NewLast
  <2> DEFINE os == IF loads THEN {} ELSE orphans
             s == SaveOf(bs, fs, b)
  <2>2. os \in SUBSET Block /\ os \subseteq orphans BY <1>0
  <2>3. Finish(p, b, os, s) BY <2>1
  <2>4. lastOrphan' \in Block \union {NoBlock} BY <1>0, <2>1
  <2>5. lastBlock' = b BY DEF NewLast
  <2>6. s \in {SaveOf(bs, fs, b), save} OBVIOUS
  <2> HIDE DEF os, s
  <2>7. /\ orphans' \subseteq os /\ todo' \in [Nodes -> Block \union {NoBlock}] /\ estimated' \in Nat
        /\ saving' = [saving EXCEPT ![p] = s]
    BY <2>2, <2>3, FinishIs
  <2> QED BY <2>2, <2>4, <2>5, <2>6, <2>7
<1>2. CASE Height[b] # estimated
  <2>1. Finish(p, b, orphans, save) /\ lastOrphan' = lastOrphan BY <1>2 DEF NewLast
  <2>2. /\ orphans' \subseteq orphans /\ todo' \in [Nodes -> Block \union {NoBlock}] /\ estimated' \in Nat
        /\ saving' = [saving EXCEPT ![p] = save]
    BY <1>0, <2>1, FinishIs
  <2> QED BY <1>0, <2>1, <2>2 DEF NewLast
<1> QED BY <1>1, <1>2

(* What is saved is of the chain.                                           *)
LEMMA SaveOfIs ==
  ASSUME NEW bs \in SUBSET Block, NEW fs, NEW b \in Block
  PROVE  \A s \in SaveOf(bs, fs, b) : s \in Block \X BOOLEAN /\ s[1] \in bs \union {b}
<1>1. \A s \in SaveOf(bs, fs, b) : \E a \in Walk(bs, b) : s = <<a, a \in fs>> BY DEF SaveOf
<1>2. \A a \in Walk(bs, b) : a \in Block /\ a \in bs \union {b} BY WalkIs
<1>3. ASSUME NEW s \in SaveOf(bs, fs, b) PROVE s \in Block \X BOOLEAN /\ s[1] \in bs \union {b}
  <2>1. PICK a \in Walk(bs, b) : s = <<a, a \in fs>> BY <1>1
  <2>2. (a \in fs) \in BOOLEAN OBVIOUS
  <2> QED BY <1>2, <2>1, <2>2
<1> QED BY <1>3

LEMMA FullIs ==
  ASSUME ChainTypeOK, NEW b \in Block, NEW hdr \in BOOLEAN
  PROVE  /\ full \ Freed(b) \subseteq Keep(b)
         /\ FullWith(b, hdr) \subseteq Keep(b) \union {b}
         /\ Keep(b) \union {b} \in SUBSET Block /\ Keep(b) \in SUBSET Block
         /\ b \in blocks => Keep(b) \union {b} = Keep(b)
         /\ lastBlock \in blocks /\ lastBlock \notin Freed(b) => lastBlock \in Keep(b)
<1>1. full \subseteq blocks /\ blocks \in SUBSET Block BY DEF ChainTypeOK
<1> QED BY <1>1, KeepIs DEF Keep, FullWith

LEMMA OneOrphan ==
  ASSUME ChainTypeOK, NEW b \in Block, orphans' \subseteq PutAway(b)
  PROVE  orphans' \subseteq Block /\ \A o, q \in orphans' : Prev[o] = Prev[q] => o = q
BY DEF ChainTypeOK, PutAway

-----------------------------------------------------------------------------
(* The types.                                                               *)

LEMMA ConfType ==
  ASSUME ChainTypeOK, NEW b \in Block
  PROVE  /\ UpdateTransactions(conf, b) \in [WalletTx -> Nat]
         /\ \A bs \in SUBSET Block : \A fs : Reorganised(bs, fs, b) \in [WalletTx -> Nat]
<1>1. conf \in [WalletTx -> Nat] /\ Height[b] \in Nat /\ TxUnconfirmed \in Nat
  BY Heights, UnconfirmedIs DEF ChainTypeOK
<1>2. UpdateTransactions(conf, b) \in [WalletTx -> Nat] BY <1>1 DEF UpdateTransactions
<1>3. ASSUME NEW bs \in SUBSET Block, NEW fs PROVE Reorganised(bs, fs, b) \in [WalletTx -> Nat]
  <2> DEFINE h == Height[Join(bs, b)]
             cf == SetTxUnconfirmedAfter(conf, h)
             new == IF Common(bs, b) = {} THEN {} ELSE {a \in Walk(bs, b) \intersect fs : Height[a] > Height[Join(bs, b)]}
  <2>1. cf \in [WalletTx -> Nat]
    <3> HIDE DEF h
    <3> QED BY <1>1 DEF SetTxUnconfirmedAfter
  <2>2. new \subseteq Block BY <1>3, WalkIs
  <2>3. Reorganised(bs, fs, b) =
          [t \in WalletTx |-> IF \E a \in new : t \in TxOf[a] THEN Height[CHOOSE a \in new : t \in TxOf[a]] ELSE cf[t]]
    BY DEF Reorganised
  <2>4. \A t : (\E a \in new : t \in TxOf[a]) => Height[CHOOSE a \in new : t \in TxOf[a]] \in Nat
    <3> HIDE DEF new
    <3>1. \A t : (\E a \in new : t \in TxOf[a]) => (CHOOSE a \in new : t \in TxOf[a]) \in new OBVIOUS
    <3> QED BY <2>2, <3>1, Heights
  <2> HIDE DEF cf, new
  <2> QED BY <2>1, <2>3, <2>4
<1> QED BY <1>2, <1>3

(* What is put by for saving is of the right type, and fits.                *)
SavesFit(p) ==
  \E save \in SUBSET (Block \X BOOLEAN) :
    /\ \A s \in save : Fitting(s[1])
    /\ saving' = [saving EXCEPT ![p] = save]

LEMMA HandleTyped ==
  ASSUME ChainTypeOK, AllFit, LastIsKept, NEW p \in Nodes, NEW b \in Block, NEW hdr \in BOOLEAN,
         Handle(p, b, hdr)
  PROVE  /\ blocks' \subseteq Block /\ full' \subseteq blocks' /\ lastBlock' \in blocks'
         /\ \A x \in blocks' : Fitting(x)
         /\ conf' \in [WalletTx -> Nat] /\ fault' \in BOOLEAN
         /\ orphans' \subseteq Block /\ \A o, q \in orphans' : Prev[o] = Prev[q] => o = q
         /\ lastOrphan' \in Block \union {NoBlock} /\ estimated' \in Nat
         /\ todo' \in [Nodes -> Block \union {NoBlock}]
         /\ SavesFit(p)
<1> DEFINE Chain == /\ blocks' \subseteq Block /\ full' \subseteq blocks' /\ lastBlock' \in blocks'
                    /\ \A x \in blocks' : Fitting(x)
                    /\ conf' \in [WalletTx -> Nat] /\ fault' \in BOOLEAN
           Orphans == /\ orphans' \subseteq Block /\ \A o, q \in orphans' : Prev[o] = Prev[q] => o = q
                      /\ lastOrphan' \in Block \union {NoBlock} /\ estimated' \in Nat
                      /\ todo' \in [Nodes -> Block \union {NoBlock}]
           Saves == SavesFit(p)
<1>1. /\ blocks \in SUBSET Block /\ full \subseteq blocks /\ lastBlock \in blocks /\ lastBlock \in Block
      /\ conf \in [WalletTx -> Nat] /\ fault \in BOOLEAN
      /\ \A x \in blocks : Fitting(x)
  BY DEF ChainTypeOK, AllFit, LastIsKept
<1>2. /\ orphans \in SUBSET Block /\ \A o, q \in orphans : Prev[o] = Prev[q] => o = q
      /\ lastOrphan \in Block \union {NoBlock} /\ estimated \in Nat
      /\ todo \in [Nodes -> Block \union {NoBlock}]
  BY DEF ChainTypeOK
<1> SUFFICES Chain /\ Orphans /\ Saves OBVIOUS
<1> HIDE DEF Chain, Orphans, Saves
<1>3. saving' = saving => Saves
  <2>1. saving = [saving EXCEPT ![p] = saving[p]] BY DEF ChainTypeOK
  <2>2. saving[p] \in SUBSET (Block \X BOOLEAN) /\ \A s \in saving[p] : Fitting(s[1]) BY DEF ChainTypeOK, AllFit
  <2> QED BY <2>1, <2>2 DEF Saves, SavesFit
<1>4. saving' = [saving EXCEPT ![p] = {}] => Saves BY DEF Saves, SavesFit
<1>5. Taken(p) => todo' \in [Nodes -> Block \union {NoBlock}] /\ estimated' \in Nat /\ Saves
  <2> QED BY <1>2, <1>3 DEF Taken
<1>6. Keep(b) \subseteq blocks BY <1>1, KeepIs
<1>7. PutAway(b) \subseteq Block BY <1>2 DEF PutAway
<1>a. CASE UNCHANGED <<chain, fault>> /\ (Ignored(p) \/ Orphan(p, b))
  <2>1. Chain BY <1>1, <1>a DEF chain, Chain
  <2>2. CASE Ignored(p) BY <1>2, <1>5, <2>1, <2>2 DEF Ignored, Orphans
  <2>3. CASE Orphan(p, b)
    <3>1. orphans' = PutAway(b) /\ lastOrphan' = b /\ Taken(p) BY <2>3 DEF Orphan
    <3>2. orphans' \subseteq Block /\ \A o, q \in orphans' : Prev[o] = Prev[q] => o = q BY <3>1, OneOrphan
    <3> QED BY <1>5, <2>1, <3>1, <3>2 DEF Orphans
  <2> QED BY <1>a, <2>2, <2>3
<1>b. CASE Fault
  <2>1. UNCHANGED <<blocks, full, lastBlock, conf, orphans, lastOrphan, saving, todo, estimated>> /\ fault' \in BOOLEAN
    BY <1>b DEF Fault, chain
  <2>2. Chain BY <1>1, <2>1 DEF Chain
  <2> QED BY <1>2, <1>3, <2>1, <2>2 DEF Orphans
<1>c. CASE Linked(b) /\ Shrinks(b) /\ (Refused(p, b) \/ DuringRescan(p, b))
  <2>1. Chain
    <3>1. full \ Freed(b) \subseteq Keep(b) /\ Keep(b) \in SUBSET Block /\ lastBlock \in Keep(b) BY <1>1, <1>c, FullIs DEF Linked
    <3> QED BY <1>1, <1>6, <1>c, <3>1 DEF Shrinks, Chain
  <2>2. CASE Refused(p, b) BY <1>2, <1>5, <2>1, <2>2 DEF Refused, Orphans
  <2>3. CASE DuringRescan(p, b)
    <3>1. Finish(p, b, PutAway(b), {}) /\ lastOrphan' = b BY <2>3 DEF DuringRescan
    <3>2. /\ orphans' \subseteq PutAway(b) /\ todo' \in [Nodes -> Block \union {NoBlock}] /\ estimated' \in Nat
          /\ saving' = [saving EXCEPT ![p] = {}] BY <1>7, <3>1, FinishIs
    <3>3. orphans' \subseteq Block /\ \A o, q \in orphans' : Prev[o] = Prev[q] => o = q BY <3>2, OneOrphan
    <3> QED BY <1>4, <2>1, <3>1, <3>2, <3>3 DEF Orphans
  <2> QED BY <1>c, <2>2, <2>3
<1>d. CASE Linked(b) /\ b \in blocks /\ Existing(p, b, hdr)
  <2>1. /\ blocks' = Keep(b) /\ full' = FullWith(b, hdr) /\ lastBlock' = lastBlock
        /\ (conf' = conf \/ conf' = UpdateTransactions(conf, b))
        /\ fault' \in BOOLEAN
        /\ lastOrphan' \in {lastOrphan, NoBlock}
        /\ Finish(p, b, orphans, {})
    BY <1>d DEF Existing
  <2>2. Chain
    <3>1. FullWith(b, hdr) \subseteq Keep(b) /\ Keep(b) \in SUBSET Block /\ lastBlock \in Keep(b) BY <1>1, <1>d, FullIs DEF Linked
    <3>2. conf' \in [WalletTx -> Nat] BY <1>1, <2>1, ConfType
    <3> QED BY <1>1, <1>6, <2>1, <3>1, <3>2 DEF Chain
  <2>3. /\ orphans' \subseteq orphans /\ todo' \in [Nodes -> Block \union {NoBlock}] /\ estimated' \in Nat
        /\ saving' = [saving EXCEPT ![p] = {}] BY <1>2, <2>1, FinishIs
  <2> QED BY <1>2, <1>4, <2>1, <2>2, <2>3 DEF Orphans
<1>e. CASE Linked(b) /\ Verified(b) /\ Fork(p, b, hdr)
  <2>1. /\ blocks' = Keep(b) \union {b} /\ full' = FullWith(b, hdr)
        /\ Finish(p, b, orphans, {})
        /\ UNCHANGED <<lastBlock, conf, lastOrphan, fault>>
    BY <1>e DEF Fork
  <2>2. Chain
    <3>1. FullWith(b, hdr) \subseteq Keep(b) \union {b} /\ Keep(b) \union {b} \in SUBSET Block /\ lastBlock \in Keep(b)
      BY <1>1, <1>e, FullIs DEF Linked
    <3>2. Fitting(b) BY <1>e DEF Verified, Fitting
    <3> QED BY <1>1, <1>6, <2>1, <3>1, <3>2 DEF Chain
  <2>3. /\ orphans' \subseteq orphans /\ todo' \in [Nodes -> Block \union {NoBlock}] /\ estimated' \in Nat
        /\ saving' = [saving EXCEPT ![p] = {}] BY <1>2, <2>1, FinishIs
  <2> QED BY <1>2, <1>4, <2>1, <2>2, <2>3 DEF Orphans
<1>f. ASSUME NEW bs, NEW fs, NEW save,
             bs = Keep(b) \union {b}, fs = FullWith(b, hdr), save \in SUBSET (({b} \X BOOLEAN)),
             Linked(b), Verified(b), NewLast(p, b, bs, fs, save), blocks' = bs, full' = fs,
             conf' \in [WalletTx -> Nat], fault' = fault
      PROVE  Chain /\ Orphans /\ Saves
  <2>1. /\ lastBlock' = b /\ lastOrphan' \in Block \union {NoBlock}
        /\ orphans' \subseteq orphans /\ todo' \in [Nodes -> Block \union {NoBlock}] /\ estimated' \in Nat
    BY <1>f, NewLastIs
  <2>2. PICK s \in {SaveOf(bs, fs, b), save} : saving' = [saving EXCEPT ![p] = s] BY <1>f, NewLastIs
  <2>3. fs \subseteq bs /\ bs \in SUBSET Block BY <1>f, FullIs
  <2>4. Fitting(b) BY <1>f DEF Verified, Fitting
  <2>5. Chain BY <1>1, <1>6, <1>f, <2>1, <2>3, <2>4 DEF Chain
  <2>6. \A t \in SaveOf(bs, fs, b) : t \in Block \X BOOLEAN /\ t[1] \in bs
    <3>1. \A t \in SaveOf(bs, fs, b) : t \in Block \X BOOLEAN /\ t[1] \in bs \union {b} BY <2>3, SaveOfIs
    <3> QED BY <1>f, <3>1
  <2>7. \A t \in save : t \in Block \X BOOLEAN /\ t[1] \in bs BY <1>f
  <2>8. s \in SUBSET (Block \X BOOLEAN) /\ \A t \in s : Fitting(t[1])
    <3>1. \A t \in s : t \in Block \X BOOLEAN /\ t[1] \in bs BY <2>2, <2>6, <2>7
    <3>2. \A x \in bs : Fitting(x) BY <1>1, <1>6, <1>f, <2>4
    <3> QED BY <3>1, <3>2
  <2>9. Saves BY <2>2, <2>8 DEF Saves, SavesFit
  <2>10. Orphans BY <1>2, <2>1 DEF Orphans
  <2> QED BY <2>5, <2>9, <2>10
<1>g. CASE Linked(b) /\ Verified(b) /\ Extend(p, b, hdr)
  <2> DEFINE bs == Keep(b) \union {b}
             fs == FullWith(b, hdr)
             save == IF IsTransition(b) THEN {<<b, ~hdr>>} ELSE {}
  <2>1. /\ blocks' = bs /\ full' = fs /\ NewLast(p, b, bs, fs, save) /\ fault' = fault
        /\ (conf' = conf \/ conf' = UpdateTransactions(conf, b))
    BY <1>g DEF Extend
  <2>2. save \in SUBSET ({b} \X BOOLEAN)
    <3> DEFINE v == ~ hdr
    <3>1. v \in BOOLEAN OBVIOUS
    <3>2. save = IF IsTransition(b) THEN {<<b, v>>} ELSE {} OBVIOUS
    <3> HIDE DEF v, save
    <3>3. <<b, v>> \in {b} \X BOOLEAN BY <3>1
    <3> QED BY <3>2, <3>3
  <2>3. conf' \in [WalletTx -> Nat] BY <1>1, <2>1, ConfType
  <2>4. bs = Keep(b) \union {b} /\ fs = FullWith(b, hdr) OBVIOUS
  <2> HIDE DEF bs, fs, save
  <2>5. Chain /\ Orphans /\ Saves BY <1>f, <1>g, <2>1, <2>2, <2>3, <2>4
  <2> QED BY <2>5
<1>h. CASE Linked(b) /\ Verified(b) /\ Reorganise(p, b, hdr)
  <2> DEFINE bs == Keep(b) \union {b}
             fs == FullWith(b, hdr)
  <2>1. CASE Join(bs, b) = NoBlock
    <3>1. Fault BY <1>h, <2>1 DEF Reorganise
    <3> QED BY <1>b, <3>1
  <2>2. CASE Join(bs, b) # NoBlock
    <3>1. /\ blocks' = bs /\ full' = fs /\ NewLast(p, b, bs, fs, {}) /\ fault' = fault
          /\ conf' = Reorganised(bs, fs, b)
      BY <1>h, <2>2 DEF Reorganise
    <3>2. bs \in SUBSET Block BY FullIs
    <3>3. conf' \in [WalletTx -> Nat] BY <3>1, <3>2, ConfType
    <3>4. bs = Keep(b) \union {b} /\ fs = FullWith(b, hdr) OBVIOUS
    <3>5. {} \in SUBSET ({b} \X BOOLEAN) OBVIOUS
    <3> HIDE DEF bs, fs
    <3>6. Chain /\ Orphans /\ Saves BY <1>f, <1>h, <3>1, <3>3, <3>4, <3>5
    <3> QED BY <3>6
  <2> QED BY <2>1, <2>2
<1> QED BY <1>a, <1>b, <1>c, <1>d, <1>e, <1>g, <1>h, HandleIs

LEMMA RelayedTyped ==
  ASSUME ChainTypeOK, AllFit, LastIsKept, NEW p \in Nodes, NEW b \in Block, NEW hdr \in BOOLEAN,
         RelayedBlock(p, b, hdr)
  PROVE  ChainTypeOK' /\ AllFit' /\ LastIsKept'
<1>1. Handle(p, b, hdr) /\ UNCHANGED <<filter, saved, rewound, rewinds>> /\ met' \subseteq met \union {"deep fork", "ahead"}
  BY DEF RelayedBlock
<1>2. /\ blocks' \subseteq Block /\ full' \subseteq blocks' /\ lastBlock' \in blocks'
      /\ \A x \in blocks' : Fitting(x)
      /\ conf' \in [WalletTx -> Nat] /\ fault' \in BOOLEAN
      /\ orphans' \subseteq Block /\ \A o, q \in orphans' : Prev[o] = Prev[q] => o = q
      /\ lastOrphan' \in Block \union {NoBlock} /\ estimated' \in Nat
      /\ todo' \in [Nodes -> Block \union {NoBlock}]
  BY <1>1, HandleTyped
<1>a. SavesFit(p) BY <1>1, HandleTyped
<1>3. PICK save \in SUBSET (Block \X BOOLEAN) :
        /\ \A s \in save : Fitting(s[1])
        /\ saving' = [saving EXCEPT ![p] = save]
  BY <1>a DEF SavesFit
<1>4. saving' \in [Nodes -> SUBSET (Block \X BOOLEAN)]
  <2>1. saving \in [Nodes -> SUBSET (Block \X BOOLEAN)] BY DEF ChainTypeOK
  <2> QED BY <1>3, <2>1
<1>5. ASSUME NEW q \in Nodes, NEW s \in saving'[q] PROVE Fitting(s[1])
  <2>1. saving \in [Nodes -> SUBSET (Block \X BOOLEAN)] BY DEF ChainTypeOK
  <2>2. s \in save \/ s \in saving[q] BY <1>3, <1>5, <2>1
  <2> QED BY <1>3, <1>5, <2>2 DEF AllFit
<1>6. met' \subseteq {"rescan", "jump", "ahead", "deep fork", "deep before", "stale start"}
      /\ filter' \in BOOLEAN /\ saved' \subseteq Block \X BOOLEAN /\ rewound' \subseteq Block /\ rewinds' \in 0..MaxRewinds
  BY <1>1 DEF ChainTypeOK
<1>7. \A s \in saved' : Fitting(s[1]) BY <1>1 DEF AllFit
<1>8. lastBlock' \in Block BY <1>2
<1>9. ChainTypeOK' BY <1>2, <1>4, <1>6, <1>8 DEF ChainTypeOK
<1> QED BY <1>2, <1>5, <1>7, <1>9 DEF AllFit, LastIsKept, Fitting

LEMMA RescanIs ==
  ASSUME ChainTypeOK, LastIsKept, NEW b \in Block, Rescan(b)
  PROVE  /\ b \in blocks /\ (b \in Checkpoints \/ b \in MainChain) /\ lastBlock' = b
         /\ UNCHANGED <<blocks, full, conf, saved, saving, fault>>
         /\ rewound' = rewound \union Ancestors[lastBlock]
         /\ met' = met \union {"rescan"} \union (IF b \in Ancestors[lastBlock] THEN {} ELSE {"jump"})
<1>1. Walk(blocks, lastBlock) \subseteq blocks \union {lastBlock} BY WalkIs DEF ChainTypeOK
<1>2. b \in (Checkpoints \intersect blocks) \union Walk(blocks, lastBlock) BY DEF Rescan, RescanFrom
<1>3. b \in blocks BY <1>1, <1>2 DEF LastIsKept
<1> QED BY <1>2, <1>3 DEF Rescan, MainChain

LEMMA RescanTyped ==
  ASSUME ChainTypeOK, AllFit, LastIsKept, NEW b \in Block, Rescan(b)
  PROVE  ChainTypeOK' /\ AllFit' /\ LastIsKept'
<1>1. b \in blocks /\ lastBlock' = b /\ UNCHANGED <<blocks, full, conf, saved, saving, fault>>
      /\ rewound' = rewound \union Ancestors[lastBlock] BY RescanIs
<1>2. UNCHANGED <<orphans, lastOrphan, estimated, filter, todo>> BY DEF Rescan
<1>3. rewinds' \in 0..MaxRewinds
  <2>1. MaxRewinds \in Nat BY TreeAssumption
  <2>2. rewinds \in 0..MaxRewinds BY DEF ChainTypeOK
  <2>3. rewinds < MaxRewinds /\ rewinds' = rewinds + 1 BY DEF Rescan
  <2> QED BY <2>1, <2>2, <2>3
<1>4. rewound' \subseteq Block BY <1>1, AncestorsAre DEF ChainTypeOK
<1>5. met' \subseteq {"rescan", "jump", "ahead", "deep fork", "deep before", "stale start"}
  BY RescanIs DEF ChainTypeOK
<1>6. ChainTypeOK' BY <1>1, <1>2, <1>3, <1>4, <1>5 DEF ChainTypeOK
<1>7. AllFit' BY <1>1 DEF AllFit, Fitting
<1>8. LastIsKept' BY <1>1 DEF LastIsKept
<1> QED BY <1>6, <1>7, <1>8

(* What BRPeerManagerNew loads: nothing, or a chain on the last transition. *)
LEMMA LoadedIs ==
  ASSUME NEW os \in SUBSET Block, NEW b \in Block,
         \A x, y \in os : Prev[x] = Prev[y] => x = y
  PROVE  LET ld == LoadedFrom(os, b)
         IN  /\ ld \subseteq os \union {b} /\ b \in ld
             /\ \A x \in ld \ {b} : Prev[x] \in ld
             /\ \A x \in ld : b \in Walk(ld, x) /\ Height[b] <= Height[x]
             /\ \A x, y \in ld : Height[x] = Height[y] => x = y
<1> DEFINE W == os \union {b}
           ld == LoadedFrom(os, b)
<1>1. W \in SUBSET Block OBVIOUS
<1>2. ld = {a \in W : b \in Walk(W, a)} BY DEF LoadedFrom
<1> HIDE DEF W, ld
<1>3. b \in ld BY <1>1, <1>2, WalkIs DEF W
<1>4. \A x \in ld : Height[b] <= Height[x] /\ (Height[x] = Height[b] => x = b)
  <2> TAKE x \in ld
  <2>1. x \in Block /\ b \in Ancestors[x] BY <1>1, <1>2, WalkIs
  <2> QED BY <2>1, AncestorsLower
<1>5. ASSUME NEW x \in ld \ {b} PROVE Prev[x] \in ld /\ x \in os /\ Height[x] = Height[Prev[x]] + 1
  <2>1. x \in Block /\ b \in Walk(W, x) /\ x \in W BY <1>1, <1>2
  <2>2. Walk(W, x) = {x} \union (IF Prev[x] \in W THEN Walk(W, Prev[x]) ELSE {}) BY <1>1, <2>1, WalkUnfold
  <2>3. Prev[x] \in W /\ b \in Walk(W, Prev[x]) BY <2>1, <2>2
  <2>4. Prev[x] # NoBlock BY <1>1, <2>3, TreeAssumption
  <2> QED BY <1>2, <2>1, <2>3, <2>4, Heights DEF W
<1>6. ld \subseteq Block BY <1>1, <1>2
<1>7. \A x, y \in ld : Prev[x] = Prev[y] => x = y
  <2> SUFFICES ASSUME NEW x \in ld, NEW y \in ld, Prev[x] = Prev[y] PROVE x = y OBVIOUS
  <2>1. CASE x # b /\ y # b BY <1>5, <2>1
  <2>2. CASE x = b /\ y # b
    <3>1. Height[y] = Height[Prev[y]] + 1 /\ Prev[y] \in ld BY <1>5, <2>2
    <3>2. Prev[b] # NoBlock BY <1>6, <2>2, <3>1, Heights
    <3>3. Height[b] = Height[Prev[b]] + 1 BY <3>2, Heights
    <3> QED BY <1>4, <2>2, <3>1, <3>3
  <2>3. CASE x # b /\ y = b
    <3>1. Height[x] = Height[Prev[x]] + 1 /\ Prev[x] \in ld BY <1>5, <2>3
    <3>2. Prev[b] # NoBlock BY <1>6, <2>3, <3>1, Heights
    <3>3. Height[b] = Height[Prev[b]] + 1 BY <3>2, Heights
    <3> QED BY <1>4, <2>3, <3>1, <3>3
  <2> QED BY <2>1, <2>2, <2>3
<1>8. \A x, y \in ld : Height[x] = Height[y] => x = y
  <2> DEFINE S == {x \in ld : \E y \in ld : Height[x] = Height[y] /\ x # y}
  <2> SUFFICES ASSUME S # {} PROVE FALSE OBVIOUS
  <2>1. S \in SUBSET Block BY <1>6
  <2>2. PICK x \in S : \A y \in S : Height[x] <= Height[y]
    <3> HIDE DEF S
    <3> QED BY <2>1, LowestIs
  <2>3. PICK y \in ld : Height[x] = Height[y] /\ x # y OBVIOUS
  <2>4. x \in ld /\ x # b /\ y # b BY <1>4, <2>3
  <2>5. Prev[x] \in ld /\ Prev[y] \in ld /\ Height[x] = Height[Prev[x]] + 1 /\ Height[y] = Height[Prev[y]] + 1
    BY <1>5, <2>3, <2>4
  <2>6. Height[Prev[x]] \in Nat /\ Height[Prev[y]] \in Nat BY <1>6, <2>5, Heights
  <2> HIDE DEF S
  <2>7. Height[Prev[x]] = Height[Prev[y]] /\ Prev[x] # Prev[y]
    <3>1. Prev[x] # Prev[y] BY <1>7, <2>3, <2>4
    <3>2. Height[Prev[x]] + 1 = Height[Prev[y]] + 1 BY <2>3, <2>5
    <3>3. \A m, n \in Nat : m + 1 = n + 1 => m = n OBVIOUS
    <3> QED BY <2>6, <3>1, <3>2, <3>3
  <2>8. Prev[x] \in S BY <2>5, <2>7 DEF S
  <2> QED BY <2>2, <2>5, <2>6, <2>8
<1>9. ASSUME NEW x \in ld PROVE b \in Walk(ld, x)
  <2>1. x \in Block /\ b \in Walk(W, x) BY <1>1, <1>2
  <2>2. ASSUME NEW y \in Ancestors[x] \ {x}, Height[b] <= Height[y], y \in W PROVE y \in ld
    <3>1. y \in Walk(W, x) BY <1>1, <2>1, <2>2, WalkAbove
    <3>2. b \in Walk(W, y) BY <1>1, <2>1, <2>2, <3>1, WalkFrom
    <3> QED BY <1>2, <2>2, <3>2
  <2> QED BY <1>1, <2>1, <2>2, WalkStays
<1>10. ld \subseteq W BY <1>2
<1> QED BY <1>3, <1>4, <1>5, <1>8, <1>9, <1>10 DEF W, ld

LEMMA RestartIs ==
  ASSUME ChainTypeOK, Restart
  PROVE  \E ld \in SUBSET Stored :
           /\ blocks' = Checkpoints \union ld /\ full' = {a \in ld : <<a, TRUE>> \in saved}
           /\ \/ ld = {} /\ lastBlock' = Start /\ LastTransitions = {}
              \/ \E b \in ld :
                   /\ b \in LastTransitions /\ IsTransition(b) /\ lastBlock' \in ld
                   /\ \A x \in ld \ {b} : Prev[x] \in ld
                   /\ \A x \in ld : b \in Walk(ld, x) /\ Height[b] <= Height[x] /\ Height[x] <= Height[lastBlock']
                   /\ \A x, y \in ld : Height[x] = Height[y] => x = y
           /\ orphans' \subseteq Stored /\ \A x, y \in orphans' : Prev[x] = Prev[y] => x = y
<1>1. PICK os \in SUBSET Stored :
        /\ \A s \in Stored : Cardinality({o \in os : Prev[o] = Prev[s]}) = 1
        /\ \E b \in IF LastTransitions = {} THEN {NoBlock} ELSE LastTransitions :
             LET ld == IF b = NoBlock THEN {} ELSE LoadedFrom(os, b)
                 last == IF b = NoBlock THEN Start
                         ELSE CHOOSE a \in ld : \A c \in ld : Height[c] <= Height[a]
             IN  /\ blocks' = Checkpoints \union ld
                 /\ full' = {a \in ld : <<a, TRUE>> \in saved}
                 /\ orphans' = {o \in os : \A a \in ld : Prev[o] # Prev[a]}
                 /\ lastBlock' = last
  BY DEF Restart
<1>2. Stored \subseteq Block BY DEF Stored, ChainTypeOK
<1>3. \A x, y \in os : Prev[x] = Prev[y] => x = y
  <2> SUFFICES ASSUME NEW x \in os, NEW y \in os, Prev[x] = Prev[y] PROVE x = y OBVIOUS
  <2> DEFINE Same == {o \in os : Prev[o] = Prev[x]}
  <2>1. Cardinality(Same) = 1 /\ x \in Same /\ y \in Same BY <1>1
  <2>2. IsFiniteSet(Same)
    <3>1. Same \subseteq Block BY <1>2
    <3> HIDE DEF Same
    <3> QED BY <3>1, FS_Subset, TreeAssumption
  <2> HIDE DEF Same
  <2>3. \E z : Same = {z} BY <2>1, <2>2, FS_Singleton
  <2> QED BY <2>1, <2>3
<1>4. PICK b \in IF LastTransitions = {} THEN {NoBlock} ELSE LastTransitions :
        LET ld == IF b = NoBlock THEN {} ELSE LoadedFrom(os, b)
            last == IF b = NoBlock THEN Start
                    ELSE CHOOSE a \in ld : \A c \in ld : Height[c] <= Height[a]
        IN  /\ blocks' = Checkpoints \union ld
            /\ full' = {a \in ld : <<a, TRUE>> \in saved}
            /\ orphans' = {o \in os : \A a \in ld : Prev[o] # Prev[a]}
            /\ lastBlock' = last
  BY <1>1
<1>5. orphans' \subseteq Stored /\ \A x, y \in orphans' : Prev[x] = Prev[y] => x = y BY <1>3, <1>4
<1>6. CASE b = NoBlock
  <2>1. /\ blocks' = Checkpoints \union {} /\ full' = {a \in {} : <<a, TRUE>> \in saved} /\ lastBlock' = Start
    BY <1>4, <1>6
  <2>2. {} \in SUBSET Stored OBVIOUS
  <2>3. LastTransitions = {}
    <3>1. LastTransitions \subseteq Block BY <1>2 DEF LastTransitions
    <3> QED BY <1>6, <3>1, TreeAssumption
  <2> QED BY <1>5, <2>1, <2>2, <2>3
<1>7. CASE b # NoBlock
  <2> DEFINE ld == LoadedFrom(os, b)
  <2>0. b \in LastTransitions BY <1>7
  <2>1. b \in Stored /\ IsTransition(b) BY <2>0 DEF LastTransitions
  <2>2. /\ ld \subseteq os \union {b} /\ b \in ld
        /\ \A x \in ld \ {b} : Prev[x] \in ld
        /\ \A x \in ld : b \in Walk(ld, x) /\ Height[b] <= Height[x]
        /\ \A x, y \in ld : Height[x] = Height[y] => x = y
    BY <1>2, <1>3, <2>1, LoadedIs
  <2>3. /\ blocks' = Checkpoints \union ld /\ full' = {a \in ld : <<a, TRUE>> \in saved}
        /\ lastBlock' = CHOOSE a \in ld : \A c \in ld : Height[c] <= Height[a]
    BY <1>4, <1>7
  <2> HIDE DEF ld
  <2>4. ld \in SUBSET Stored BY <2>1, <2>2
  <2>5. \E a \in ld : \A c \in ld : Height[c] <= Height[a] BY <1>2, <2>2, <2>4, HighestIs
  <2>6. lastBlock' \in ld /\ \A c \in ld : Height[c] <= Height[lastBlock'] BY <2>3, <2>5
  <2> QED BY <1>5, <2>0, <2>1, <2>2, <2>3, <2>4, <2>6
<1> QED BY <1>6, <1>7

LEMMA RestartTyped ==
  ASSUME ChainTypeOK, AllFit, LastIsKept, Restart
  PROVE  ChainTypeOK' /\ AllFit' /\ LastIsKept'
<1>1. PICK ld \in SUBSET Stored :
        /\ blocks' = Checkpoints \union ld /\ full' = {a \in ld : <<a, TRUE>> \in saved}
        /\ \/ ld = {} /\ lastBlock' = Start
           \/ \E b \in ld :
                /\ IsTransition(b) /\ lastBlock' \in ld
                /\ \A x \in ld \ {b} : Prev[x] \in ld
                /\ \A x \in ld : b \in Walk(ld, x) /\ Height[b] <= Height[x] /\ Height[x] <= Height[lastBlock']
                /\ \A x, y \in ld : Height[x] = Height[y] => x = y
        /\ orphans' \subseteq Stored /\ \A x, y \in orphans' : Prev[x] = Prev[y] => x = y
  BY RestartIs
<1>2. Start \in Checkpoints /\ Checkpoints \subseteq Block /\ \A x \in Checkpoints : Fitting(x)
  BY TreeAssumption DEF Fitting
<1>3. Stored \subseteq Block /\ \A x \in Stored : Fitting(x) BY DEF Stored, ChainTypeOK, AllFit
<1>4. /\ UNCHANGED <<conf, saved>> /\ lastOrphan' = NoBlock /\ estimated' = 0 /\ filter' = FALSE /\ fault' = FALSE
      /\ saving' = [p \in Nodes |-> {}] /\ todo' = [p \in Nodes |-> NoBlock]
      /\ rewound' = rewound \union Ancestors[lastBlock]
      /\ met' \subseteq {"stale start", "deep before"}
  BY DEF Restart
<1>5. /\ blocks' \subseteq Block /\ full' \subseteq blocks' /\ lastBlock' \in blocks'
      /\ \A x \in blocks' : Fitting(x)
      /\ orphans' \subseteq Block /\ \A x, y \in orphans' : Prev[x] = Prev[y] => x = y
  <2>1. lastBlock' \in Checkpoints \union ld BY <1>1, <1>2
  <2>2. blocks' = Checkpoints \union ld /\ full' \subseteq ld /\ orphans' \subseteq Stored
        /\ \A x, y \in orphans' : Prev[x] = Prev[y] => x = y
    BY <1>1
  <2>3. ld \subseteq Stored OBVIOUS
  <2>4. blocks' \subseteq Block /\ full' \subseteq blocks' /\ lastBlock' \in blocks' BY <1>2, <1>3, <2>1, <2>2, <2>3
  <2>5. \A x \in blocks' : Fitting(x) BY <1>2, <1>3, <2>2, <2>3
  <2>6. orphans' \subseteq Block BY <1>3, <2>2
  <2> QED BY <2>2, <2>4, <2>5, <2>6
<1>6. rewinds' \in 0..MaxRewinds
  <2>1. MaxRewinds \in Nat BY TreeAssumption
  <2>2. rewinds \in 0..MaxRewinds BY DEF ChainTypeOK
  <2>3. rewinds < MaxRewinds /\ rewinds' = rewinds + 1 BY DEF Restart
  <2> QED BY <2>1, <2>2, <2>3
<1>7. rewound' \subseteq Block BY <1>4, AncestorsAre DEF ChainTypeOK
<1>8. saving' \in [Nodes -> SUBSET (Block \X BOOLEAN)] /\ \A p \in Nodes : saving'[p] = {} BY <1>4
<1>9. conf' \in [WalletTx -> Nat] /\ saved' \subseteq Block \X BOOLEAN /\ todo' \in [Nodes -> Block \union {NoBlock}]
      /\ met' \subseteq {"rescan", "jump", "ahead", "deep fork", "deep before", "stale start"}
  BY <1>4 DEF ChainTypeOK
<1>10. ChainTypeOK' BY <1>4, <1>5, <1>6, <1>7, <1>8, <1>9 DEF ChainTypeOK
<1>11. AllFit' BY <1>4, <1>5, <1>8 DEF AllFit, Fitting
<1>12. LastIsKept' BY <1>5 DEF LastIsKept
<1> QED BY <1>10, <1>11, <1>12

LEMMA SaveTyped ==
  ASSUME ChainTypeOK, AllFit, LastIsKept, NEW p \in Nodes, SaveBlocks(p)
  PROVE  ChainTypeOK' /\ AllFit' /\ LastIsKept'
<1>1. /\ saved' = saving[p] \/ saved' = saved \union saving[p]
      /\ saving' = [saving EXCEPT ![p] = {}]
      /\ UNCHANGED <<blocks, full, lastBlock, conf, orphans, lastOrphan, estimated, filter, todo, rewinds, rewound, met, fault>>
  BY DEF SaveBlocks, chain
<1>2. saving[p] \in SUBSET (Block \X BOOLEAN) /\ \A s \in saving[p] : Fitting(s[1]) BY DEF ChainTypeOK, AllFit
<1>3. saved' \subseteq Block \X BOOLEAN /\ \A s \in saved' : Fitting(s[1]) BY <1>1, <1>2 DEF ChainTypeOK, AllFit
<1>4. saving' \in [Nodes -> SUBSET (Block \X BOOLEAN)] /\ \A q \in Nodes : saving'[q] \subseteq saving[q]
  <2>1. saving \in [Nodes -> SUBSET (Block \X BOOLEAN)] BY DEF ChainTypeOK
  <2> QED BY <1>1, <2>1
<1>5. ChainTypeOK' BY <1>1, <1>3, <1>4 DEF ChainTypeOK
<1>6. AllFit' BY <1>1, <1>3, <1>4 DEF AllFit, Fitting
<1> QED BY <1>1, <1>5, <1>6 DEF LastIsKept

(* The filter's actions touch nothing but orphans and the estimate.         *)
FilterStep == FilterDropped \/ FilterLoaded \/ \E p \in Nodes : SelectDownloadPeer(p)

LEMMA FilterIs ==
  ASSUME ChainTypeOK, FilterStep
  PROVE  /\ UNCHANGED <<blocks, full, lastBlock, conf, saved, saving, todo, rewinds, rewound, met, fault>>
         /\ orphans' \in {orphans, {}} /\ lastOrphan' \in {lastOrphan, NoBlock}
         /\ estimated' \in Nat /\ filter' \in BOOLEAN
<1>1. estimated \in Nat /\ \A p \in Nodes : PeerLast[p] \in Nat BY TreeAssumption DEF ChainTypeOK
<1> QED BY <1>1 DEF FilterStep, FilterDropped, FilterLoaded, SelectDownloadPeer, LoadBloomFilter, chain

LEMMA FilterTyped ==
  ASSUME ChainTypeOK, AllFit, LastIsKept, FilterStep
  PROVE  ChainTypeOK' /\ AllFit' /\ LastIsKept'
<1>1. ChainTypeOK' BY FilterIs DEF ChainTypeOK
<1>2. AllFit' BY FilterIs DEF AllFit, Fitting
<1> QED BY <1>1, <1>2, FilterIs DEF LastIsKept

(* The steps.                                                               *)
LEMMA StepIs ==
  ASSUME ChainTypeOK, ChainNext
  PROVE  \/ /\ ~ fault
            /\ \/ \E p \in Nodes, b \in Block, hdr \in BOOLEAN : RelayedBlock(p, b, hdr)
               \/ \E p \in Nodes : SaveBlocks(p)
               \/ FilterStep
               \/ \E b \in Block : Rescan(b)
         \/ Restart
<1>1. \A p \in Nodes : todo[p] # NoBlock => todo[p] \in Block BY DEF ChainTypeOK
<1>2. \A p \in Nodes : NextBlock(p) => \E b \in Block, hdr \in BOOLEAN : RelayedBlock(p, b, hdr)
  BY <1>1 DEF NextBlock
<1>3. \A p \in Nodes, b \in Block, hdr \in BOOLEAN : Receive(p, b, hdr) => RelayedBlock(p, b, hdr)
  BY DEF Receive
<1> QED BY <1>2, <1>3 DEF ChainNext, FilterStep

LEMMA TypedNext ==
  ASSUME ChainTypeOK, AllFit, LastIsKept, ChainNext
  PROVE  ChainTypeOK' /\ AllFit' /\ LastIsKept'
BY StepIs, RelayedTyped, SaveTyped, FilterTyped, RescanTyped, RestartTyped

-----------------------------------------------------------------------------
(* The walk from lastBlock ends at a transition.                            *)

LEMMA EndsVia ==
  ASSUME NEW bs \in SUBSET Block, NEW c \in Block, NEW a \in Walk(bs, c), EndsRight(bs, a)
  PROVE  EndsRight(bs, c)
<1> SUFFICES ASSUME NEW x \in Walk(bs, c), Prev[x] \notin bs PROVE IsTransition(x) BY DEF EndsRight
<1>1. a \in Block /\ x \in Block /\ a \in Ancestors[c] /\ x \in Ancestors[c] /\ Height[a] \in Nat /\ Height[x] \in Nat
  BY WalkIs, Heights
<1>2. CASE Height[x] <= Height[a]
  <2>1. x \in Walk(bs, a) BY <1>2, WalkFrom
  <2> QED BY <2>1 DEF EndsRight
<1>3. CASE Height[a] < Height[x]
  <2>1. a \in Ancestors[x] /\ a # x BY <1>1, <1>3, AncestorsChain
  <2>2. Prev[x] # NoBlock BY <1>1, <2>1, AncestorsUnfold
  <2>3. Prev[x] \in Ancestors[c] /\ Height[x] = Height[Prev[x]] + 1 /\ Height[Prev[x]] \in Nat
    BY <1>1, <2>2, AncestorsAre, Heights
  <2>4. Prev[x] \in Walk(bs, c) BY <1>1, <1>3, <2>3, WalkAbove
  <2>5. Height[x] <= Height[c] BY <1>1, AncestorsLower
  <2>6. Prev[x] # c BY <1>1, <2>3, <2>5
  <2> QED BY <2>4, <2>6, WalkIs
<1> QED BY <1>1, <1>2, <1>3

LEMMA EndsBelow ==
  ASSUME NEW bs \in SUBSET Block, NEW c \in Block, NEW a \in Walk(bs, c), EndsRight(bs, c)
  PROVE  EndsRight(bs, a)
BY WalkFrom DEF EndsRight

LEMMA EndsGrown ==
  ASSUME NEW bs \in SUBSET Block, NEW c \in Block, NEW b \in Block,
         b \notin Ancestors[c] \/ b = c, EndsRight(bs, c)
  PROVE  EndsRight(bs \union {b}, c)
<1>1. Walk(bs \union {b}, c) \subseteq Walk(bs, c) BY DEF Walk
<1> QED BY <1>1 DEF EndsRight

LEMMA EndsKept ==
  ASSUME blocks \in SUBSET Block, lastBlock \in Block, NEW b \in Block,
         Prev[b] \in blocks, ~ Deep(b), ~ AheadOfRescan(b),
         NEW c \in Ancestors[lastBlock], c \notin Freed(b), EndsRight(blocks, c)
  PROVE  EndsRight(Keep(b), c)
<1> SUFFICES ASSUME NEW x \in Walk(Keep(b), c), Prev[x] \notin Keep(b) PROVE IsTransition(x) BY DEF EndsRight
<1>0. c \in Block /\ Keep(b) \in SUBSET Block /\ Keep(b) \subseteq blocks BY AncestorsAre, KeepIs
<1>1. x \in Block /\ x \in Ancestors[c] /\ (x = c \/ x \in Keep(b)) BY <1>0, WalkIs
<1>2. x \in Walk(blocks, c) BY <1>0, WalkGrows
<1>3. CASE Prev[x] \notin blocks BY <1>2, <1>3 DEF EndsRight
<1>4. CASE Prev[x] \in blocks
  <2> DEFINE T == Transition(b)
  <2>1. Prev[x] \in Freed(b) BY <1>4 DEF Keep
  <2>2. Prev[x] \in Walk(blocks, T) \ {T} /\ T \in Block /\ T # NoBlock /\ IsTransition(b) /\ Height[b] >= Interval
        /\ IsTransition(T)
    BY <2>1, FreedIs, Heights
  <2>3. T \in Ancestors[lastBlock] BY <2>1, CutClean
  <2>4. Freed(b) = {a \in Walk(blocks, T) \ {T} : ~ IsTransition(a)} BY <2>2 DEF Freed
  <2> HIDE DEF T
  <2>5. x \in Ancestors[lastBlock] BY <1>1, AncestorsTrans
  <2>6. Prev[x] \in Ancestors[T] /\ Prev[x] \in Block BY <2>2, WalkIs
  <2>7. Height[Prev[x]] <= Height[T] /\ Height[Prev[x]] # Height[T] BY <2>2, <2>6, AncestorsLower
  <2>8. Prev[x] # NoBlock BY <2>6, TreeAssumption
  <2>9. Height[x] = Height[Prev[x]] + 1 /\ Height[Prev[x]] \in Nat /\ Height[T] \in Nat BY <1>1, <2>2, <2>6, <2>8, Heights
  <2>10. Height[x] <= Height[T] /\ Height[Prev[x]] <= Height[x] BY <2>7, <2>9
  <2>11. x \in Ancestors[T] BY <2>3, <2>5, <2>10, AncestorsChain
  <2>12. x \in Walk(blocks, T) BY <2>2, <2>10, <2>11, WalkAbove
  <2> QED BY <1>1, <2>2, <2>4, <2>12 DEF Keep
<1> QED BY <1>3, <1>4

(* A new block is not before lastBlock.                                     *)
LEMMA NotBefore ==
  ASSUME blocks \in SUBSET Block, lastBlock \in blocks, NEW b \in Block,
         Prev[b] \in blocks, ~ Deep(b), b \notin blocks \/ Prev[b] = lastBlock
  PROVE  b \notin Ancestors[lastBlock]
<1> SUFFICES ASSUME b \in Ancestors[lastBlock] PROVE FALSE OBVIOUS
<1>1. CASE b \notin blocks
  <2>1. b \in MainChain BY NotBelow
  <2> QED BY <1>1, <2>1, WalkIs DEF MainChain
<1>2. CASE Prev[b] = lastBlock
  <2>1. Height[b] <= Height[lastBlock] BY AncestorsLower
  <2>2. Prev[b] # NoBlock BY <1>2, TreeAssumption
  <2>3. Height[b] = Height[lastBlock] + 1 /\ Height[lastBlock] \in Nat BY <1>2, <2>2, Heights
  <2> QED BY <2>1, <2>3
<1> QED BY <1>1, <1>2

(* The chain that a higher fork is on leaves what is kept of the chain.     *)
LEMMA HigherFork ==
  ASSUME blocks \in SUBSET Block, lastBlock \in blocks, NEW b \in Block,
         Prev[b] \in blocks, Prev[b] # lastBlock, b \notin blocks, Height[b] > Height[lastBlock],
         ~ Deep(b), ~ AheadOfRescan(b)
  PROVE  /\ Height[b] = Height[lastBlock] + 1
         /\ \E a \in Ancestors[b] \intersect MainChain :
              /\ a \in Walk(Keep(b), lastBlock) /\ a # b
              /\ IsTransition(b) => Height[b] - Interval <= Height[a]
<1>1. Height[b] \in Nat /\ Height[lastBlock] \in Nat BY Heights
<1>2. Height[b] = Height[lastBlock] + 1 BY <1>1 DEF AheadOfRescan
<1>3. b \notin MainChain
  <2>1. b \in MainChain => b \in Ancestors[lastBlock] BY WalkIs DEF MainChain
  <2>2. b \in Ancestors[lastBlock] => Height[b] <= Height[lastBlock] BY AncestorsLower
  <2> QED BY <1>1, <1>2, <2>1, <2>2
<1>4. lastBlock \notin Ancestors[b]
  <2>1. Prev[b] # NoBlock /\ Prev[b] \in Ancestors[b] /\ Height[b] = Height[Prev[b]] + 1 /\ Height[Prev[b]] \in Nat
    BY TreeAssumption, AncestorsAre, Heights
  <2>2. Height[Prev[b]] = Height[lastBlock] BY <1>1, <1>2, <2>1
  <2> QED BY <2>1, <2>2, SameHeight
<1> QED BY <1>2, <1>3, <1>4, ForkMeets

(* The walks that look for the join meet, unless one of them ends early.    *)
LEMMA JoinCommon ==
  ASSUME blocks \in SUBSET Block, lastBlock \in blocks, NEW b \in Block,
         Prev[b] \in blocks, b \notin blocks, Height[b] > Height[lastBlock],
         ~ Deep(b), Join(Keep(b) \union {b}, b) # NoBlock
  PROVE  Common(Keep(b) \union {b}, b) # {}
<1> DEFINE bs == Keep(b) \union {b}
           low == Min({Height[a] : a \in Walk(bs, lastBlock)})
<1> SUFFICES ASSUME Common(bs, b) = {} PROVE FALSE OBVIOUS
<1>1. bs \in SUBSET Block /\ Keep(b) \in SUBSET Block /\ Keep(b) \subseteq bs BY KeepIs
<1>2. PICK a \in Ancestors[b] : a \in Walk(Keep(b), lastBlock)
  <2>1. b \notin MainChain
    <3>1. b \in MainChain => b \in Ancestors[lastBlock] BY WalkIs DEF MainChain
    <3>2. b \in Ancestors[lastBlock] => Height[b] <= Height[lastBlock] BY AncestorsLower
    <3> QED BY <3>1, <3>2, Heights
  <2>2. CASE lastBlock \in Ancestors[b] BY <1>1, <2>2, WalkIs
  <2>3. CASE lastBlock \notin Ancestors[b] BY <2>1, <2>3, ForkMeets
  <2> QED BY <2>2, <2>3
<1>3. AtHeight(bs, b, low - 1) # NoBlock BY DEF Join
<1> HIDE DEF bs
<1>4. Walk(bs, lastBlock) \in SUBSET Block /\ lastBlock \in Walk(bs, lastBlock) BY <1>1, WalkIs
<1>5. low \in Nat /\ \A x \in Walk(bs, lastBlock) : low <= Height[x] BY <1>4, LowestHeight
<1> HIDE DEF low
<1> DEFINE y == AtHeight(bs, b, low - 1)
<1>6. y \in Walk(bs, b) /\ Height[y] = low - 1 BY <1>1, <1>3, AtHeightIs
<1> HIDE DEF y
<1>7. a \in Walk(bs, lastBlock) BY <1>1, <1>2, WalkGrows
<1>8. Height[y] <= Height[a]
  <2>1. low <= Height[a] /\ Height[a] \in Nat BY <1>4, <1>5, <1>7, Heights
  <2> QED BY <1>5, <1>6, <2>1
<1>9. a \in Walk(bs, b) BY <1>1, <1>2, <1>6, <1>8, WalkAbove
<1> QED BY <1>7, <1>9 DEF Common

LEMMA MetIs ==
  ASSUME NEW p, NEW b, NEW hdr, RelayedBlock(p, b, hdr)
  PROVE  /\ met \subseteq met'
         /\ "deep fork" \notin met' => ~ Deep(b)
         /\ "ahead" \notin met' => ~ AheadOfRescan(b)
BY DEF RelayedBlock

LEMMA NotFreed ==
  ASSUME blocks \in SUBSET Block, NEW b \in Block, NEW c \in Checkpoints
  PROVE  c \notin Freed(b) /\ IsTransition(c) /\ c \in Block
BY FreedIs, TreeAssumption DEF IsTransition

(* What the walk from the new lastBlock ends at, when b extends the chain   *)
(* or a fork that meets it.                                                 *)
LEMMA RootedOnward ==
  ASSUME NEW bs \in SUBSET Block, NEW l \in Block, NEW b \in Block, NEW j \in Walk(bs, b), j \in Ancestors[l],
         EndsRight(bs, j), \A c \in Checkpoints \intersect Ancestors[l] : EndsRight(bs, c)
  PROVE  \A c \in {b} \union (Checkpoints \intersect Ancestors[b]) : EndsRight(bs, c)
<1>1. EndsRight(bs, b) BY EndsVia
<1>2. ASSUME NEW c \in Checkpoints \intersect Ancestors[b] PROVE EndsRight(bs, c)
  <2>1. c \in Block /\ j \in Block /\ j \in Ancestors[b] /\ Height[c] \in Nat /\ Height[j] \in Nat
    BY AncestorsAre, WalkIs, Heights
  <2>2. CASE Height[c] <= Height[j]
    <3>1. c \in Ancestors[j] BY <2>1, <2>2, AncestorsChain
    <3>2. c \in Ancestors[l] BY <3>1, AncestorsTrans
    <3> QED BY <3>2
  <2>3. CASE Height[j] <= Height[c]
    <3>1. c \in Walk(bs, b) BY <2>3, WalkAbove
    <3> QED BY <1>1, <3>1, EndsBelow
  <2> QED BY <2>1, <2>2, <2>3
<1> QED BY <1>1, <1>2

LEMMA RootedRelayed ==
  ASSUME ChainTypeOK, LastIsKept, Rooted, NEW p \in Nodes, NEW b \in Block, NEW hdr \in BOOLEAN,
         RelayedBlock(p, b, hdr)
  PROVE  Rooted'
<1> SUFFICES ASSUME Steady' PROVE \A c \in {lastBlock'} \union (Checkpoints \intersect Ancestors[lastBlock']) : EndsRight(blocks', c)
  BY DEF Rooted, EndsRight
<1>1. blocks \in SUBSET Block /\ lastBlock \in blocks /\ lastBlock \in Block BY DEF ChainTypeOK, LastIsKept
<1>2. met \subseteq met' /\ ("deep fork" \notin met' => ~ Deep(b)) /\ ("ahead" \notin met' => ~ AheadOfRescan(b)) BY MetIs
<1>3. ~ Deep(b) /\ ~ AheadOfRescan(b) /\ Steady BY <1>2 DEF Steady
<1>4. \A c \in {lastBlock} \union (Checkpoints \intersect Ancestors[lastBlock]) :
        c \in Ancestors[lastBlock] /\ c \in Block /\ EndsRight(blocks, c)
  BY <1>1, <1>3, AncestorsAre DEF Rooted
<1>5. ASSUME Linked(b), NEW c \in {lastBlock} \union (Checkpoints \intersect Ancestors[lastBlock])
      PROVE  EndsRight(Keep(b), c)
  <2>1. c \notin Freed(b) BY <1>1, <1>5, NotFreed DEF Linked
  <2> QED BY <1>1, <1>3, <1>4, <1>5, <2>1, EndsKept DEF Linked
<1>6. ASSUME Linked(b), b \notin blocks \/ Prev[b] = lastBlock,
             NEW c \in {lastBlock} \union (Checkpoints \intersect Ancestors[lastBlock])
      PROVE  EndsRight(Keep(b) \union {b}, c)
  <2>1. b \notin Ancestors[lastBlock] BY <1>1, <1>3, <1>6, NotBefore DEF Linked
  <2>2. b \notin Ancestors[c] BY <1>4, <2>1, AncestorsTrans
  <2>3. EndsRight(Keep(b), c) BY <1>5, <1>6
  <2>4. Keep(b) \in SUBSET Block BY <1>1, KeepIs
  <2> QED BY <1>4, <2>2, <2>3, <2>4, EndsGrown
<1>7. Keep(b) \union {b} \in SUBSET Block BY <1>1, KeepIs
<1>a. CASE UNCHANGED <<blocks, lastBlock>> BY <1>4, <1>a
<1>b. CASE Linked(b) /\ blocks' = Keep(b) /\ lastBlock' = lastBlock BY <1>5, <1>b
<1>c. CASE Linked(b) /\ Fork(p, b, hdr) /\ b \notin blocks
  <2>1. blocks' = Keep(b) \union {b} /\ lastBlock' = lastBlock BY <1>c DEF Fork
  <2> QED BY <1>6, <1>c, <2>1
<1>d. CASE Linked(b) /\ Extend(p, b, hdr) /\ Prev[b] = lastBlock
  <2> DEFINE bs == Keep(b) \union {b}
  <2>1. blocks' = bs /\ lastBlock' = b BY <1>d DEF Extend, NewLast
  <2>2. lastBlock \in bs BY <1>1, <1>d DEF Linked, Keep
  <2>3. bs \in SUBSET Block BY <1>7
  <2>4. \A c \in {lastBlock} \union (Checkpoints \intersect Ancestors[lastBlock]) : EndsRight(bs, c) BY <1>6, <1>d
  <2> HIDE DEF bs
  <2>5. b \in Walk(bs, b) BY <2>3, WalkIs
  <2>6. lastBlock \in Walk(bs, b) BY <1>d, <2>2, <2>3, <2>5, WalkOn
  <2>7. lastBlock \in Ancestors[lastBlock] BY <1>4
  <2>8. \A c \in {b} \union (Checkpoints \intersect Ancestors[b]) : EndsRight(bs, c)
    BY <1>1, <2>3, <2>4, <2>6, <2>7, RootedOnward
  <2> QED BY <2>1, <2>8
<1>e. CASE /\ Linked(b) /\ b \notin blocks /\ Prev[b] # lastBlock /\ Reorganise(p, b, hdr)
           /\ Height[b] > Height[lastBlock]
  <2> DEFINE bs == Keep(b) \union {b}
  <2>1. CASE Join(bs, b) = NoBlock
    <3>1. UNCHANGED <<blocks, lastBlock>> BY <1>e, <2>1 DEF Reorganise, Fault, chain
    <3> QED BY <1>a, <3>1
  <2>2. CASE Join(bs, b) # NoBlock
    <3>1. blocks' = bs /\ lastBlock' = b BY <1>e, <2>2 DEF Reorganise, NewLast
    <3>2. Common(bs, b) # {} BY <1>1, <1>3, <1>e, <2>2, JoinCommon DEF Linked
    <3>3. bs \in SUBSET Block BY <1>7
    <3>4. \A c \in {lastBlock} \union (Checkpoints \intersect Ancestors[lastBlock]) : EndsRight(bs, c) BY <1>6, <1>e
    <3> HIDE DEF bs
    <3>5. PICK j \in Walk(bs, b) : j \in Walk(bs, lastBlock) BY <3>2 DEF Common
    <3>6. EndsRight(bs, j) /\ j \in Ancestors[lastBlock] BY <1>1, <3>3, <3>4, <3>5, EndsBelow, WalkIs
    <3>7. \A c \in {b} \union (Checkpoints \intersect Ancestors[b]) : EndsRight(bs, c)
      BY <1>1, <3>3, <3>4, <3>6, RootedOnward
    <3> QED BY <3>1, <3>7
  <2> QED BY <2>1, <2>2
<1>8. Handle(p, b, hdr) BY DEF RelayedBlock
<1>9. Fault => UNCHANGED <<blocks, lastBlock>> BY DEF Fault, chain
<1>10. UNCHANGED <<chain, fault>> => UNCHANGED <<blocks, lastBlock>> BY DEF chain
<1>11. Shrinks(b) \/ Existing(p, b, hdr) => blocks' = Keep(b) /\ lastBlock' = lastBlock BY DEF Shrinks, Existing
<1> QED BY <1>8, <1>9, <1>10, <1>11, <1>a, <1>b, <1>c, <1>d, <1>e, HandleIs

LEMMA RootedRescan ==
  ASSUME ChainTypeOK, LastIsKept, Rooted, NEW b \in Block, Rescan(b)
  PROVE  Rooted'
<1> SUFFICES ASSUME Steady' PROVE \A c \in {b} \union (Checkpoints \intersect Ancestors[b]) : EndsRight(blocks, c)
  BY RescanIs DEF Rooted, EndsRight
<1>1. Steady /\ b \in Ancestors[lastBlock] BY RescanIs DEF Steady
<1>2. blocks \in SUBSET Block /\ lastBlock \in Block BY DEF ChainTypeOK
<1>3. Ancestors[b] \subseteq Ancestors[lastBlock] BY <1>1, <1>2, AncestorsTrans
<1>4. EndsRight(blocks, b)
  <2>1. CASE b \in Checkpoints BY <1>1, <2>1 DEF Rooted
  <2>2. CASE b \in MainChain
    <3>1. EndsRight(blocks, lastBlock) BY <1>1 DEF Rooted
    <3> QED BY <1>2, <2>2, <3>1, EndsBelow DEF MainChain
  <2> QED BY <2>1, <2>2, RescanIs
<1> QED BY <1>1, <1>3, <1>4 DEF Rooted

(* The walks through what has been loaded.                                  *)
LEMMA RootedLoaded ==
  ASSUME NEW ld \in SUBSET Block, NEW l \in Checkpoints \union ld,
         \A x \in ld : IsTransition(x) \/ Prev[x] \in ld
  PROVE  \A c \in {l} \union (Checkpoints \intersect Ancestors[l]) : EndsRight(Checkpoints \union ld, c)
<1>1. Checkpoints \union ld \in SUBSET Block /\ \A x \in Checkpoints : IsTransition(x)
  BY TreeAssumption DEF IsTransition
<1> SUFFICES ASSUME NEW c \in Checkpoints \union ld PROVE EndsRight(Checkpoints \union ld, c) OBVIOUS
<1>2. Walk(Checkpoints \union ld, c) \subseteq Checkpoints \union ld BY <1>1, WalkIs
<1> QED BY <1>1, <1>2 DEF EndsRight

LEMMA RootedRestart ==
  ASSUME ChainTypeOK, Restart
  PROVE  Rooted'
<1>1. PICK ld \in SUBSET Stored :
        /\ blocks' = Checkpoints \union ld
        /\ \/ ld = {} /\ lastBlock' = Start
           \/ \E b \in ld :
                /\ IsTransition(b) /\ lastBlock' \in ld
                /\ \A x \in ld \ {b} : Prev[x] \in ld
                /\ \A x \in ld : b \in Walk(ld, x) /\ Height[b] <= Height[x] /\ Height[x] <= Height[lastBlock']
                /\ \A x, y \in ld : Height[x] = Height[y] => x = y
  BY RestartIs
<1>2. ld \in SUBSET Block
  <2>1. Stored \subseteq Block BY DEF Stored, ChainTypeOK
  <2> QED BY <2>1
<1>3. lastBlock' \in Checkpoints \union ld /\ \A x \in ld : IsTransition(x) \/ Prev[x] \in ld
  <2>1. CASE ld = {} /\ lastBlock' = Start BY <2>1, TreeAssumption
  <2>2. CASE ~ (ld = {} /\ lastBlock' = Start)
    <3>1. PICK b \in ld : IsTransition(b) /\ lastBlock' \in ld /\ \A x \in ld \ {b} : Prev[x] \in ld BY <1>1, <2>2
    <3> QED BY <3>1
  <2> QED BY <2>1, <2>2
<1>4. \A c \in {lastBlock'} \union (Checkpoints \intersect Ancestors[lastBlock']) : EndsRight(Checkpoints \union ld, c)
  BY <1>2, <1>3, RootedLoaded
<1>5. blocks' = Checkpoints \union ld BY <1>1
<1> QED BY <1>4, <1>5 DEF Rooted, EndsRight

LEMMA RootedNext ==
  ASSUME ChainTypeOK, LastIsKept, Rooted, ChainNext
  PROVE  Rooted'
<1>1. ASSUME UNCHANGED <<blocks, lastBlock, met>> PROVE Rooted' BY <1>1 DEF Rooted, Steady, EndsRight
<1>2. \A p \in Nodes : SaveBlocks(p) => UNCHANGED <<blocks, lastBlock, met>> BY DEF SaveBlocks, chain
<1>3. FilterStep => UNCHANGED <<blocks, lastBlock, met>> BY FilterIs
<1> QED BY <1>1, <1>2, <1>3, StepIs, RootedRelayed, RootedRescan, RootedRestart

(* So a good block after lastBlock finds the transition it is checked       *)
(* against.                                                                 *)
LEMMA NextValid ==
  ASSUME ChainTypeOK, LastIsKept, Rooted
  PROVE  NextIsValid
<1> SUFFICES ASSUME Steady, NEW b \in Block \ BadTarget, Prev[b] = lastBlock,
                    \A c \in Checkpoints : Height[c] = Height[b] => c = b
             PROVE  Verified(b)
  BY DEF NextIsValid, Steady
<1> SUFFICES ASSUME IsTransition(b) PROVE Height[b] >= Interval /\ Transition(b) # NoBlock BY DEF Verified
<1> DEFINE bs == blocks \union {b}
<1>1. blocks \in SUBSET Block /\ bs \in SUBSET Block /\ lastBlock \in blocks /\ lastBlock \in Block
  BY DEF ChainTypeOK, LastIsKept
<1>2. Height[b] = Height[lastBlock] + 1 /\ Height[lastBlock] \in Nat /\ Interval \in Nat \ {0} /\ Height[b] \in Nat
  BY <1>1, Heights, TreeAssumption
<1>3. Height[b] >= Interval
  <2>1. 0 % Interval = 0 BY <1>2
  <2> QED BY <1>2, <2>1, Multiples DEF IsTransition
<1>4. PICK x \in Walk(blocks, lastBlock) : Prev[x] \notin blocks BY <1>1, WalkEnds
<1>5. IsTransition(x) BY <1>4 DEF Rooted, EndsRight
<1>6. x \in Block /\ Height[x] <= Height[lastBlock] /\ Height[x] \in Nat
  BY <1>1, WalkIs, AncestorsLower, Heights
<1>7. Height[x] + Interval <= Height[b]
  <2>1. Height[x] < Height[b] BY <1>2, <1>6
  <2> QED BY <1>2, <1>5, <1>6, <2>1, Multiples DEF IsTransition
<1>8. Height[b] - Interval \in Height[x]..Height[lastBlock] BY <1>2, <1>3, <1>6, <1>7
<1>9. PICK y \in Walk(blocks, lastBlock) : Height[y] = Height[b] - Interval BY <1>1, <1>8, WalkAt
<1> HIDE DEF bs
<1>10. lastBlock \in Walk(bs, b)
  <2>1. b \in Walk(bs, b) /\ Prev[b] \in bs BY <1>1, WalkIs DEF bs
  <2> QED BY <1>1, <2>1, WalkOn
<1>11. y \in Walk(bs, lastBlock) BY <1>9, WalkGrows DEF bs
<1>12. y \in Walk(bs, b) BY <1>1, <1>10, <1>11, WalkFrom
<1>13. AtHeight(bs, b, Height[b] - Interval) = y /\ y \in Block BY <1>1, <1>9, <1>12, AtHeightIs, WalkIs
<1>14. Transition(b) = y BY <1>13 DEF Transition, bs
<1> QED BY <1>3, <1>13, <1>14, TreeAssumption

-----------------------------------------------------------------------------
(* While no rescan is under way the walks do not end early.                 *)

LEMMA CalmIs ==
  ASSUME NEW p, NEW b, NEW hdr, RelayedBlock(p, b, hdr), Calm'
  PROVE  Calm /\ ~ Deep(b) /\ ~ AheadOfRescan(b)
BY MetIs DEF Calm

(* What is freed lies below all that is kept of the chain.                  *)
LEMMA KeptWalk ==
  ASSUME blocks \in SUBSET Block, lastBlock \in Block, NEW b \in Block,
         Prev[b] \in blocks, ~ Deep(b), ~ AheadOfRescan(b),
         NEW x \in Block, NEW a \in Walk(blocks, x), a \in Walk(Keep(b), lastBlock)
  PROVE  a \in Walk(Keep(b), x)
<1>1. ASSUME NEW y \in Ancestors[x] \ {x}, Height[a] <= Height[y], y \in blocks PROVE y \in Keep(b)
  <2> SUFFICES ASSUME y \in Freed(b) PROVE FALSE BY <1>1 DEF Keep
  <2>1. Height[y] < Height[b] - Interval BY FreedIs
  <2>2. Height[b] - Interval <= Height[a]
    <3>1. Freed(b) # {} OBVIOUS
    <3>2. Height[Transition(b)] = Height[b] - Interval /\ Height[Transition(b)] <= Height[a] BY <3>1, CutClean
    <3> QED BY <3>2
  <2>3. Height[y] \in Nat /\ Height[a] \in Nat /\ Height[b] \in Nat /\ Interval \in Nat BY <1>1, WalkIs, Heights
  <2> QED BY <1>1, <2>1, <2>2, <2>3
<1> QED BY <1>1, WalkStays

LEMMA NoFaultRelayed ==
  ASSUME ChainTypeOK, LastIsKept, ForksAreKept, ~ fault, NEW p \in Nodes, NEW b \in Block, NEW hdr \in BOOLEAN,
         RelayedBlock(p, b, hdr)
  PROVE  NoFault'
<1> SUFFICES ASSUME Calm' PROVE ~ fault' BY DEF NoFault, Calm
<1>1. Calm /\ ~ Deep(b) /\ ~ AheadOfRescan(b) BY CalmIs
<1>2. blocks \in SUBSET Block /\ lastBlock \in blocks /\ lastBlock \in Block BY DEF ChainTypeOK, LastIsKept
<1>3. Height[b] \in Nat /\ Height[lastBlock] \in Nat /\ Interval \in Nat \ {0} BY <1>2, Heights
<1>a. CASE Prev[b] \in blocks /\ lastBlock \in Freed(b)
  <2>1. IsTransition(b) /\ Height[lastBlock] < Height[b] - Interval BY <1>2, <1>a, FreedIs
  <2>2. Height[b] > Height[lastBlock] + 1 BY <1>3, <2>1
  <2> QED BY <1>1, <1>a, <2>1, <2>2 DEF AheadOfRescan
<1>b. CASE Linked(b) /\ b \in blocks /\ Existing(p, b, hdr)
  <2> SUFFICES ASSUME Height[b] < Height[lastBlock] PROVE AtHeight(Keep(b), lastBlock, Height[b]) # NoBlock
    <3>1. lastBlock # NoBlock BY <1>2, TreeAssumption
    <3> QED BY <1>b, <3>1 DEF Existing
  <2>1. lastBlock \notin Ancestors[b]
    <3>1. lastBlock \in Ancestors[b] => Height[lastBlock] <= Height[b] BY AncestorsLower
    <3> QED BY <1>3, <3>1
  <2>2. PICK a \in Walk(Keep(b), lastBlock) : a \in Ancestors[b]
    <3>1. CASE b \in MainChain
      <4>1. b \in Ancestors[lastBlock] BY <1>2, <3>1, WalkIs DEF MainChain
      <4> QED BY <1>1, <1>2, <1>b, <4>1, NotBelow, AncestorsAre DEF Linked
    <3>2. CASE b \notin MainChain BY <1>1, <1>2, <1>b, <2>1, <3>2, ForkMeets DEF Linked
    <3> QED BY <3>1, <3>2
  <2>3. a \in Block /\ Height[a] \in Nat /\ Height[a] <= Height[b] BY <2>2, AncestorsAre, AncestorsLower, Heights
  <2>4. Height[b] \in Height[a]..Height[lastBlock] BY <1>3, <2>3
  <2>5. Keep(b) \in SUBSET Block BY <1>2, KeepIs
  <2>6. PICK y \in Walk(Keep(b), lastBlock) : Height[y] = Height[b] BY <1>2, <2>2, <2>4, <2>5, WalkAt
  <2>7. y \in Block BY <1>2, <2>5, WalkIs
  <2> QED BY <1>2, <2>5, <2>6, <2>7, AtHeightIs, TreeAssumption
<1>c. CASE /\ Linked(b) /\ b \notin blocks /\ Prev[b] # lastBlock /\ Reorganise(p, b, hdr)
           /\ Height[b] > Height[lastBlock]
  <2> DEFINE bs == Keep(b) \union {b}
  <2> SUFFICES Join(bs, b) # NoBlock BY <1>c DEF Reorganise
  <2>1. PICK a \in Ancestors[b] \intersect MainChain : a \in Walk(Keep(b), lastBlock) /\ a # b
    BY <1>1, <1>2, <1>c, HigherFork DEF Linked
  <2>2. Height[b] = Height[lastBlock] + 1 BY <1>1, <1>2, <1>c, HigherFork DEF Linked
  <2>3. Prev[b] \in Block /\ Prev[b] # NoBlock /\ Height[b] = Height[Prev[b]] + 1 /\ Height[Prev[b]] \in Nat
    BY <1>2, <1>c, Heights, TreeAssumption DEF Linked
  <2>4. a \in Ancestors[Prev[b]] BY <2>1, <2>3, AncestorsUnfold
  <2>5. Height[Prev[b]] <= Height[lastBlock] BY <1>3, <2>2, <2>3
  <2>6. a \in Walk(blocks, Prev[b]) BY <1>1, <1>c, <2>1, <2>4, <2>5 DEF ForksAreKept, Linked
  <2>7. a \in Walk(Keep(b), Prev[b]) BY <1>1, <1>2, <1>c, <2>1, <2>3, <2>6, KeptWalk DEF Linked
  <2>8. bs \in SUBSET Block /\ Keep(b) \subseteq bs /\ Prev[b] \in bs BY <1>2, <1>c, KeepIs DEF Linked
  <2> HIDE DEF bs
  <2>9. a \in Walk(bs, Prev[b]) BY <2>7, <2>8, WalkGrows
  <2>10. a \in Walk(bs, b) BY <2>8, <2>9, WalkUnfold
  <2>11. a \in Walk(bs, lastBlock) BY <2>1, <2>8, WalkGrows
  <2>12. a \in Common(bs, b) /\ Common(bs, b) \in SUBSET Block BY <1>2, <2>8, <2>10, <2>11, WalkIs DEF Common
  <2>13. \E c \in Common(bs, b) : \A d \in Common(bs, b) : Height[d] <= Height[c] BY <2>12, HighestIs
  <2>14. Join(bs, b) \in Common(bs, b) BY <2>12, <2>13 DEF Join
  <2> QED BY <2>12, <2>14, TreeAssumption
<1>d. Handle(p, b, hdr) BY DEF RelayedBlock
<1>e. UNCHANGED fault => ~ fault' OBVIOUS
<1> QED BY <1>a, <1>b, <1>c, <1>d, <1>e, HandleIs DEF Shrinks, Fork, Extend

LEMMA HigherRelayed ==
  ASSUME ChainTypeOK, LastIsKept, NothingHigher, NEW p \in Nodes, NEW b \in Block, NEW hdr \in BOOLEAN,
         RelayedBlock(p, b, hdr)
  PROVE  NothingHigher'
<1> SUFFICES ASSUME Calm', NEW x \in blocks', x \notin Checkpoints PROVE Height[x] <= Height[lastBlock']
  BY DEF NothingHigher
<1>1. Calm BY CalmIs
<1>2. blocks \in SUBSET Block /\ lastBlock \in Block /\ Keep(b) \subseteq blocks /\ Keep(b) \subseteq Block
  BY KeepIs DEF ChainTypeOK
<1>3. \A y \in blocks \ Checkpoints : Height[y] <= Height[lastBlock] BY <1>1 DEF NothingHigher
<1>4. Handle(p, b, hdr) BY DEF RelayedBlock
<1>5. Height[b] \in Nat /\ Height[lastBlock] \in Nat /\ \A y \in blocks : Height[y] \in Nat BY <1>2, Heights
<1>a. CASE UNCHANGED <<blocks, lastBlock>> BY <1>3, <1>a
<1>b. CASE blocks' = Keep(b) /\ lastBlock' = lastBlock BY <1>2, <1>3, <1>b
<1>c. CASE blocks' = Keep(b) \union {b} /\ lastBlock' = lastBlock /\ Height[b] <= Height[lastBlock]
  BY <1>2, <1>3, <1>c
<1>d. CASE blocks' = Keep(b) \union {b} /\ lastBlock' = b /\ Height[lastBlock] <= Height[b]
  <2>1. CASE x = b BY <1>5, <1>d, <2>1
  <2>2. CASE x \in blocks BY <1>3, <1>5, <1>d, <2>2
  <2> QED BY <1>2, <1>d, <2>1, <2>2
<1>6. UNCHANGED <<chain, fault>> \/ Fault => UNCHANGED <<blocks, lastBlock>> BY DEF chain, Fault
<1>7. Shrinks(b) \/ Existing(p, b, hdr) => blocks' = Keep(b) /\ lastBlock' = lastBlock BY DEF Shrinks, Existing
<1>8. Fork(p, b, hdr) => blocks' = Keep(b) \union {b} /\ lastBlock' = lastBlock BY DEF Fork
<1>9. Extend(p, b, hdr) => blocks' = Keep(b) \union {b} /\ lastBlock' = b BY DEF Extend, NewLast
<1>10. Prev[b] = lastBlock => Height[lastBlock] <= Height[b] BY <1>2, <1>5, Heights, TreeAssumption
<1>11. Reorganise(p, b, hdr) => Fault \/ (blocks' = Keep(b) \union {b} /\ lastBlock' = b) BY DEF Reorganise, NewLast
<1>12. Height[b] > Height[lastBlock] => Height[lastBlock] <= Height[b] BY <1>5
<1> QED BY <1>4, <1>6, <1>7, <1>8, <1>9, <1>10, <1>11, <1>12, <1>a, <1>b, <1>c, <1>d, HandleIs

(* A chain that is as high as a checkpoint goes through it.                 *)
LEMMA CheckpointForks ==
  ASSUME NEW bs \in SUBSET Block, \A y \in bs : Fitting(y), NEW l \in bs,
         NEW x \in Checkpoints, Height[x] <= Height[l], NEW a \in Ancestors[x], a \in Walk(bs, l)
  PROVE  a \in Walk(bs, x)
<1>1. x \in Block /\ l \in Block /\ a \in Block BY TreeAssumption, WalkIs
<1>2. Height[a] <= Height[x] /\ Height[a] \in Nat /\ Height[x] \in Nat /\ Height[l] \in Nat
  BY <1>1, AncestorsLower, Heights
<1>3. Height[x] \in Height[a]..Height[l] BY <1>2
<1>4. PICK z \in Walk(bs, l) : Height[z] = Height[x] BY <1>1, <1>3, WalkAt
<1>5. z \in bs BY <1>1, <1>4, WalkIs
<1>6. z = x BY <1>4, <1>5 DEF Fitting
<1> QED BY <1>1, <1>2, <1>4, <1>6, WalkFrom

(* Of the kept blocks at a new lastBlock's height there is no other.        *)
LEMMA OnlyOneThere ==
  ASSUME NothingHigher, Calm, blocks \in SUBSET Block, lastBlock \in Block, NEW b \in Block, Fitting(b),
         Height[b] > Height[lastBlock], NEW x \in blocks, Height[x] = Height[b]
  PROVE  x = b
<1>1. x \notin Checkpoints => Height[x] <= Height[lastBlock] BY DEF NothingHigher
<1>2. Height[b] \in Nat /\ Height[lastBlock] \in Nat BY Heights
<1>3. x \in Checkpoints BY <1>1, <1>2
<1> QED BY <1>3 DEF Fitting

LEMMA ForksRelayed ==
  ASSUME ChainTypeOK, LastIsKept, NothingHigher, ForksAreKept, NEW p \in Nodes, NEW b \in Block, NEW hdr \in BOOLEAN,
         RelayedBlock(p, b, hdr)
  PROVE  ForksAreKept'
<1> SUFFICES ASSUME Calm', NEW x \in blocks', Height[x] <= Height[lastBlock'],
                    NEW a \in Ancestors[x], a \in Walk(blocks', lastBlock')
             PROVE  a \in Walk(blocks', x)
  BY DEF ForksAreKept, MainChain, Walk
<1>1. Calm /\ ~ Deep(b) /\ ~ AheadOfRescan(b) BY CalmIs
<1>2. blocks \in SUBSET Block /\ lastBlock \in blocks /\ lastBlock \in Block BY DEF ChainTypeOK, LastIsKept
<1>3. Handle(p, b, hdr) BY DEF RelayedBlock
<1>4. Height[b] \in Nat /\ Height[lastBlock] \in Nat /\ \A y \in blocks : Height[y] \in Nat BY <1>2, Heights
<1>5. Keep(b) \in SUBSET Block /\ Keep(b) \subseteq blocks BY <1>2, KeepIs
<1> DEFINE bs == Keep(b) \union {b}
<1>6. bs \in SUBSET Block /\ Keep(b) \subseteq bs BY <1>5
<1>7. ASSUME Linked(b), NEW y \in blocks, Height[y] <= Height[lastBlock], NEW c \in Ancestors[y], c \in Walk(Keep(b), lastBlock)
      PROVE  c \in Walk(Keep(b), y)
  <2>1. c \in MainChain BY <1>5, <1>7, WalkGrows DEF MainChain
  <2>2. c \in Walk(blocks, y) BY <1>1, <1>7, <2>1 DEF ForksAreKept
  <2> QED BY <1>1, <1>2, <1>7, <2>2, KeptWalk DEF Linked
<1> HIDE DEF bs
<1>8. ASSUME Linked(b), b \notin blocks \/ Prev[b] = lastBlock, NEW c \in Walk(bs, lastBlock)
      PROVE  c \in Walk(Keep(b), lastBlock) /\ c # b
  <2>1. b \notin Ancestors[lastBlock] BY <1>1, <1>2, <1>8, NotBefore DEF Linked
  <2>2. Walk(bs, lastBlock) \subseteq Walk(Keep(b), lastBlock) BY <2>1 DEF Walk, bs
  <2>3. c \in Ancestors[lastBlock] BY <1>2, <1>6, WalkIs
  <2> QED BY <1>8, <2>1, <2>2, <2>3
<1>a. CASE UNCHANGED <<blocks, lastBlock>>
  <2>1. a \in MainChain BY <1>a DEF MainChain
  <2> QED BY <1>1, <1>a, <2>1 DEF ForksAreKept
<1>b. CASE Linked(b) /\ blocks' = Keep(b) /\ lastBlock' = lastBlock BY <1>5, <1>7, <1>b
<1>c. CASE Linked(b) /\ b \notin blocks /\ blocks' = bs /\ lastBlock' = lastBlock /\ Height[b] <= Height[lastBlock]
  <2>1. a \in Walk(Keep(b), lastBlock) /\ a # b BY <1>8, <1>c
  <2>2. CASE x \in Keep(b)
    <3>1. a \in Walk(Keep(b), x) BY <1>5, <1>7, <1>c, <2>1, <2>2
    <3> QED BY <1>6, <1>c, <3>1, WalkGrows
  <2>3. CASE x = b
    <3>1. Prev[b] \in blocks /\ Prev[b] # NoBlock /\ Prev[b] \in bs BY <1>2, <1>c, KeepIs, TreeAssumption DEF Linked, bs
    <3>2. a \in Ancestors[Prev[b]] BY <2>1, <2>3, <3>1, AncestorsUnfold
    <3>3. Height[Prev[b]] <= Height[lastBlock] BY <1>4, <1>c, <3>1, Heights
    <3>4. a \in Walk(Keep(b), Prev[b]) BY <1>7, <1>c, <2>1, <3>1, <3>2, <3>3
    <3>5. a \in Walk(bs, Prev[b]) BY <1>6, <3>4, WalkGrows
    <3> QED BY <1>6, <1>c, <2>3, <3>1, <3>5, WalkUnfold
  <2> QED BY <1>c, <2>2, <2>3 DEF bs
<1>d. CASE Linked(b) /\ Verified(b) /\ Prev[b] = lastBlock /\ blocks' = bs /\ lastBlock' = b
  <2>1. Height[b] = Height[lastBlock] + 1 BY <1>2, <1>d, Heights, TreeAssumption
  <2>2. CASE x = b BY <1>d, <2>2
  <2>3. CASE x # b
    <3>1. x \in Keep(b) /\ x \in blocks BY <1>5, <1>d, <2>3 DEF bs
    <3>2. Height[x] # Height[b]
      <4>1. Fitting(b) BY <1>d DEF Verified, Fitting
      <4>2. Height[b] > Height[lastBlock] BY <1>4, <2>1
      <4> QED BY <1>1, <1>2, <2>3, <3>1, <4>1, <4>2, OnlyOneThere
    <3>3. Height[x] <= Height[lastBlock] BY <1>4, <1>d, <2>1, <3>1, <3>2
    <3>4. a # b
      <4>1. Height[a] <= Height[x] BY <1>2, <3>1, AncestorsLower
      <4> QED BY <1>4, <2>1, <3>1, <3>3, <4>1
    <3>5. a \in Walk(bs, lastBlock) BY <1>6, <1>d, <3>4, WalkUnfold
    <3>6. a \in Walk(Keep(b), x) BY <1>7, <1>8, <1>d, <3>1, <3>3, <3>5
    <3> QED BY <1>6, <1>d, <3>6, WalkGrows
  <2> QED BY <2>2, <2>3
<1>e. CASE /\ Linked(b) /\ Verified(b) /\ b \notin blocks /\ Prev[b] # lastBlock /\ Height[b] > Height[lastBlock]
           /\ blocks' = bs /\ lastBlock' = b
  <2>1. Height[b] = Height[lastBlock] + 1 BY <1>1, <1>2, <1>e, HigherFork DEF Linked
  <2>2. CASE x = b BY <1>e, <2>2
  <2>3. CASE x # b
    <3>1. x \in Keep(b) /\ x \in blocks /\ x \in Block BY <1>2, <1>5, <1>e, <2>3 DEF bs
    <3>2. Height[x] # Height[b]
      <4>1. Fitting(b) BY <1>e DEF Verified, Fitting
      <4> QED BY <1>1, <1>2, <1>e, <2>3, <3>1, <4>1, OnlyOneThere
    <3>3. Height[x] <= Height[lastBlock] BY <1>4, <1>e, <2>1, <3>1, <3>2
    <3>4. PICK j \in Ancestors[b] \intersect MainChain : j \in Walk(Keep(b), lastBlock) /\ j # b
      BY <1>1, <1>2, <1>e, HigherFork DEF Linked
    <3>5. Prev[b] \in blocks /\ Prev[b] # NoBlock /\ Prev[b] \in bs BY <1>2, <1>e, KeepIs, TreeAssumption DEF Linked, bs
    <3>6. j \in Ancestors[Prev[b]] BY <3>4, <3>5, AncestorsUnfold
    <3>7. Height[Prev[b]] <= Height[lastBlock] BY <1>4, <2>1, <3>5, Heights
    <3>8. j \in Walk(Keep(b), Prev[b]) BY <1>7, <1>e, <3>4, <3>5, <3>6, <3>7
    <3>9. j \in Walk(bs, b)
      <4>1. j \in Walk(bs, Prev[b]) BY <1>6, <3>8, WalkGrows
      <4> QED BY <1>6, <3>5, <4>1, WalkUnfold
    <3>10. j \in Walk(bs, lastBlock) BY <1>6, <3>4, WalkGrows
    <3>11. a \in Walk(bs, b) /\ a \in Block /\ j \in Block /\ a \in Ancestors[b] BY <1>6, <1>e, <3>9, WalkIs
    <3>12. CASE Height[a] <= Height[j]
      <4>1. a \in Walk(bs, j) BY <1>6, <3>9, <3>11, <3>12, WalkFrom
      <4>2. a \in Walk(bs, lastBlock) BY <1>2, <1>6, <3>10, <4>1, WalkFrom
      <4>3. a \in Walk(Keep(b), x) BY <1>7, <1>8, <1>e, <3>1, <3>3, <4>2
      <4> QED BY <1>6, <1>e, <4>3, WalkGrows
    <3>13. CASE Height[j] <= Height[a]
      <4>1. j \in Ancestors[a] BY <3>4, <3>11, <3>13, AncestorsChain
      <4>2. j \in Ancestors[x] BY <3>1, <4>1, AncestorsTrans
      <4>3. j \in Walk(Keep(b), x) BY <1>7, <1>e, <3>1, <3>3, <3>4, <4>2
      <4>4. a \in Walk(Keep(b), x) BY <1>5, <3>1, <3>13, <4>3, WalkAbove
      <4> QED BY <1>6, <1>e, <4>4, WalkGrows
    <3> QED BY <3>11, <3>12, <3>13, Heights
  <2> QED BY <2>2, <2>3
<1>9. UNCHANGED <<chain, fault>> \/ Fault => UNCHANGED <<blocks, lastBlock>> BY DEF chain, Fault
<1>10. Shrinks(b) \/ Existing(p, b, hdr) => blocks' = Keep(b) /\ lastBlock' = lastBlock BY DEF Shrinks, Existing
<1>11. Fork(p, b, hdr) => blocks' = bs /\ lastBlock' = lastBlock BY DEF Fork, bs
<1>12. Extend(p, b, hdr) => blocks' = bs /\ lastBlock' = b BY DEF Extend, NewLast, bs
<1>13. Reorganise(p, b, hdr) => Fault \/ (blocks' = bs /\ lastBlock' = b) BY DEF Reorganise, NewLast, bs
<1> QED BY <1>3, <1>9, <1>10, <1>11, <1>12, <1>13, <1>a, <1>b, <1>c, <1>d, <1>e, HandleIs

LEMMA RestartForks ==
  ASSUME ChainTypeOK, AllFit, LastIsKept, Restart
  PROVE  NothingHigher' /\ ForksAreKept'
<1>1. PICK ld \in SUBSET Stored :
        /\ blocks' = Checkpoints \union ld
        /\ \/ ld = {} /\ lastBlock' = Start
           \/ \E b \in ld :
                /\ IsTransition(b) /\ lastBlock' \in ld
                /\ \A x \in ld \ {b} : Prev[x] \in ld
                /\ \A x \in ld : b \in Walk(ld, x) /\ Height[b] <= Height[x] /\ Height[x] <= Height[lastBlock']
                /\ \A x, y \in ld : Height[x] = Height[y] => x = y
  BY RestartIs
<1> DEFINE bs == Checkpoints \union ld
           l == lastBlock'
<1>2. blocks' = bs BY <1>1
<1>3. (\A y \in bs : Fitting(y)) /\ l \in bs /\ bs \in SUBSET Block
  <2>1. ChainTypeOK' /\ AllFit' /\ LastIsKept' BY RestartTyped
  <2>2. \A y \in blocks' : Fitting(y) BY <2>1 DEF AllFit, Fitting
  <2>3. blocks' \in SUBSET Block BY <2>1 DEF ChainTypeOK
  <2>4. lastBlock' \in blocks' BY <2>1 DEF LastIsKept
  <2> QED BY <1>2, <2>2, <2>3, <2>4
<1>4. ld \subseteq bs /\ ld \in SUBSET Block
  <2>1. ld \subseteq bs OBVIOUS
  <2> QED BY <1>3, <2>1
<1>5. \A x \in ld : Height[x] <= Height[l] /\ x \in Walk(ld, l)
  <2> SUFFICES ASSUME NEW x \in ld PROVE Height[x] <= Height[l] /\ x \in Walk(ld, l) OBVIOUS
  <2>1. PICK b \in ld :
          /\ l \in ld
          /\ \A y \in ld : b \in Walk(ld, y) /\ Height[b] <= Height[y] /\ Height[y] <= Height[l]
          /\ \A y, z \in ld : Height[y] = Height[z] => y = z
    BY <1>1
  <2> HIDE DEF bs, l
  <2>2. b \in Walk(ld, l) /\ l \in Block /\ b \in Block /\ x \in Block BY <1>4, <2>1
  <2>3. Height[b] <= Height[x] /\ Height[x] <= Height[l] /\ Height[b] \in Nat /\ Height[x] \in Nat /\ Height[l] \in Nat
    BY <2>1, <2>2, Heights
  <2>4. Height[x] \in Height[b]..Height[l] BY <2>3
  <2>5. PICK z \in Walk(ld, l) : Height[z] = Height[x] BY <1>4, <2>2, <2>4, WalkAt
  <2>6. z \in ld BY <1>4, <2>1, <2>2, <2>5, WalkIs
  <2>7. z = x BY <2>1, <2>5, <2>6
  <2> QED BY <2>3, <2>5, <2>7
<1> HIDE DEF bs, l
<1>6. \A x \in bs \ Checkpoints : Height[x] <= Height[l] BY <1>5 DEF bs
<1>7. ASSUME NEW x \in bs, Height[x] <= Height[l], NEW a \in Ancestors[x], a \in Walk(bs, l)
      PROVE  a \in Walk(bs, x)
  <2>1. CASE x \in Checkpoints BY <1>3, <1>7, <2>1, CheckpointForks
  <2>2. CASE x \in ld
    <3>1. l \in Block /\ x \in Block BY <1>3
    <3>2. x \in Walk(bs, l) BY <1>4, <1>5, <2>2, WalkGrows
    <3>3. Height[a] <= Height[x] BY <1>7, <3>1, AncestorsLower
    <3> QED BY <1>3, <1>7, <3>1, <3>2, <3>3, WalkFrom
  <2> QED BY <2>1, <2>2 DEF bs
<1>8. NothingHigher' BY <1>2, <1>6 DEF NothingHigher, l
<1>9. ForksAreKept' BY <1>2, <1>7 DEF ForksAreKept, MainChain, Walk, l
<1> QED BY <1>8, <1>9

LEMMA CalmNext ==
  ASSUME ChainTypeOK, AllFit, LastIsKept, NothingHigher, ForksAreKept, NoFault, ChainNext
  PROVE  NothingHigher' /\ ForksAreKept' /\ NoFault'
<1>1. ASSUME UNCHANGED <<blocks, lastBlock, met, fault>> PROVE NothingHigher' /\ ForksAreKept' /\ NoFault'
  <2>1. NothingHigher' BY <1>1 DEF NothingHigher, Calm
  <2>2. ForksAreKept' BY <1>1 DEF ForksAreKept, Calm, MainChain, Walk
  <2>3. NoFault' BY <1>1 DEF NoFault
  <2> QED BY <2>1, <2>2, <2>3
<1>2. \A p \in Nodes : SaveBlocks(p) => UNCHANGED <<blocks, lastBlock, met, fault>> BY DEF SaveBlocks, chain
<1>3. FilterStep => UNCHANGED <<blocks, lastBlock, met, fault>> BY FilterIs
<1>4. ASSUME NEW b \in Block, Rescan(b) PROVE NothingHigher' /\ ForksAreKept' /\ NoFault'
  <2>1. "rescan" \in met' BY <1>4, RescanIs
  <2>2. ~ Calm' BY <2>1 DEF Calm
  <2>3. NoFault' BY <2>1 DEF NoFault
  <2> QED BY <2>2, <2>3 DEF NothingHigher, ForksAreKept
<1>5. Restart => NoFault' BY DEF Restart, NoFault
<1>6. ASSUME ~ fault, NEW p \in Nodes, NEW b \in Block, NEW hdr \in BOOLEAN, RelayedBlock(p, b, hdr)
      PROVE  NothingHigher' /\ ForksAreKept' /\ NoFault'
  BY <1>6, HigherRelayed, ForksRelayed, NoFaultRelayed
<1> QED BY <1>1, <1>2, <1>3, <1>4, <1>5, <1>6, StepIs, RestartForks

-----------------------------------------------------------------------------
(* The heights that the wallet is told.                                     *)

LEMMA HasOnce ==
  ASSUME NEW l \in Block, NEW c \in Ancestors[l], NEW d \in Ancestors[l], NEW t \in TxOf[c], t \in TxOf[d]
  PROVE  c = d
<1>1. c \in Block /\ d \in Block /\ Height[c] \in Nat /\ Height[d] \in Nat BY AncestorsAre, Heights
<1>2. c \in Ancestors[d] \/ d \in Ancestors[c] BY <1>1, AncestorsChain
<1> QED BY <1>1, <1>2, ChainsAssumption

LEMMA ConfIs ==
  ASSUME ChainTypeOK, NEW b \in Block, NEW t \in WalletTx
  PROVE  /\ conf[t] \in Nat /\ conf \in [WalletTx -> Nat]
         /\ t \in TxOf[b] => UpdateTransactions(conf, b)[t] = Height[b]
         /\ t \notin TxOf[b] => UpdateTransactions(conf, b)[t] = conf[t]
BY DEF ChainTypeOK, UpdateTransactions

(* Where the chains join; what becomes of a transaction's height.           *)
LEMMA ReorganisedIs ==
  ASSUME ChainTypeOK, NEW bs \in SUBSET Block, NEW b \in Block, NEW fs, Common(bs, b) # {}, NEW t \in WalletTx
  PROVE  LET j == Join(bs, b)
             new == {a \in Walk(bs, b) \intersect fs : Height[a] > Height[j]}
         IN  /\ j \in Walk(bs, b) /\ j \in Walk(bs, lastBlock)
             /\ \/ \E a \in new : t \in TxOf[a] /\ Reorganised(bs, fs, b)[t] = Height[a]
                \/ /\ \A a \in new : t \notin TxOf[a]
                   /\ Reorganised(bs, fs, b)[t] = IF conf[t] > Height[j] THEN TxUnconfirmed ELSE conf[t]
<1> DEFINE j == Join(bs, b)
           new == {a \in Walk(bs, b) \intersect fs : Height[a] > Height[j]}
           cf == SetTxUnconfirmedAfter(conf, Height[j])
<1>1. j \in Common(bs, b)
  <2>1. Common(bs, b) \in SUBSET Block BY WalkIs DEF Common
  <2>2. \E c \in Common(bs, b) : \A d \in Common(bs, b) : Height[d] <= Height[c] BY <2>1, HighestIs
  <2> QED BY <2>2 DEF Join
<1>2. cf[t] = IF conf[t] > Height[j] THEN TxUnconfirmed ELSE conf[t] BY DEF SetTxUnconfirmedAfter
<1>3. Reorganised(bs, fs, b)[t] =
        IF \E a \in new : t \in TxOf[a] THEN Height[CHOOSE a \in new : t \in TxOf[a]] ELSE cf[t]
  <2> DEFINE all == IF Common(bs, b) = {} THEN {} ELSE {a \in Walk(bs, b) \intersect fs : Height[a] > Height[Join(bs, b)]}
  <2>1. Reorganised(bs, fs, b) =
          [u \in WalletTx |-> IF \E a \in all : u \in TxOf[a] THEN Height[CHOOSE a \in all : u \in TxOf[a]] ELSE cf[u]]
    BY DEF Reorganised
  <2>2. all = new OBVIOUS
  <2> HIDE DEF all, new, cf
  <2> QED BY <2>1, <2>2
<1>4. j \in Walk(bs, b) /\ j \in Walk(bs, lastBlock) BY <1>1 DEF Common
<1> HIDE DEF j, new, cf
<1>5. CASE \E a \in new : t \in TxOf[a]
  <2> DEFINE a == CHOOSE a \in new : t \in TxOf[a]
  <2>1. a \in new /\ t \in TxOf[a] BY <1>5
  <2>2. Reorganised(bs, fs, b)[t] = Height[a] BY <1>3, <1>5
  <2> HIDE DEF a
  <2>3. \E c \in new : t \in TxOf[c] /\ Reorganised(bs, fs, b)[t] = Height[c] BY <2>1, <2>2
  <2> QED BY <1>4, <2>3 DEF j, new
<1>6. CASE ~ \E a \in new : t \in TxOf[a]
  <2>1. (\A a \in new : t \notin TxOf[a]) /\ Reorganised(bs, fs, b)[t] = IF conf[t] > Height[j] THEN TxUnconfirmed ELSE conf[t]
    BY <1>2, <1>3, <1>6
  <2> QED BY <1>4, <2>1 DEF j, new
<1> QED BY <1>5, <1>6

LEMMA ConfirmedRelayed ==
  ASSUME ChainTypeOK, LastIsKept, ConfirmedOnMain, NEW p \in Nodes, NEW b \in Block, NEW hdr \in BOOLEAN,
         RelayedBlock(p, b, hdr)
  PROVE  ConfirmedOnMain'
<1> SUFFICES ASSUME met' \intersect Deeps = {}, NEW t \in WalletTx, conf'[t] # TxUnconfirmed
             PROVE  \E c \in Ancestors[lastBlock'] \union rewound : t \in TxOf[c] /\ conf'[t] = Height[c]
  <2>1. rewound' = rewound BY DEF RelayedBlock
  <2> QED BY <2>1 DEF ConfirmedOnMain
<1>1. ~ Deep(b) /\ met \intersect Deeps = {} BY MetIs DEF Deeps
<1>2. blocks \in SUBSET Block /\ lastBlock \in blocks /\ lastBlock \in Block BY DEF ChainTypeOK, LastIsKept
<1>3. conf[t] # TxUnconfirmed =>
        \E c \in Ancestors[lastBlock] \union rewound : t \in TxOf[c] /\ conf[t] = Height[c]
  BY <1>1 DEF ConfirmedOnMain
<1>4. Handle(p, b, hdr) BY DEF RelayedBlock
<1>a. CASE UNCHANGED <<lastBlock, conf>> BY <1>3, <1>a
<1>b. CASE lastBlock' = lastBlock /\ conf' = UpdateTransactions(conf, b) /\ b \in Ancestors[lastBlock]
  <2>1. t \in TxOf[b] => conf'[t] = Height[b] BY <1>b, ConfIs
  <2>2. t \notin TxOf[b] => conf'[t] = conf[t] BY <1>b, ConfIs
  <2> QED BY <1>3, <1>b, <2>1, <2>2
<1>c. CASE Prev[b] = lastBlock /\ lastBlock' = b /\ conf' \in {conf, UpdateTransactions(conf, b)}
  <2>1. Ancestors[lastBlock] \subseteq Ancestors[b] /\ b \in Ancestors[b]
    BY <1>2, <1>c, AncestorsUnfold, TreeAssumption
  <2>2. (t \in TxOf[b] /\ conf'[t] = Height[b]) \/ conf'[t] = conf[t] BY <1>c, ConfIs
  <2> QED BY <1>3, <1>c, <2>1, <2>2
<1>d. CASE /\ Linked(b) /\ b \notin blocks /\ Height[b] > Height[lastBlock] /\ lastBlock' = b
           /\ Join(Keep(b) \union {b}, b) # NoBlock
           /\ conf' = Reorganised(Keep(b) \union {b}, FullWith(b, hdr), b)
  <2> DEFINE bs == Keep(b) \union {b}
             fs == FullWith(b, hdr)
             j == Join(bs, b)
  <2>1. Common(bs, b) # {} BY <1>1, <1>2, <1>d, JoinCommon DEF Linked
  <2>2. bs \in SUBSET Block BY <1>2, KeepIs
  <2>3. conf' = Reorganised(bs, fs, b) BY <1>d
  <2> HIDE DEF bs, fs, j
  <2>4. /\ j \in Walk(bs, b) /\ j \in Walk(bs, lastBlock)
        /\ \/ \E a \in Walk(bs, b) : t \in TxOf[a] /\ conf'[t] = Height[a]
           \/ conf'[t] = IF conf[t] > Height[j] THEN TxUnconfirmed ELSE conf[t]
    <3> DEFINE new == {a \in Walk(bs, b) \intersect fs : Height[a] > Height[j]}
    <3>1. /\ j \in Walk(bs, b) /\ j \in Walk(bs, lastBlock)
          /\ \/ \E a \in new : t \in TxOf[a] /\ Reorganised(bs, fs, b)[t] = Height[a]
             \/ Reorganised(bs, fs, b)[t] = IF conf[t] > Height[j] THEN TxUnconfirmed ELSE conf[t]
      BY <2>1, <2>2, ReorganisedIs DEF j
    <3>2. new \subseteq Walk(bs, b) OBVIOUS
    <3> HIDE DEF new
    <3> QED BY <2>3, <3>1, <3>2
  <2>5. CASE \E a \in Walk(bs, b) : t \in TxOf[a] /\ conf'[t] = Height[a] BY <1>d, <2>2, <2>5, WalkIs
  <2>6. CASE conf'[t] = IF conf[t] > Height[j] THEN TxUnconfirmed ELSE conf[t]
    <3>1. conf'[t] = conf[t] /\ ~ (conf[t] > Height[j]) BY <2>6
    <3>2. PICK c \in Ancestors[lastBlock] \union rewound : t \in TxOf[c] /\ conf[t] = Height[c] BY <1>3, <3>1
    <3>3. CASE c \in rewound BY <3>1, <3>2, <3>3
    <3>4. CASE c \in Ancestors[lastBlock]
      <4>1. j \in Ancestors[lastBlock] /\ j \in Ancestors[b] BY <1>2, <2>2, <2>4, WalkIs
      <4>2. c \in Block /\ j \in Block /\ Height[c] \in Nat /\ Height[j] \in Nat BY <1>2, <3>4, <4>1, AncestorsAre, Heights
      <4>3. Height[c] <= Height[j] BY <3>1, <3>2, <4>2
      <4>4. c \in Ancestors[j] BY <1>2, <3>4, <4>1, <4>3, AncestorsChain
      <4>5. c \in Ancestors[b] BY <4>1, <4>4, AncestorsTrans
      <4> QED BY <1>d, <3>1, <3>2, <4>5
    <3> QED BY <3>3, <3>4
  <2> QED BY <2>4, <2>5, <2>6
<1>5. UNCHANGED <<chain, fault>> \/ Fault => UNCHANGED <<lastBlock, conf>> BY DEF chain, Fault
<1>6. Shrinks(b) \/ Fork(p, b, hdr) => UNCHANGED <<lastBlock, conf>> BY DEF Shrinks, Fork
<1>7. Existing(p, b, hdr) =>
        UNCHANGED <<lastBlock, conf>> \/ (lastBlock' = lastBlock /\ conf' = UpdateTransactions(conf, b) /\ b \in Ancestors[lastBlock])
  <2> SUFFICES ASSUME Existing(p, b, hdr), conf' # conf
               PROVE lastBlock' = lastBlock /\ conf' = UpdateTransactions(conf, b) /\ b \in Ancestors[lastBlock]
    BY DEF Existing
  <2> DEFINE at == IF Height[b] < Height[lastBlock] THEN AtHeight(Keep(b), lastBlock, Height[b]) ELSE lastBlock
  <2>1. lastBlock' = lastBlock /\ conf' = UpdateTransactions(conf, b) /\ at = b BY DEF Existing
  <2>2. b # NoBlock /\ Keep(b) \in SUBSET Block BY <1>2, TreeAssumption, KeepIs
  <2>3. at # NoBlock => at \in Ancestors[lastBlock] BY <1>2, <2>2, AtHeightIs, WalkIs, AncestorsAre
  <2> HIDE DEF at
  <2> QED BY <2>1, <2>2, <2>3
<1>8. Extend(p, b, hdr) => lastBlock' = b /\ conf' \in {conf, UpdateTransactions(conf, b)} BY DEF Extend, NewLast
<1>9. Reorganise(p, b, hdr) =>
        Fault \/ (lastBlock' = b /\ Join(Keep(b) \union {b}, b) # NoBlock
                  /\ conf' = Reorganised(Keep(b) \union {b}, FullWith(b, hdr), b))
  BY DEF Reorganise, NewLast
<1> QED BY <1>4, <1>5, <1>6, <1>7, <1>8, <1>9, <1>a, <1>b, <1>c, <1>d, HandleIs

LEMMA ConfirmedNext ==
  ASSUME ChainTypeOK, LastIsKept, ConfirmedOnMain, ChainNext
  PROVE  ConfirmedOnMain'
<1>1. ASSUME UNCHANGED <<lastBlock, conf, rewound, met>> PROVE ConfirmedOnMain' BY <1>1 DEF ConfirmedOnMain
<1>2. \A p \in Nodes : SaveBlocks(p) => UNCHANGED <<lastBlock, conf, rewound, met>> BY DEF SaveBlocks, chain
<1>3. FilterStep => UNCHANGED <<lastBlock, conf, rewound, met>> BY FilterIs
<1>4. ASSUME conf' = conf, rewound' = rewound \union Ancestors[lastBlock],
             met' \intersect Deeps = {} => met \intersect Deeps = {}
      PROVE  ConfirmedOnMain'
  BY <1>4 DEF ConfirmedOnMain
<1>5. ASSUME NEW b \in Block, Rescan(b) PROVE ConfirmedOnMain'
  <2>1. met' \intersect Deeps = {} => met \intersect Deeps = {} BY <1>5, RescanIs
  <2> QED BY <1>4, <1>5, <2>1, RescanIs
<1>6. ASSUME Restart PROVE ConfirmedOnMain'
  <2>1. conf' = conf /\ rewound' = rewound \union Ancestors[lastBlock] BY <1>6 DEF Restart
  <2>2. met' \intersect Deeps = {} => met \intersect Deeps = {} BY <1>6 DEF Restart, Deeps
  <2> QED BY <1>4, <2>1, <2>2
<1> QED BY <1>1, <1>2, <1>3, <1>5, <1>6, StepIs, ConfirmedRelayed

-----------------------------------------------------------------------------
(* What a restart loads.                                                    *)

LEMMA SaveOfFull ==
  ASSUME NEW bs, NEW fs, NEW b, NEW a, <<a, TRUE>> \in SaveOf(bs, fs, b)
  PROVE  a \in fs
<1>1. \A s \in SaveOf(bs, fs, b) : \E x : s = <<x, x \in fs>> BY DEF SaveOf
<1>2. PICK x : <<a, TRUE>> = <<x, x \in fs>> BY <1>1
<1>3. a = x /\ TRUE = (x \in fs) BY <1>2
<1> QED BY <1>3

(* What a block has saved came with its hashes if it says so.               *)
LEMMA SavingIs ==
  ASSUME ChainTypeOK, NEW p \in Nodes, NEW b \in Block, NEW hdr \in BOOLEAN, RelayedBlock(p, b, hdr)
  PROVE  Loadable' = Loadable /\ BeingSaved' \subseteq BeingSaved \union full'
<1>1. Loadable' = Loadable BY DEF RelayedBlock, Loadable, Stored
<1> SUFFICES BeingSaved' \subseteq BeingSaved \union full' BY <1>1
<1>2. saving \in [Nodes -> SUBSET (Block \X BOOLEAN)] BY DEF ChainTypeOK
<1>3. ASSUME NEW s, saving' = [saving EXCEPT ![p] = s], \A a \in Block : <<a, TRUE>> \in s => a \in full'
      PROVE  BeingSaved' \subseteq BeingSaved \union full'
  <2> SUFFICES ASSUME NEW a \in Block, NEW q \in Nodes, <<a, TRUE>> \in saving'[q]
               PROVE  a \in BeingSaved \union full'
    BY DEF BeingSaved
  <2>1. CASE q = p BY <1>2, <1>3, <2>1
  <2>2. CASE q # p
    <3>1. <<a, TRUE>> \in saving[q] BY <1>2, <1>3, <2>2
    <3> QED BY <3>1 DEF BeingSaved
  <2> QED BY <2>1, <2>2
<1>4. ASSUME saving' = saving PROVE BeingSaved' \subseteq BeingSaved \union full' BY <1>4 DEF BeingSaved
<1>5. ASSUME NEW bs, NEW fs, NEW save, NewLast(p, b, bs, fs, save), full' = fs,
             \A a \in Block : <<a, TRUE>> \in save => a \in fs
      PROVE  BeingSaved' \subseteq BeingSaved \union full'
  <2>1. PICK s \in {SaveOf(bs, fs, b), save} : saving' = [saving EXCEPT ![p] = s] BY <1>5, NewLastIs
  <2>2. \A a \in Block : <<a, TRUE>> \in s => a \in full'
    <3>1. \A a \in Block : <<a, TRUE>> \in SaveOf(bs, fs, b) => a \in fs BY SaveOfFull
    <3>2. s = SaveOf(bs, fs, b) \/ s = save BY <2>1
    <3> QED BY <1>5, <3>1, <3>2
  <2> QED BY <1>3, <2>1, <2>2
<1>6. ASSUME NEW os, Finish(p, b, os, {}) PROVE BeingSaved' \subseteq BeingSaved \union full'
  <2> DEFINE s == {}
  <2>1. saving' = [saving EXCEPT ![p] = s] BY <1>6 DEF Finish
  <2>2. \A a \in Block : <<a, TRUE>> \in s => a \in full' OBVIOUS
  <2> HIDE DEF s
  <2> QED BY <1>3, <2>1, <2>2
<1>7. CASE Ignored(p) \/ Orphan(p, b) \/ Refused(p, b) \/ Fault
  <2>1. saving' = saving BY <1>7 DEF Ignored, Orphan, Refused, Fault, Taken
  <2> QED BY <1>4, <2>1
<1>8. CASE DuringRescan(p, b) \/ Existing(p, b, hdr) \/ Fork(p, b, hdr)
  <2>1. \E os : Finish(p, b, os, {}) BY <1>8 DEF DuringRescan, Existing, Fork
  <2> QED BY <1>6, <2>1
<1>9. CASE Extend(p, b, hdr)
  <2> DEFINE save == IF IsTransition(b) THEN {<<b, ~ hdr>>} ELSE {}
  <2>1. \A a \in Block : <<a, TRUE>> \in save => a \in FullWith(b, hdr)
    <3> SUFFICES ASSUME NEW a \in Block, <<a, TRUE>> \in save PROVE a \in FullWith(b, hdr) OBVIOUS
    <3>1. <<a, TRUE>> = <<b, ~ hdr>> OBVIOUS
    <3>2. a = b /\ TRUE = ~ hdr BY <3>1
    <3> QED BY <3>2 DEF FullWith
  <2>2. NewLast(p, b, Keep(b) \union {b}, FullWith(b, hdr), save) /\ full' = FullWith(b, hdr) BY <1>9 DEF Extend
  <2> HIDE DEF save
  <2> QED BY <1>5, <2>1, <2>2
<1>10. CASE Reorganise(p, b, hdr) /\ ~ Fault
  <2> DEFINE save == {}
  <2>1. NewLast(p, b, Keep(b) \union {b}, FullWith(b, hdr), save) /\ full' = FullWith(b, hdr)
    BY <1>10 DEF Reorganise
  <2>2. \A a \in Block : <<a, TRUE>> \in save => a \in FullWith(b, hdr) OBVIOUS
  <2> HIDE DEF save
  <2> QED BY <1>5, <2>1, <2>2
<1>11. Handle(p, b, hdr) BY DEF RelayedBlock
<1> QED BY <1>1, <1>7, <1>8, <1>9, <1>10, <1>11, HandleIs DEF Shrinks

(* A header is of before the wallet's first key.                            *)
LEMMA HeaderIs ==
  ASSUME NEW p, NEW b \in Block, NEW hdr \in BOOLEAN, Handle(p, b, hdr)
  PROVE  (hdr => TxOf[b] = {}) \/ UNCHANGED chain
<1>1. CASE hdr /\ b \notin Early BY <1>1 DEF Handle, Ignored
<1>2. CASE ~ (hdr /\ b \notin Early) BY <1>2, KeyTimeAssumption
<1> QED BY <1>1, <1>2

(* A block that came with its hashes has them as long as it is kept.        *)
LEMMA FullStays ==
  ASSUME ChainTypeOK, NEW p \in Nodes, NEW b \in Block, NEW hdr \in BOOLEAN, Handle(p, b, hdr)
  PROVE  \A a \in blocks' : a \notin blocks \/ a \in full => a \in full' \/ TxOf[a] = {}
<1>1. ASSUME UNCHANGED chain PROVE \A a \in blocks' : a \notin blocks \/ a \in full => a \in full' \/ TxOf[a] = {}
  BY <1>1 DEF chain
<1>2. Fault => UNCHANGED chain BY DEF Fault
<1>3. CASE Shrinks(b) BY <1>3 DEF Shrinks, Keep
<1>4. CASE (hdr => TxOf[b] = {}) /\ blocks' \subseteq Keep(b) \union {b} /\ full' = FullWith(b, hdr)
  BY <1>4 DEF Keep, FullWith
<1>5. Existing(p, b, hdr) => blocks' \subseteq Keep(b) \union {b} /\ full' = FullWith(b, hdr) BY DEF Existing
<1>6. Fork(p, b, hdr) => blocks' \subseteq Keep(b) \union {b} /\ full' = FullWith(b, hdr) BY DEF Fork
<1>7. Extend(p, b, hdr) => blocks' \subseteq Keep(b) \union {b} /\ full' = FullWith(b, hdr) BY DEF Extend
<1>8. Reorganise(p, b, hdr) => Fault \/ (blocks' \subseteq Keep(b) \union {b} /\ full' = FullWith(b, hdr))
  BY DEF Reorganise
<1> QED BY <1>1, <1>2, <1>3, <1>4, <1>5, <1>6, <1>7, <1>8, HandleIs, HeaderIs

LEMMA HashesRelayed ==
  ASSUME ChainTypeOK, HashesKept, NEW p \in Nodes, NEW b \in Block, NEW hdr \in BOOLEAN, RelayedBlock(p, b, hdr)
  PROVE  HashesKept'
<1> SUFFICES ASSUME NEW a \in blocks', a \in Loadable' \union BeingSaved'
             PROVE  a \in full' \/ TxOf[a] = {}
  BY DEF HashesKept
<1>1. a \in full' \/ a \in Loadable \union BeingSaved BY SavingIs
<1>2. a \in full' \/ TxOf[a] = {} \/ a \notin blocks \/ a \in full BY <1>1 DEF HashesKept
<1>3. Handle(p, b, hdr) BY DEF RelayedBlock
<1> QED BY <1>2, <1>3, FullStays

LEMMA SavedIs ==
  ASSUME ChainTypeOK, NEW p \in Nodes, SaveBlocks(p)
  PROVE  /\ UNCHANGED <<blocks, full, lastBlock, conf, met>>
         /\ Loadable' \union BeingSaved' \subseteq Loadable \union BeingSaved
<1>1. saving \in [Nodes -> SUBSET (Block \X BOOLEAN)] BY DEF ChainTypeOK
<1>2. UNCHANGED <<blocks, full, lastBlock, conf, met>> /\ saving' = [saving EXCEPT ![p] = {}]
      /\ saved' = IF Cardinality(saving[p]) > 1 THEN saving[p] ELSE saved \union saving[p]
  BY DEF SaveBlocks, chain
<1>3. BeingSaved' \subseteq BeingSaved BY <1>1, <1>2 DEF BeingSaved
<1>4. ASSUME NEW a \in Loadable', <<a, TRUE>> \in saving[p] PROVE a \in BeingSaved
  BY <1>4 DEF BeingSaved, Loadable
<1>5. ASSUME NEW a \in Loadable', <<a, TRUE>> \notin saving[p] PROVE a \in Loadable
  <2>1. saved \subseteq saved' /\ <<a, TRUE>> \in saved BY <1>2, <1>5 DEF Loadable
  <2>2. Stored \subseteq Stored' BY <2>1 DEF Stored
  <2> QED BY <2>1, <2>2 DEF Loadable
<1> QED BY <1>2, <1>3, <1>4, <1>5

(* The next start loads of the last stored transition and what follows it.  *)
LEMMA LoadsKnown ==
  ASSUME ChainTypeOK, AllFit, Restart
  PROVE  /\ full' \subseteq Loadable /\ Loadable' = Loadable /\ BeingSaved' = {}
         /\ blocks' \intersect Loadable \subseteq full'
<1>1. PICK ld \in SUBSET Stored :
        /\ blocks' = Checkpoints \union ld /\ full' = {a \in ld : <<a, TRUE>> \in saved}
        /\ \/ ld = {} /\ LastTransitions = {}
           \/ \E b \in ld : b \in LastTransitions /\ \A x \in ld : Height[b] <= Height[x]
  BY RestartIs
<1>2. saved' = saved /\ saving' = [p \in Nodes |-> {}] BY DEF Restart
<1>3. Loadable' = Loadable /\ BeingSaved' = {} BY <1>2 DEF Loadable, BeingSaved, Stored
<1>4. Stored \subseteq Block /\ \A x \in Stored : Fitting(x) BY DEF Stored, ChainTypeOK, AllFit
<1>5. \A x \in Stored : Height[x] \in Nat BY <1>4, Heights
<1>6. full' \subseteq Loadable
  <2> SUFFICES ASSUME NEW a \in ld, <<a, TRUE>> \in saved PROVE a \in Loadable BY <1>1
  <2>1. PICK b \in ld : b \in LastTransitions /\ \A x \in ld : Height[b] <= Height[x] BY <1>1
  <2>2. \A s \in Stored : IsTransition(s) => Height[s] <= Height[b] BY <2>1 DEF LastTransitions
  <2>3. \A s \in Stored : IsTransition(s) => Height[s] <= Height[a] BY <1>5, <2>1, <2>2
  <2> QED BY <1>4, <2>3 DEF Loadable
<1>7. ASSUME NEW a \in blocks', a \in Loadable PROVE a \in full'
  <2>1. <<a, TRUE>> \in saved /\ a \in Stored BY <1>7 DEF Loadable, Stored
  <2>2. CASE a \in ld BY <1>1, <2>1, <2>2
  <2>3. CASE a \in Checkpoints
    <3>1. IsTransition(a) BY <2>3, TreeAssumption DEF IsTransition
    <3>2. a \in LastTransitions BY <1>7, <2>1, <3>1 DEF LastTransitions, Loadable
    <3>3. PICK b \in ld : b \in LastTransitions BY <1>1, <3>2
    <3>4. b \in Stored /\ Height[a] <= Height[b] /\ Height[b] <= Height[a]
      BY <2>1, <3>1, <3>2, <3>3 DEF LastTransitions
    <3>5. Height[a] = Height[b] BY <1>5, <2>1, <3>4
    <3>6. a = b BY <1>4, <2>3, <3>4, <3>5 DEF Fitting
    <3> QED BY <1>1, <2>1, <3>3, <3>6
  <2> QED BY <1>1, <1>7, <2>2, <2>3
<1> QED BY <1>3, <1>6, <1>7

LEMMA HashesNext ==
  ASSUME ChainTypeOK, AllFit, HashesKept, ChainNext
  PROVE  HashesKept'
<1>1. ASSUME UNCHANGED <<blocks, full, saved, saving>> PROVE HashesKept'
  BY <1>1 DEF HashesKept, Loadable, BeingSaved, Stored
<1>2. \A p \in Nodes : SaveBlocks(p) => HashesKept' BY SavedIs DEF HashesKept
<1>3. FilterStep => UNCHANGED <<blocks, full, saved, saving>> BY FilterIs
<1>4. \A b \in Block : Rescan(b) => UNCHANGED <<blocks, full, saved, saving>> BY DEF Rescan
<1>5. Restart => HashesKept' BY LoadsKnown DEF HashesKept
<1> QED BY <1>1, <1>2, <1>3, <1>4, <1>5, StepIs, HashesRelayed

LEMMA AncestorsRelayed ==
  ASSUME ChainTypeOK, LastIsKept, HashesKept, AncestorsConfirmed, NEW p \in Nodes, NEW b \in Block, NEW hdr \in BOOLEAN,
         RelayedBlock(p, b, hdr)
  PROVE  AncestorsConfirmed'
<1> SUFFICES ASSUME MainIsSure', NEW c \in Ancestors[lastBlock'], c \in Hashed', NEW t \in TxOf[c]
             PROVE  conf'[t] = Height[c]
  BY DEF AncestorsConfirmed
<1>0. c \in full' \/ c \in Hashed BY SavingIs DEF Hashed
<1>1. ~ Deep(b) /\ MainIsSure BY MetIs DEF MainIsSure, Deeps
<1>2. blocks \in SUBSET Block /\ lastBlock \in blocks /\ lastBlock \in Block /\ full \subseteq blocks
  BY DEF ChainTypeOK, LastIsKept
<1>3. ASSUME NEW d \in Ancestors[lastBlock], d \in Hashed, NEW u \in TxOf[d] PROVE conf[u] = Height[d]
  BY <1>1, <1>3 DEF AncestorsConfirmed
<1>4. Handle(p, b, hdr) /\ full \subseteq Hashed BY DEF RelayedBlock, Hashed
<1>5. c \in Block /\ t \in WalletTx
  <2>2. c \in Block
    <3>1. lastBlock' \in {lastBlock, b}
      BY <1>4, HandleIs DEF chain, Fault, Shrinks, Existing, Fork, Extend, Reorganise, NewLast
    <3> QED BY <1>2, <3>1, AncestorsAre
  <2> QED BY <2>2 DEF WalletTx
<1>6. FullWith(b, hdr) \subseteq full \union {b} /\ (hdr => b \notin FullWith(b, hdr)) BY DEF FullWith
<1>7. b \notin blocks \/ Prev[b] = lastBlock => (Linked(b) => b \notin Ancestors[lastBlock])
  BY <1>1, <1>2, NotBefore DEF Linked
<1>a. CASE lastBlock' = lastBlock /\ conf' = conf /\ full' \subseteq full BY <1>0, <1>3, <1>4, <1>a
<1>b. CASE lastBlock' = lastBlock /\ conf' = conf /\ full' \subseteq full \union {b} /\ b \notin Ancestors[lastBlock]
  BY <1>0, <1>3, <1>4, <1>b
<1>c. CASE /\ lastBlock' = lastBlock /\ conf' = UpdateTransactions(conf, b) /\ full' \subseteq full \union {b}
           /\ b \in Ancestors[lastBlock]
  <2>1. CASE c = b BY <1>5, <1>c, <2>1, ConfIs
  <2>2. CASE c # b
    <3>1. t \notin TxOf[b] BY <1>2, <1>c, <2>2, HasOnce
    <3>2. conf'[t] = conf[t] BY <1>5, <1>c, <3>1, ConfIs
    <3> QED BY <1>0, <1>3, <1>4, <1>c, <2>2, <3>2
  <2> QED BY <2>1, <2>2
<1>d. CASE (hdr => TxOf[b] = {}) /\ Linked(b) /\ Prev[b] = lastBlock /\ Extend(p, b, hdr)
  <2>1. lastBlock' = b /\ full' = FullWith(b, hdr) /\ conf' = IF hdr THEN conf ELSE UpdateTransactions(conf, b)
    BY <1>d DEF Extend, NewLast
  <2>2. Ancestors[b] = {b} \union Ancestors[lastBlock] BY <1>2, <1>d, AncestorsUnfold, TreeAssumption
  <2>3. CASE c = b
    <3>1. conf' = UpdateTransactions(conf, b) BY <1>d, <2>1, <2>3
    <3> QED BY <1>5, <2>3, <3>1, ConfIs
  <2>4. CASE c # b
    <3>1. c \in Ancestors[lastBlock] /\ c \in Hashed BY <1>0, <1>4, <1>6, <2>1, <2>2, <2>4
    <3>2. t \notin TxOf[b] BY <2>1, <2>2, <2>4, HasOnce
    <3>3. conf'[t] = conf[t] BY <1>5, <2>1, <3>2, ConfIs
    <3> QED BY <1>3, <3>1, <3>3
  <2> QED BY <2>3, <2>4
<1>e. CASE /\ Linked(b) /\ b \notin blocks /\ Height[b] > Height[lastBlock] /\ lastBlock' = b
           /\ Join(Keep(b) \union {b}, b) # NoBlock /\ blocks' = Keep(b) \union {b} /\ full' = FullWith(b, hdr)
           /\ conf' = Reorganised(Keep(b) \union {b}, FullWith(b, hdr), b)
  <2> DEFINE bs == Keep(b) \union {b}
             fs == FullWith(b, hdr)
             j == Join(bs, b)
             new == {a \in Walk(bs, b) \intersect fs : Height[a] > Height[j]}
  <2>1. Common(bs, b) # {} BY <1>1, <1>2, <1>e, JoinCommon DEF Linked
  <2>2. bs \in SUBSET Block BY <1>2, KeepIs
  <2>3. conf' = Reorganised(bs, fs, b) /\ full' = fs BY <1>e
  <2>4. /\ j \in Walk(bs, b) /\ j \in Walk(bs, lastBlock)
        /\ \/ \E a \in new : t \in TxOf[a] /\ Reorganised(bs, fs, b)[t] = Height[a]
           \/ /\ \A a \in new : t \notin TxOf[a]
              /\ Reorganised(bs, fs, b)[t] = IF conf[t] > Height[j] THEN TxUnconfirmed ELSE conf[t]
    <3>1. t \in WalletTx BY <1>5
    <3> HIDE DEF bs, fs, j, new
    <3> QED BY <2>1, <2>2, <3>1, ReorganisedIs DEF j, new
  <2>5. \A a \in new : a \in Walk(bs, b) OBVIOUS
  <2>6. \A a \in Walk(bs, b) : a \in fs /\ Height[a] > Height[j] => a \in new OBVIOUS
  <2>7. fs \subseteq full \union {b} BY <1>6
  <2>13. blocks' = bs /\ b \in bs BY <1>e
  <2> HIDE DEF bs, fs, j, new
  <2>8. c \in Ancestors[b] BY <1>e
  <2>9. j \in Block /\ j \in Ancestors[b] /\ j \in Ancestors[lastBlock] /\ Height[j] \in Nat /\ Height[c] \in Nat
    BY <1>2, <1>5, <2>2, <2>4, WalkIs, Heights
  <2>10. ASSUME NEW a \in new, t \in TxOf[a] PROVE a = c
    <3>1. a \in Ancestors[b] BY <2>2, <2>5, WalkIs
    <3> QED BY <2>8, <2>10, <3>1, HasOnce
  <2>11. CASE \E a \in new : t \in TxOf[a] /\ Reorganised(bs, fs, b)[t] = Height[a] BY <2>3, <2>10, <2>11
  <2>12. CASE /\ \A a \in new : t \notin TxOf[a]
              /\ Reorganised(bs, fs, b)[t] = IF conf[t] > Height[j] THEN TxUnconfirmed ELSE conf[t]
    <3>1. ~ (Height[c] > Height[j])
      <4> SUFFICES ASSUME Height[c] > Height[j] PROVE FALSE OBVIOUS
      <4>1. Height[j] <= Height[c] BY <2>9
      <4>2. c \in Walk(bs, b) BY <2>2, <2>4, <2>8, <4>1, WalkAbove
      <4>3. c \in blocks' BY <2>2, <2>13, <4>2, WalkIs
      <4>4. c \in fs
        <5>1. CASE c \in blocks
          <6>1. c \in full' \/ c \in full BY <1>0, <1>5, <5>1 DEF HashesKept, Hashed
          <6> QED BY <1>4, <2>3, <4>3, <6>1, FullStays
        <5>2. CASE c \notin blocks BY <1>4, <2>3, <4>3, <5>2, FullStays
        <5> QED BY <5>1, <5>2
      <4> QED BY <2>6, <2>12, <4>2, <4>4
    <3>2. Height[c] <= Height[j] BY <2>9, <3>1
    <3>3. c \in Ancestors[j] BY <2>8, <2>9, <3>2, AncestorsChain
    <3>4. c \in Ancestors[lastBlock] BY <1>2, <2>9, <3>3, AncestorsTrans
    <3>5. c # b
      <4>1. Height[c] <= Height[lastBlock] BY <1>2, <3>4, AncestorsLower
      <4>2. Height[b] \in Nat /\ Height[lastBlock] \in Nat BY <1>2, Heights
      <4> QED BY <1>e, <2>9, <4>1, <4>2
    <3>6. c \in Hashed BY <1>0, <1>4, <2>3, <2>7, <3>5
    <3>7. conf[t] = Height[c] BY <1>3, <3>4, <3>6
    <3> QED BY <2>3, <2>12, <3>1, <3>7
  <2> QED BY <2>4, <2>11, <2>12
<1>f. CASE Linked(b) /\ b \in blocks /\ Existing(p, b, hdr)
  <2> DEFINE at == IF Height[b] < Height[lastBlock] THEN AtHeight(Keep(b), lastBlock, Height[b]) ELSE lastBlock
  <2>1. /\ lastBlock' = lastBlock /\ full' = FullWith(b, hdr)
        /\ conf' = IF at = b /\ ~ hdr THEN UpdateTransactions(conf, b) ELSE conf
    BY <1>f DEF Existing
  <2>2. Keep(b) \in SUBSET Block /\ b # NoBlock BY <1>2, KeepIs, TreeAssumption
  <2>3. b \in Ancestors[lastBlock] => at = b
    <3> SUFFICES ASSUME b \in Ancestors[lastBlock] PROVE at = b OBVIOUS
    <3>1. b \in Walk(Keep(b), lastBlock) BY <1>1, <1>2, <1>f, NotBelow DEF Linked
    <3>2. AtHeight(Keep(b), lastBlock, Height[b]) = b BY <1>2, <2>2, <3>1, AtHeightIs
    <3>3. Height[b] <= Height[lastBlock] /\ (Height[b] = Height[lastBlock] => b = lastBlock) BY <1>2, AncestorsLower
    <3>4. Height[b] \in Nat /\ Height[lastBlock] \in Nat BY <1>2, Heights
    <3> QED BY <3>2, <3>3, <3>4
  <2>4. at # NoBlock => at \in Ancestors[lastBlock] BY <1>2, <2>2, AtHeightIs, WalkIs, AncestorsAre
  <2> HIDE DEF at
  <2>5. CASE hdr
    <3>1. full' \subseteq full BY <1>6, <2>1, <2>5
    <3> QED BY <1>a, <2>1, <2>5, <3>1
  <2>6. CASE ~ hdr /\ at = b BY <1>6, <1>c, <2>1, <2>2, <2>4, <2>6
  <2>7. CASE ~ hdr /\ at # b BY <1>6, <1>b, <2>1, <2>3, <2>7
  <2> QED BY <2>5, <2>6, <2>7
<1>8. UNCHANGED <<chain, fault>> \/ Fault => lastBlock' = lastBlock /\ conf' = conf /\ full' = full BY DEF chain, Fault
<1>9. Shrinks(b) => lastBlock' = lastBlock /\ conf' = conf /\ full' \subseteq full BY DEF Shrinks
<1>10. Fork(p, b, hdr) => lastBlock' = lastBlock /\ conf' = conf /\ full' \subseteq full \union {b} BY <1>6 DEF Fork
<1>11. Reorganise(p, b, hdr) =>
         Fault \/ (lastBlock' = b /\ Join(Keep(b) \union {b}, b) # NoBlock /\ blocks' = Keep(b) \union {b}
                   /\ full' = FullWith(b, hdr) /\ conf' = Reorganised(Keep(b) \union {b}, FullWith(b, hdr), b))
  BY DEF Reorganise, NewLast
<1>12. UNCHANGED chain => lastBlock' = lastBlock /\ conf' = conf /\ full' = full BY DEF chain
<1> QED BY <1>4, <1>7, <1>8, <1>9, <1>10, <1>11, <1>12, <1>a, <1>b, <1>d, <1>e, <1>f, HandleIs, HeaderIs

LEMMA AncestorsNext ==
  ASSUME ChainTypeOK, AllFit, LastIsKept, HashesKept, AncestorsConfirmed, ChainNext
  PROVE  AncestorsConfirmed'
<1>1. ASSUME UNCHANGED <<lastBlock, conf, met>>, Hashed' \subseteq Hashed PROVE AncestorsConfirmed'
  BY <1>1 DEF AncestorsConfirmed, MainIsSure
<1>2. UNCHANGED <<full, saved, saving>> => Hashed' = Hashed BY DEF Hashed, Loadable, BeingSaved, Stored
<1>3. FilterStep => UNCHANGED <<lastBlock, full, conf, met, saved, saving>> BY FilterIs
<1>6. \A p \in Nodes : SaveBlocks(p) => UNCHANGED <<lastBlock, conf, met>> /\ Hashed' \subseteq Hashed
  BY SavedIs DEF Hashed
<1>4. ASSUME NEW b \in Block, Rescan(b) PROVE AncestorsConfirmed'
  <2> SUFFICES ASSUME MainIsSure' PROVE Ancestors[b] \subseteq Ancestors[lastBlock]
    <3>1. MainIsSure' => MainIsSure BY <1>4, RescanIs DEF MainIsSure
    <3>2. lastBlock' = b /\ Hashed' = Hashed /\ conf' = conf BY <1>2, <1>4, RescanIs
    <3> QED BY <3>1, <3>2 DEF AncestorsConfirmed
  <2>1. b \in Ancestors[lastBlock] BY <1>4, RescanIs DEF MainIsSure
  <2> QED BY <2>1, AncestorsTrans DEF ChainTypeOK
<1>5. ASSUME Restart PROVE AncestorsConfirmed'
  <2> SUFFICES ASSUME MainIsSure' PROVE Ancestors[lastBlock'] \subseteq Ancestors[lastBlock] /\ MainIsSure
    <3>1. Hashed' \subseteq Hashed BY <1>5, LoadsKnown DEF Hashed
    <3>2. conf' = conf BY <1>5 DEF Restart
    <3> QED BY <3>1, <3>2 DEF AncestorsConfirmed
  <2>1. lastBlock' \in Ancestors[lastBlock] /\ MainIsSure
    <3>1. "stale start" \notin met' BY DEF MainIsSure
    <3> QED BY <1>5, <3>1 DEF Restart
  <2> QED BY <2>1, AncestorsTrans DEF ChainTypeOK
<1> QED BY <1>1, <1>2, <1>3, <1>4, <1>5, <1>6, StepIs, AncestorsRelayed

-----------------------------------------------------------------------------
(* The invariant holds.                                                     *)

LEMMA InitIs ==
  ASSUME ChainInit
  PROVE  ChainIInv
<1>1. /\ Start \in Checkpoints /\ Checkpoints \subseteq Block /\ \A x \in Checkpoints : Fitting(x) /\ IsTransition(x)
      /\ MaxRewinds \in Nat
  BY TreeAssumption DEF Fitting, IsTransition
<1>2. ChainTypeOK
  <2>1. conf \in [WalletTx -> Nat] BY UnconfirmedIs DEF ChainInit
  <2>2. rewinds \in 0..MaxRewinds
    <3>1. rewinds = 0 BY DEF ChainInit
    <3> QED BY <1>1, <3>1
  <2>3. estimated \in Nat
    <3>1. estimated = 0 BY DEF ChainInit
    <3> QED BY <3>1
  <2> QED BY <1>1, <2>1, <2>2, <2>3 DEF ChainInit, ChainTypeOK
<1>3. AllFit BY <1>1 DEF ChainInit, AllFit
<1>4. LastIsKept BY <1>1 DEF ChainInit, LastIsKept
<1>5. Rooted
  <2>1. \A c \in {Start} \union (Checkpoints \intersect Ancestors[Start]) : EndsRight(Checkpoints \union {}, c)
    <3>1. {} \in SUBSET Block /\ Start \in Checkpoints \union {} BY <1>1
    <3>2. \A x \in {} : IsTransition(x) \/ Prev[x] \in {} OBVIOUS
    <3> QED BY <3>1, <3>2, RootedLoaded
  <2>2. Checkpoints \union {} = Checkpoints OBVIOUS
  <2> QED BY <2>1, <2>2 DEF ChainInit, Rooted
<1>6. NothingHigher BY DEF ChainInit, NothingHigher
<1>7. ForksAreKept
  <2> SUFFICES ASSUME NEW x \in Checkpoints, Height[x] <= Height[Start], NEW a \in Ancestors[x], a \in Walk(Checkpoints, Start)
               PROVE  a \in Walk(Checkpoints, x)
    BY DEF ForksAreKept, MainChain, ChainInit
  <2> QED BY <1>1, CheckpointForks
<1>8. NoFault BY DEF ChainInit, NoFault
<1>9. ConfirmedOnMain
  <2>1. \A t \in WalletTx : conf[t] = TxUnconfirmed BY DEF ChainInit
  <2> QED BY <2>1 DEF ConfirmedOnMain
<1>10. HashesKept /\ AncestorsConfirmed
  <2>1. full = {} /\ Loadable = {} /\ BeingSaved = {} BY DEF ChainInit, Loadable, BeingSaved
  <2> QED BY <2>1 DEF HashesKept, AncestorsConfirmed, Hashed
<1> QED BY <1>2, <1>3, <1>4, <1>5, <1>6, <1>7, <1>8, <1>9, <1>10 DEF ChainIInv

LEMMA StaysIs ==
  ASSUME ChainIInv, UNCHANGED chainVars
  PROVE  ChainIInv'
<1>1. UNCHANGED <<blocks, full, lastBlock, conf, orphans, lastOrphan, estimated, filter, saved, saving, todo,
                  rewinds, rewound, met, fault>>
  BY DEF chainVars, chain
<1>2. ChainTypeOK' BY <1>1 DEF ChainIInv, ChainTypeOK
<1>3. AllFit' BY <1>1 DEF ChainIInv, AllFit, Fitting
<1>4. LastIsKept' BY <1>1 DEF ChainIInv, LastIsKept
<1>5. Rooted' BY <1>1 DEF ChainIInv, Rooted, Steady, EndsRight
<1>6. NothingHigher' BY <1>1 DEF ChainIInv, NothingHigher, Calm
<1>7. ForksAreKept' BY <1>1 DEF ChainIInv, ForksAreKept, Calm, MainChain, Walk
<1>8. NoFault' BY <1>1 DEF ChainIInv, NoFault
<1>9. ConfirmedOnMain' BY <1>1 DEF ChainIInv, ConfirmedOnMain
<1>10. HashesKept' /\ AncestorsConfirmed'
  <2>1. UNCHANGED <<Loadable, BeingSaved, Hashed>> BY <1>1 DEF Loadable, BeingSaved, Hashed, Stored
  <2> QED BY <1>1, <2>1 DEF ChainIInv, HashesKept, AncestorsConfirmed, MainIsSure
<1> QED BY <1>2, <1>3, <1>4, <1>5, <1>6, <1>7, <1>8, <1>9, <1>10 DEF ChainIInv

LEMMA NextIs ==
  ASSUME ChainIInv, [ChainNext]_chainVars
  PROVE  ChainIInv'
<1>1. CASE UNCHANGED chainVars BY <1>1, StaysIs
<1>2. CASE ChainNext
  <2>1. ChainTypeOK' /\ AllFit' /\ LastIsKept' BY <1>2, TypedNext DEF ChainIInv
  <2>2. Rooted' BY <1>2, RootedNext DEF ChainIInv
  <2>3. NothingHigher' /\ ForksAreKept' /\ NoFault' BY <1>2, CalmNext DEF ChainIInv
  <2>4. ConfirmedOnMain' BY <1>2, ConfirmedNext DEF ChainIInv
  <2>5. HashesKept' /\ AncestorsConfirmed' BY <1>2, HashesNext, AncestorsNext DEF ChainIInv
  <2> QED BY <2>1, <2>2, <2>3, <2>4, <2>5 DEF ChainIInv
<1> QED BY <1>1, <1>2

(* The invariant of the chain, for any tree of blocks, checkpoints and      *)
(* peers, and any interval between transitions.                             *)
THEOREM ChainInvariant == ChainSpec => []ChainIInv
<1>1. ChainInit => ChainIInv BY InitIs
<1>2. ChainIInv /\ [ChainNext]_chainVars => ChainIInv' BY NextIs
<1> QED BY <1>1, <1>2, PTL DEF ChainSpec

(* The manager's sets and fields keep their types, and there is at most one *)
(* orphan for each previous block (ChainTypeOK).                            *)
THEOREM ChainTypeCorrect == ChainSpec => []ChainTypeOK
<1>1. ChainIInv => ChainTypeOK BY DEF ChainIInv
<1> QED BY <1>1, ChainInvariant, PTL

(* _peerRelayedBlock's walks end at no NULL and no freed block, and enough  *)
(* of the chain is left to check the block after lastBlock (EnoughIsKept).  *)
THEOREM EnoughStaysKept == ChainSpec => []EnoughIsKept
<1>1. ChainIInv => EnoughIsKept BY NextValid DEF ChainIInv, EnoughIsKept
<1> QED BY <1>1, ChainInvariant, PTL

(* What the wallet was told is confirmed is so on the main chain, or was on *)
(* one that a rescan or restart left (ConfirmedOnMain).                     *)
THEOREM ConfirmedStaysOnMain == ChainSpec => []ConfirmedOnMain
<1>1. ChainIInv => ConfirmedOnMain BY DEF ChainIInv
<1> QED BY <1>1, ChainInvariant, PTL

(* The heights the wallet is told are those of the main chain, both ways    *)
(* (HeightsAreRight).                                                       *)
THEOREM HeightsStayRight == ChainSpec => []HeightsAreRight
<1>1. ASSUME ChainIInv PROVE HeightsAreRight
  <2>1. MainChain \subseteq Ancestors[lastBlock] BY <1>1, WalkIs DEF ChainIInv, ChainTypeOK, MainChain
  <2>2. MainIsConfirmed BY <1>1, <2>1 DEF ChainIInv, AncestorsConfirmed, Hashed, MainIsConfirmed
  <2> QED BY <1>1, <2>2 DEF ChainIInv, HeightsAreRight
<1>2. ChainIInv => HeightsAreRight BY <1>1
<1> QED BY <1>2, ChainInvariant, PTL
=============================================================================
