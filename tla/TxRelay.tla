------------------------------- MODULE TxRelay -------------------------------
(***************************************************************************)
(* The transactions the peer manager publishes, and who has them:           *)
(* BRPeerManager.c.                                                         *)
(*                                                                         *)
(* Every handler runs under the manager's lock in the thread of its peer    *)
(* and is one step, with the callback it calls after the unlock.  What is   *)
(* sent to a peer waits in a queue; a peer answers in order, as it likes,   *)
(* or not at all.  All transactions are the wallet's; the wallet is the     *)
(* subject of CoreWallet, the choice of peers that of PeerPool.             *)
(***************************************************************************)
EXTENDS Naturals, Sequences, SequencesExt, FiniteSets

CONSTANTS
  Peers,
  Tx,
  Inputs,      \* the transactions whose outputs a transaction spends
  Held,        \* the unconfirmed transactions the wallet starts with
  Sent,        \* those that spend an output of the wallet
  Calls,       \* the calls of BRPeerManagerPublishTx
  Payments,    \* what they publish
  MaxConnect,  \* maxConnectCount
  MaxLinks,    \* bound on the connections that are made
  MaxNews,     \* bound on what the peers say without being asked, and on the calls of
               \* BRPeerManagerConnect that dial nobody
  None

ASSUME PeersAssumption == None \notin Peers \cup Tx \cup Calls /\ IsFiniteSet(Peers)
ASSUME TxAssumption    == IsFiniteSet(Tx) /\ Sent \cup Held \cup Payments \subseteq Tx /\ Inputs \in [Tx -> SUBSET Tx]
ASSUME LimitAssumption == MaxConnect \in Nat \ {0} /\ MaxLinks \in Nat /\ MaxNews \in Nat

VARIABLES
  link,      \* connectedPeers, and how far each is
  download,  \* downloadPeer
  syncing,   \* syncStartHeight > 0
  behind,    \* lastBlock is below estimatedHeight
  timer,     \* the peers with a disconnectTime
  asked,     \* what was sent to a peer and waits for an answer, oldest first
  synced,    \* the peers with PEER_FLAG_SYNCED
  published, \* publishedTx
  callback,  \* their callbacks
  relays,    \* txRelays
  requests,  \* txRequests
  wallet,    \* what the wallet does with each transaction
  links,     \* connections made so far
  news,      \* what MaxNews bounds, so far
  made,      \* calls of BRPeerManagerPublishTx so far
  answered,  \* history: how often each call's callback was called
  told,      \* history: the published transactions each peer was told of
  claims     \* history: the transactions a peer was asked for and has not answered, or said
             \* last, outside a sync, that it has

peers   == <<link, download, syncing, behind, links, made>>
talk    == <<timer, asked, synced, news>>
lists   == <<published, callback, relays, requests, wallet>>
history == <<answered, told, claims>>
vars    == <<peers, talk, lists, history>>

Up == {p \in Peers : link[p] = "up"}

Ask == [ask : {"data"}, tx : Tx]
       \cup [ask : {"load", "mempool", "memdone", "getdone", "invdone"}, tx : {None}]

Ping(done) == <<[ask |-> done, tx |-> None]>>

Init ==
  /\ link = [p \in Peers |-> "none"] /\ download = None
  /\ syncing = FALSE /\ behind = TRUE
  /\ timer = {} /\ asked = [p \in Peers |-> <<>>] /\ synced = {}
  /\ published = {} /\ callback = [t \in Tx |-> None]
  /\ relays = [t \in Tx |-> {}] /\ requests = [t \in Tx |-> {}]
  /\ wallet = [t \in Tx |-> IF t \in Held THEN "unconfirmed" ELSE "unknown"]
  /\ links = 0 /\ news = 0 /\ made = {}
  /\ answered = [c \in Calls |-> 0]
  /\ told = [p \in Peers |-> {}] /\ claims = [p \in Peers |-> {}]

-----------------------------------------------------------------------------
(* The lists.                                                               *)

Pending == {t \in Tx : callback[t] # None}

\* BRWalletTxUnconfirmedBefore.
Unconfirmed == {t \in Tx : wallet[t] = "unconfirmed"}

AddPeer(list, t, p)    == [list EXCEPT ![t] = @ \cup {p}]
RemovePeer(list, t, p) == [list EXCEPT ![t] = @ \ {p}]

\* BRWalletRegisterTransaction: what is in allTx stays as it is, also what was
\* removed from the list.
Register(t) == [wallet EXCEPT ![t] = IF @ = "unknown" THEN "unconfirmed" ELSE @]

\* A transaction that can be put on the list, w being the wallet.
Fits(u, w) == u \notin published /\ w[u] # "confirmed"

\* What belongs into the list when S is in it: the inputs that are unconfirmed and fit.
Inward(S, w) == {u \in Tx : Fits(u, w) /\ w[u] # "unknown" /\ \E s \in S : u \in Inputs[s]}

\* _BRPeerManagerAddTxToPublishList: an unconfirmed transaction that is not listed is
\* added with those among its inputs, and theirs.
ToPublish(t, w) ==
  {u \in Tx : Fits(t, w) /\ \A S \in SUBSET Tx : t \in S /\ Inward(S, w) \subseteq S => u \in S}

\* Mutant: the callback stays in the list.
AnswerKept(t) ==
  /\ UNCHANGED callback
  /\ answered' = IF callback[t] = None THEN answered ELSE [answered EXCEPT ![callback[t]] = @ + 1]

\* The callback of t is taken out of the list and called.
Answer(t) ==
  /\ callback' = [callback EXCEPT ![t] = None]
  /\ answered' = IF callback[t] = None THEN answered ELSE [answered EXCEPT ![callback[t]] = @ + 1]

\* Mutant: other pending callbacks are not looked for.
TimerAlone(p, t) == IF ~syncing \/ p # download THEN timer \ {p} ELSE timer

\* p has answered for t: its publish timeout ends, unless another callback is pending.
TimerFor(p, t) ==
  IF Pending \subseteq {t} /\ (~syncing \/ p # download) THEN timer \ {p} ELSE timer

\* The sync timeout is set anew by a wallet transaction of the download peer.
Rescheduled(p, on) == IF syncing /\ p = download THEN on \cup {p} ELSE on

-----------------------------------------------------------------------------
(* What is sent.                                                            *)

\* _BRPeerManagerPublishPendingTx: the peers of S are told of the transactions pub,
\* under a timeout if a callback of cb waits.
PublishPending(S, pub, cb) ==
  /\ told' = [p \in Peers |-> IF p \in S THEN told[p] \cup pub ELSE told[p]]
  /\ timer' = IF \E t \in Tx : cb[t] # None THEN timer \cup S ELSE timer

\* BRPeerSendMempool: one request at a time.
Mempool(q) == IF \E i \in DOMAIN q : q[i].ask = "mempool" THEN q ELSE q \o Ping("mempool")

\* _BRPeerManagerLoadMempools: the peers of S whose filter is good are asked for
\* their mempool, the others get a filter and the published transactions first.
LoadMempools(S, good) ==
  asked' = [p \in Peers |-> CASE p \in S \ good -> asked[p] \o Ping("load")
                              [] p \in S \cap good -> Mempool(asked[p])
                              [] OTHER -> asked[p]]

\* _BRPeerManagerRequestUnrelayedTx, q being what p was sent: p is asked for what it
\* has not relayed and was not asked for.
RequestUnrelayed(p, q) ==
  LET missing == {t \in Unconfirmed : p \notin relays[t] \cup requests[t]}
      data    == SetToSeq({[ask |-> "data", tx |-> t] : t \in missing})
      ping    == IF missing = {} \/ p \in synced THEN <<>> ELSE Ping("getdone")
  IN  /\ requests' = [t \in Tx |-> IF t \in missing THEN requests[t] \cup {p} ELSE requests[t]]
      /\ claims' = [claims EXCEPT ![p] = @ \cup missing]
      /\ asked' = [asked EXCEPT ![p] = q \o data \o ping]
      /\ synced' = IF missing = {} THEN synced \cup {p} ELSE synced

-----------------------------------------------------------------------------
(* Connections.                                                             *)

\* BRPeerManagerConnect dials the peers of S, or none.  A sync starts without a download
\* peer and while it is behind, and ends when nobody is connected.
Connect(S) ==
  /\ links + Cardinality(S) <= MaxLinks
  /\ S = {} => news < MaxNews
  /\ \A p \in S : link[p] = "none"
  /\ link' = [p \in Peers |-> IF p \in S THEN "dialing" ELSE link[p]]
  /\ links' = links + Cardinality(S)
  /\ news' = IF S = {} THEN news + 1 ELSE news
  /\ syncing' = (link' # [p \in Peers |-> "none"] /\ (syncing \/ download = None \/ behind))
  /\ UNCHANGED <<download, behind, made, timer, asked, synced, lists, history>>

\* _peerConnected beside a download peer, which may be behind: p gets its filter and
\* the pending transactions if lastBlock has reached the height that p reports itself.
ConnectBeside(p) ==
  /\ link[p] = "dialing" /\ download # None
  /\ link' = [link EXCEPT ![p] = "up"]
  /\ \/ /\ PublishPending({p}, published, callback)
        /\ asked' = [asked EXCEPT ![p] = @ \o Ping("load")]
     \/ behind /\ UNCHANGED <<asked, timer, told>>
  /\ UNCHANGED <<download, syncing, behind, links, made, news, synced, lists, answered, claims>>

\* _peerConnected: p, or another that is connected, becomes the download peer.  There
\* are blocks to download, or all mempools are asked for.
ConnectDownload(p) ==
  /\ link[p] = "dialing" /\ download = None
  /\ link' = [link EXCEPT ![p] = "up"]
  /\ \E best \in Up \cup {p} :
       /\ download' = best
       /\ \/ /\ behind' = TRUE
             /\ told' = [told EXCEPT ![best] = @ \cup published]
             /\ timer' = timer \cup {best}
             /\ UNCHANGED asked
          \/ /\ behind' = FALSE
             /\ PublishPending(Up \cup {p}, published, callback)
             /\ LoadMempools(Up \cup {p}, {best})
  /\ UNCHANGED <<syncing, links, made, news, synced, lists, answered, claims>>

\* _peerConnected: p reports a longer chain than the download peer, which is dropped.
ReplaceDownload(p) ==
  /\ link[p] = "dialing" /\ download # None
  /\ link' = [link EXCEPT ![p] = "up", ![download] = IF @ = "up" THEN "lost" ELSE @]
  /\ \E best \in (Up \cup {p}) \ {download} :
       /\ download' = best /\ behind' = TRUE
       /\ told' = [told EXCEPT ![best] = @ \cup published]
       /\ timer' = timer \cup {best}
  /\ UNCHANGED <<asked, syncing, links, made, news, synced, lists, answered, claims>>

\* _peerRelayedBlock: the chain is complete.
ChainComplete ==
  /\ Up # {} /\ behind
  /\ behind' = FALSE
  /\ \E good \in SUBSET (Up \cap {download}) :
       /\ LoadMempools(Up, good)
       /\ PublishPending(Up \ good, published, callback)
  /\ UNCHANGED <<link, download, syncing, links, made, news, synced, lists, answered, claims>>

\* A block confirms t, after what it spends from.
Confirm(t) ==
  /\ t \in Unconfirmed /\ Up # {}
  /\ \A u \in Inputs[t] : wallet[u] # "unconfirmed"
  /\ wallet' = [wallet EXCEPT ![t] = "confirmed"]
  /\ UNCHANGED <<peers, talk, published, callback, relays, requests, history>>

\* The peer's time is up, or its link fails or is closed.
Lose(p) ==
  /\ \/ /\ link[p] = "dialing" \/ p \in timer
        /\ link' = [link EXCEPT ![p] = "timedout"]
     \/ link' = [link EXCEPT ![p] = "lost"]
  /\ link[p] \in {"dialing", "up"}
  /\ UNCHANGED <<download, syncing, behind, links, made, talk, lists, history>>

\* Mutant: the relays of other peers' transactions only.
RelaysKept(p) == relays

\* The relays once p is gone.
RelaysWithout(p) == [t \in Tx |-> relays[t] \ {p}]

\* _peerDisconnected: the callbacks that wait are told if the peer timed out, unless
\* it may be the sync that did, or if there is no peer left to try.
PeerDisconnected(p) ==
  /\ link[p] \in {"timedout", "lost"} /\ asked[p] = <<>>
  /\ link' = [link EXCEPT ![p] = "none"]
  /\ download' = IF p = download THEN None ELSE download
  /\ \E final \in BOOLEAN :
       LET late  == /\ link[p] = "timedout"
                    /\ \/ p # download \/ ~syncing
                       \/ \A q \in Peers \ {p} : link[q] = "none"
       IN  /\ final => download' = None
           /\ syncing' = (syncing /\ ~final)
           /\ IF late \/ final
                THEN /\ callback' = [t \in Tx |-> None]
                     /\ answered' = [c \in Calls |-> IF \E t \in Tx : callback[t] = c
                                                       THEN answered[c] + 1 ELSE answered[c]]
                ELSE UNCHANGED <<callback, answered>>
  /\ relays' = RelaysWithout(p)
  /\ timer' = timer \ {p} /\ synced' = synced \ {p}
  /\ told' = [told EXCEPT ![p] = {}] /\ claims' = [claims EXCEPT ![p] = {}]
  /\ UNCHANGED <<behind, links, made, news, asked, published, requests, wallet>>

-----------------------------------------------------------------------------
(* What a peer says of t.                                                   *)

\* "we only need to track this after syncing is complete": what is said during a sync
\* counts for nothing.
Says(p, t)   == claims' = [claims EXCEPT ![p] = IF syncing THEN @ \ {t} ELSE @ \cup {t}]
Unsays(p, t) == claims' = [claims EXCEPT ![p] = @ \ {t}]

\* _peerRelayedTx: the wallet takes t, publishes it if it is a payment of its own, and
\* counts p as one that has it, except while it syncs.
RelayedTx(p, t) ==
  /\ Answer(t)
  /\ timer' = Rescheduled(p, TimerFor(p, t))
  /\ wallet' = Register(t)
  /\ published' = published \cup (IF t \in Sent THEN ToPublish(t, wallet') ELSE {})
  /\ relays' = IF t \in published \/ ~syncing THEN AddPeer(relays, t, p) ELSE relays
  /\ requests' = RemovePeer(requests, t, p)
  /\ Says(p, t)
  /\ UNCHANGED <<peers, synced, told>>

Known(t) == wallet[t] # "unknown" \/ t \in published

\* _peerHasTx: p announces what it was told of or asked for before.
HasTx(p, t) ==
  /\ Answer(t)
  /\ timer' = IF Known(t) THEN Rescheduled(p, TimerFor(p, t)) ELSE TimerFor(p, t)
  /\ wallet' = IF Known(t) THEN Register(t) ELSE wallet
  /\ relays' = IF t \in published \/ (Known(t) /\ ~syncing) THEN AddPeer(relays, t, p) ELSE relays
  /\ requests' = IF Known(t) THEN RemovePeer(requests, t, p) ELSE requests
  /\ IF Known(t) THEN Says(p, t) ELSE UNCHANGED claims
  /\ UNCHANGED <<peers, synced, published, told>>

\* _peerDataNotfound.
NotFound(p, t) ==
  /\ relays' = RemovePeer(relays, t, p)
  /\ requests' = RemovePeer(requests, t, p)
  /\ Unsays(p, t)
  /\ UNCHANGED <<peers, timer, synced, published, callback, wallet, answered, told>>

\* _peerRejectedTx: a peer that rejects a payment without unconfirmed inputs for
\* anything but a double spend is dropped.
RejectedTx(p, t) ==
  /\ requests' = RemovePeer(requests, t, p)
  /\ relays' = IF wallet[t] = "unknown" THEN relays ELSE RemovePeer(relays, t, p)
  /\ \/ UNCHANGED link
     \/ /\ wallet[t] # "unknown" /\ t \in Sent
        /\ \A u \in Inputs[t] : wallet[u] \in {"unknown", "confirmed"}
        /\ link' = [link EXCEPT ![p] = "lost"]
  /\ Unsays(p, t)
  /\ UNCHANGED <<download, syncing, behind, links, made, timer, synced, published, callback,
                 wallet, answered, told>>

\* _peerRequestedTx: p asks for t, and will have it.
RequestedTx(p, t) ==
  /\ Answer(t)
  /\ timer' = TimerFor(p, t)
  /\ relays' = AddPeer(relays, t, p)
  /\ wallet' = IF t \in published THEN Register(t) ELSE wallet
  /\ UNCHANGED <<peers, synced, published, requests, told, claims>>

-----------------------------------------------------------------------------
(* What was sent is answered.                                               *)

\* Mutant: transactions are removed although a peer may still relay them.
DroppedUnasked == {t \in Unconfirmed : callback[t] = None /\ relays[t] = {}}

\* Unconfirmed transactions that no peer has relayed or is asked for, and that are not
\* being published.
Dropped == {t \in Unconfirmed : callback[t] = None /\ relays[t] = {} /\ requests[t] = {}}

\* BRWalletRemoveTransaction: dependent transactions go too.
Outward(S) == {t \in Unconfirmed : Inputs[t] \cap S # {}}

WithDependents(S) == {t \in Tx : \A U \in SUBSET Tx : S \cup Outward(U) \subseteq U => t \in U}

\* _requestUnrelayedTxGetdataDone: once enough peers are connected and all of them have
\* relayed their mempools, what none of them has is removed.
GetdataDone(done) ==
  /\ synced' = synced \cup done
  /\ wallet' =
       IF Cardinality(Up) >= MaxConnect /\ {p \in Peers : link[p] # "none"} \subseteq synced'
         THEN [t \in Tx |-> IF t \in WithDependents(Dropped) THEN "removed" ELSE wallet[t]]
         ELSE wallet
  /\ UNCHANGED <<requests, syncing, timer>>

\* _BRPeerManagerSyncStopped: the download peer's timeout ends, unless a callback waits.
SyncStopped ==
  /\ syncing' = FALSE
  /\ timer' = IF Pending = {} THEN timer \ {download} ELSE timer

Waits(p, ask) == asked[p] # <<>> /\ Head(asked[p]).ask = ask

Pop(p) == asked' = [asked EXCEPT ![p] = Tail(@)]

\* The answer to a getdata: the transaction, notfound, or nothing.
AnswerData(p) ==
  /\ Waits(p, "data") /\ Pop(p)
  /\ LET t == Head(asked[p]).tx IN
       \/ RelayedTx(p, t)
       \/ NotFound(p, t)
       \/ UNCHANGED <<peers, timer, synced, lists, history>>

\* _loadBloomFilterDone(1).
AnswerLoad(p) ==
  /\ Waits(p, "load")
  /\ asked' = [asked EXCEPT ![p] = Mempool(Tail(@))]
  /\ UNCHANGED <<peers, timer, synced, lists, history>>

\* The mempool was answered, or the time for it is up: a ping follows.
AnswerMempool(p) ==
  /\ Waits(p, "mempool")
  /\ asked' = [asked EXCEPT ![p] = Tail(@) \o Ping("memdone")]
  /\ UNCHANGED <<peers, timer, synced, lists, history>>

\* _mempoolDone(1).
AnswerMempoolDone(p) ==
  /\ Waits(p, "memdone")
  /\ IF syncing THEN SyncStopped ELSE UNCHANGED <<syncing, timer>>
  /\ RequestUnrelayed(p, Tail(asked[p]))
  /\ UNCHANGED <<link, download, behind, links, made, published, callback, relays, wallet,
                 answered, told>>

\* _requestUnrelayedTxGetdataDone(1).
AnswerGetdataDone(p) ==
  /\ Waits(p, "getdone") /\ Pop(p)
  /\ GetdataDone({p})
  /\ UNCHANGED <<link, download, behind, links, made, published, callback, relays, history>>

\* _publishTxInvDone, whatever came of the inv.
InvDone(p) ==
  /\ Waits(p, "invdone")
  /\ RequestUnrelayed(p, Tail(asked[p]))
  /\ UNCHANGED <<peers, timer, published, callback, relays, wallet, answered, told>>

Answers(p) ==
  /\ p \in Up /\ UNCHANGED news
  /\ \/ AnswerData(p) \/ AnswerLoad(p) \/ AnswerMempool(p) \/ AnswerMempoolDone(p)
     \/ AnswerGetdataDone(p) \/ InvDone(p)

\* What a lost peer did not answer: its callbacks are called with 0.
Drain(p) ==
  /\ link[p] \in {"timedout", "lost"} /\ UNCHANGED news
  /\ \/ /\ \E ask \in {"data", "mempool", "memdone"} : Waits(p, ask)
        /\ Pop(p)
        /\ UNCHANGED <<peers, timer, synced, lists, history>>
     \/ /\ Waits(p, "load") /\ Pop(p)
        /\ IF p = download THEN SyncStopped ELSE UNCHANGED <<syncing, timer>>
        /\ UNCHANGED <<link, download, behind, links, made, synced, lists, history>>
     \/ /\ Waits(p, "getdone") /\ Pop(p)
        /\ GetdataDone({})
        /\ UNCHANGED <<link, download, behind, links, made, published, callback, relays, history>>
     \/ InvDone(p)

\* What a peer says without being asked.
Speaks(p) ==
  /\ p \in Up /\ news < MaxNews /\ news' = news + 1
  /\ \E t \in Tx : RelayedTx(p, t) \/ HasTx(p, t) \/ RequestedTx(p, t) \/ RejectedTx(p, t)
  /\ UNCHANGED asked

-----------------------------------------------------------------------------
(* The application.                                                         *)

\* BRPeerManagerPublishTx without a connection, and none to be had.
PublishRefused(c, t) ==
  /\ download = None
  /\ answered' = [answered EXCEPT ![c] = @ + 1]
  /\ UNCHANGED <<link, download, syncing, behind, links, talk, lists, told, claims>>

\* BRPeerManagerPublishTx: the download peer is left out if there is another, to see
\* whether the transaction comes back from it.
PublishListed(c, t) ==
  LET new   == ToPublish(t, wallet)
      first == IF Cardinality(Up) = 1 THEN Up ELSE Up \ {download}
  IN  /\ published' = published \cup new
      /\ callback' = IF t \in new THEN [callback EXCEPT ![t] = c] ELSE callback
      /\ PublishPending(first, published', callback')
      /\ asked' = [p \in Peers |-> IF p \in first THEN asked[p] \o Ping("invdone") ELSE asked[p]]
      /\ UNCHANGED <<link, download, syncing, behind, links, news, synced, relays, requests, wallet,
                     answered, claims>>

PublishTx(c, t) ==
  /\ c \notin made /\ made' = made \cup {c}
  /\ PublishRefused(c, t) \/ PublishListed(c, t)

Next ==
  \/ \E S \in SUBSET Peers : Connect(S)
  \/ \E p \in Peers :
       \/ ConnectBeside(p) \/ ConnectDownload(p) \/ ReplaceDownload(p)
       \/ Lose(p) \/ PeerDisconnected(p)
       \/ Answers(p) \/ Drain(p) \/ Speaks(p)
  \/ ChainComplete
  \/ \E t \in Tx : Confirm(t)
  \/ \E c \in Calls, t \in Payments : PublishTx(c, t)

Spec == Init /\ [][Next]_vars

-----------------------------------------------------------------------------
(* Properties                                                              *)

\* The variables have the values the code gives them; "number of connected peers that
\* have relayed the given unconfirmed transaction": only connected peers are counted.
TypeOK ==
  /\ \A t \in Tx : \A p \in relays[t] : link[p] # "none"
  /\ link \in [Peers -> {"none", "dialing", "up", "timedout", "lost"}]
  /\ download \in Peers \cup {None} /\ syncing \in BOOLEAN /\ behind \in BOOLEAN
  /\ timer \subseteq Peers /\ asked \in [Peers -> Seq(Ask)] /\ synced \subseteq Peers
  /\ published \subseteq Tx /\ callback \in [Tx -> Calls \cup {None}]
  /\ relays \in [Tx -> SUBSET Peers] /\ requests \in [Tx -> SUBSET Peers]
  /\ wallet \in [Tx -> {"unknown", "unconfirmed", "removed", "confirmed"}]
  /\ links \in 0..MaxLinks /\ news \in 0..MaxNews /\ made \subseteq Calls
  /\ answered \in [Calls -> Nat] /\ told \in [Peers -> SUBSET Tx] /\ claims \in [Peers -> SUBSET Tx]

\* The callback of a published transaction is called once at most, whichever peers
\* request, relay or announce it and however many of them time out, and a callback
\* that still waits was not called.
CallbackOnce ==
  /\ \A c \in Calls : answered[c] <= 1
  /\ \A t \in Tx : callback[t] # None => callback[t] \in made /\ answered[callback[t]] = 0

\* As long as a callback waits, every peer that was told of its transaction is under
\* a timeout, so the callback is told of a failure in the end.
AnnouncedIsTimed == \A p \in Up : \A t \in told[p] : callback[t] # None => p \in timer

\* "don't remove transactions until ... all peers have finished relaying their
\* mempools": a transaction goes only when no connected peer was asked for it and has
\* not answered, or last said outside a sync that it has it; or with an input that goes.
RemovedIsUnclaimed ==
  [][\A t \in Tx : wallet[t] = "unconfirmed" /\ wallet'[t] = "removed"
       => \/ \A p \in Up : t \notin claims[p]
          \/ \E u \in Inputs[t] : wallet[u] # "removed" /\ wallet'[u] = "removed"]_vars
=============================================================================
