------------------------------ MODULE EthNode ------------------------------
(***************************************************************************)
(* The Ethereum light node (BREthereumLightNode*.c, BREthereumWallet.c,     *)
(* BREthereumTransaction.c, BREthereumAccount.c): the thread that polls a   *)
(* server, the answers that arrive in threads of the client, the user who   *)
(* creates, signs and submits payments, and the listener that is told.      *)
(*                                                                          *)
(* node->lock protects `transactions' and the wallet, so what runs under it *)
(* is one step.  Signing and the address's nonce are not protected: a       *)
(* signature takes three steps and an announced nonce two.                  *)
(***************************************************************************)
EXTENDS Integers, Sequences, FiniteSetsExt, EventHandler

CONSTANTS
  Drafts,      \* payments the user of this node may make
  Others,      \* payments from the same account of another device or an earlier process
  Incoming,    \* payments to the account
  MaxChain,    \* bound: transactions mined
  Loose,       \* bound: what reorganisations may take back, from each place once
  MaxCalls,    \* bound: calls of lightNodeConnect and lightNodeDisconnect
  NoNonce      \* TRANSACTION_NONCE_IS_NOT_ASSIGNED, the largest number of its type

ASSUME NamesAssumption ==
  Drafts \cap Others = {} /\ (Drafts \cup Others) \cap Incoming = {}
ASSUME BoundsAssumption == {MaxChain, MaxCalls, NoNonce} \subseteq Nat /\ MaxChain <= NoNonce

VARIABLES
  state,     \* node->state
  thread,    \* of lightNodeThreadRoutine: "none", "starting" or "running"
  txs,       \* node->transactions; a tid is an index
  wallet,    \* walletHoldingEther's transactions: tids, oldest first
  nonce,     \* the address's nonce
  signing,   \* the payment being signed
  raising,   \* the nonce lightNodeAnnounceNonce is about to set
  torn,      \* the nonce was written over a value read before another write
  submitted, \* transactions that reached the network
  chain,     \* transactions mined, in their order
  former,    \* transactions mined once, with their places, before the chain was reorganised
  polled,    \* the server was asked; its answers come in any order, late and again
  tells,     \* tids whose submission was answered and whose event is not queued yet
  told,      \* the last event the listener got about a tid
  calls

nodeVars == <<state, thread, polled, calls>>
listVars == <<txs, wallet>>
nonceVars == <<nonce, signing, raising, torn>>
networkVars == <<submitted, chain, former>>
queueVars == <<pending, handler>>
vars == <<nodeVars, listVars, nonceVars, networkVars, tells, queueVars, told>>

Names == Drafts \cup Others \cup Incoming
Own(n) == n \notin Incoming             \* the account is the source
Tids == DOMAIN txs
Idle == [step |-> "idle"]
Unknown == 0                            \* NULL, as a tid

Transaction == [name : Names, nonce : Nat, hashed : BOOLEAN,
                status : {"created", "signed", "submitted", "blocked"}, at : Nat]

OwnMined == Cardinality({i \in DOMAIN chain : Own(chain[i].name)})

-----------------------------------------------------------------------------
(* The wallet's list.                                                       *)

\* transactionCompare says LT.
Less(s, t) ==
  IF s.status = "blocked" /\ t.status = "blocked" THEN s.at < t.at
  ELSE IF s.status # "blocked" /\ t.status # "blocked" THEN s.nonce < t.nonce
  ELSE s.status = "blocked"

\* array_rm.
Removed(list, j) == SubSeq(list, 1, j - 1) \o SubSeq(list, j + 1, Len(list))

\* From the end, past every transaction that t is less than.
InsertSorted(list, ts, t) ==
  LET stops == {j \in DOMAIN list : ~Less(ts[t], ts[list[j]])}
      index == Max({0} \cup stops)
  IN  SubSeq(list, 1, index) \o <<t>> \o SubSeq(list, index + 1, Len(list))

\* A faulty variant that forgets to take the transaction out first.
UpdateSortedTwice(list, ts, t) == wallet' = InsertSorted(list, ts, t)

\* A faulty variant that leaves the transaction where it is.
UpdateSortedNot(list, ts, t) == wallet' = list

\* walletLookupTransactionIndex finds it; it is taken out and put in again.
UpdateSorted(list, ts, t) ==
  \E rest \in {Removed(list, j) : j \in {k \in DOMAIN list : list[k] = t}} :
    wallet' = InsertSorted(rest, ts, t)

\* The first of the list that is in T, or Unknown.
First(T) ==
  LET places == {j \in DOMAIN wallet : wallet[j] \in T}
  IN  IF places = {} THEN Unknown ELSE wallet[Min(places)]

ByHash(c) == First({t \in Tids : txs[t].hashed /\ txs[t].name = c.name})

ByNonce(c) == First({t \in Tids : Own(txs[t].name) /\ txs[t].nonce = c.nonce})

\* A faulty variant that misses what was submitted and has no hash yet.
LookupByHash(c) == ByHash(c)

Lookup(c) ==
  LET known == ByHash(c)
  IN  IF known = Unknown /\ Own(c.name) THEN ByNonce(c) ELSE known

-----------------------------------------------------------------------------
(* The user: lightNodeWalletCreateTransaction, ...Sign..., ...Submit....    *)

CreateTransaction(n) ==
  /\ \A t \in Tids : txs[t].name # n
  /\ LET t == Len(txs) + 1
     IN  /\ txs' = Append(txs, [name |-> n, nonce |-> NoNonce, hashed |-> FALSE,
                                status |-> "created", at |-> 0])
         /\ wallet' = InsertSorted(wallet, txs', t)
         /\ told' = Append(told, "nothing")
  /\ UNCHANGED <<nodeVars, nonceVars, networkVars, tells, queueVars>>

\* addressGetThenIncrementNonce reads the nonce ...
SignReads(t) ==
  /\ signing = Idle /\ txs[t].name \in Drafts      \* a payment is signed once
  /\ txs[t].nonce = NoNonce /\ nonce < NoNonce    \* bound: that of the type
  /\ signing' = [step |-> "read", tid |-> t, nonce |-> nonce]
  /\ UNCHANGED <<nodeVars, listVars, nonce, raising, torn, networkVars, tells, queueVars, told>>

\* ... writes the next one and transactionSetNonce keeps it ...
SignWrites ==
  /\ signing.step = "read"
  /\ nonce' = signing.nonce + 1
  /\ torn' = (torn \/ nonce # signing.nonce)
  /\ txs' = [txs EXCEPT ![signing.tid].nonce = signing.nonce]
  /\ signing' = [step |-> "sign", tid |-> signing.tid]
  /\ UNCHANGED <<nodeVars, wallet, raising, networkVars, tells, queueVars, told>>

\* ... and transactionSign sets the status, whatever it has become meanwhile.
SignEnds ==
  /\ signing.step = "sign"
  /\ txs' = [txs EXCEPT ![signing.tid].status = "signed"]
  /\ signing' = Idle
  /\ UNCHANGED <<nodeVars, wallet, nonce, raising, torn, networkVars, tells, queueVars, told>>

(* The request reaches the network (one that does not changes nothing);     *)
(* the client is asked whatever the state of the node.                      *)
Submit(t) ==
  /\ txs[t].name \in Drafts /\ txs[t].status = "signed"
  /\ submitted' = submitted \cup {[name |-> txs[t].name, nonce |-> txs[t].nonce]}
  /\ UNCHANGED <<nodeVars, listVars, nonceVars, chain, former, tells, queueVars, told>>

(* lightNodeAnnounceSubmitTransaction, under the lock, once the server has  *)
(* the transaction; bound: one answer for each.                             *)
SubmitAnswered(t) ==
  /\ ~txs[t].hashed /\ \E s \in submitted : s.name = txs[t].name
  /\ txs' = [txs EXCEPT ![t].status = "submitted", ![t].hashed = TRUE]
  /\ tells' = tells \cup {t}
  /\ UNCHANGED <<nodeVars, wallet, nonceVars, networkVars, queueVars, told>>

\* Its event, after the lock was released.
SubmitTold(t) ==
  /\ t \in tells /\ tells' = tells \ {t}
  /\ SignalEvent(<<t, "submitted">>)
  /\ UNCHANGED <<nodeVars, listVars, nonceVars, networkVars, told>>

-----------------------------------------------------------------------------
(* The node: lightNodeConnect, lightNodeDisconnect, lightNodeThreadRoutine. *)

Connect ==
  /\ calls < MaxCalls /\ calls' = calls + 1
  /\ state \in {"CREATED", "DISCONNECTED", "ERRORED"}
  /\ \/ state' = "CONNECTING" /\ thread' = "starting"
     \/ state' = "ERRORED" /\ UNCHANGED thread      \* pthread_create fails
  /\ UNCHANGED <<polled, listVars, nonceVars, networkVars, tells, queueVars, told>>

Disconnect ==
  /\ calls < MaxCalls /\ calls' = calls + 1
  /\ state' = "DISCONNECTING"
  /\ UNCHANGED <<polled, thread, listVars, nonceVars, networkVars, tells, queueVars, told>>

\* The thread's first assignment, whatever was asked before it ran.
Begin ==
  /\ thread = "starting" /\ thread' = "running"
  /\ state' = "CONNECTED"
  /\ UNCHANGED <<polled, calls, listVars, nonceVars, networkVars, tells, queueVars, told>>

(* A turn of its loop asks for everything.  A turn follows every 15 seconds *)
(* and the answers come in other threads, so from the first turn on any     *)
(* answer may come, in any order, also one to an old question.              *)
Poll ==
  /\ thread = "running" /\ state = "CONNECTED"
  /\ polled' = TRUE
  /\ UNCHANGED <<state, thread, calls, listVars, nonceVars, networkVars, tells, queueVars, told>>

ThreadEnds ==
  /\ thread = "running" /\ state = "DISCONNECTING"
  /\ state' = "DISCONNECTED" /\ thread' = "none"
  /\ UNCHANGED <<polled, calls, listVars, nonceVars, networkVars, tells, queueVars, told>>

-----------------------------------------------------------------------------
(* The server's answers: lightNodeAnnounce....                              *)

\* Where transactions are mined, or were before a reorganisation.
Place(i) == [mined |-> chain[i], at |-> i]
Places == {Place(i) : i \in DOMAIN chain} \cup former

\* What the server may count of the account's transactions, now or a while ago.
Counts == {0} \cup {p.mined.nonce + 1 : p \in {q \in Places : Own(q.mined.name)}}

\* A faulty variant that forces what the server says.
NonceForced(n) == n # nonce

\* lightNodeAnnounceNonce: addressSetNonce compares ...
NonceRises(n) == n > nonce

AnnounceNonce(n) ==
  /\ polled /\ raising = Idle
  /\ raising' = IF NonceRises(n) THEN [step |-> "set", nonce |-> n, seen |-> nonce] ELSE Idle
  /\ UNCHANGED <<nodeVars, listVars, nonce, signing, torn, networkVars, tells, queueVars, told>>

\* ... and then writes.
SetNonce ==
  /\ raising.step = "set"
  /\ nonce' = raising.nonce
  /\ torn' = (torn \/ nonce # raising.seen)
  /\ raising' = Idle
  /\ UNCHANGED <<nodeVars, listVars, signing, networkVars, tells, queueVars, told>>

\* walletTransactionBlocked, unless the transaction is blocked already.
Blocked(ts, list, t, i) ==
  IF ts[t].status = "blocked" THEN txs' = ts /\ wallet' = list
  ELSE /\ txs' = [ts EXCEPT ![t].status = "blocked", ![t].at = i]
       /\ UpdateSorted(list, txs', t)

(* lightNodeAnnounceTransaction, under the lock: the transaction is found   *)
(* by its hash, or by its nonce when it is ours, or else is a new one.  The *)
(* listener hears that it is in a block, or of its confirmations.  One that *)
(* is blocked already keeps its block, wherever it is mined by now.         *)
AnnounceTransaction(p) ==
  /\ polled
  /\ LET known == Lookup(p.mined)
         t == IF known = Unknown THEN Len(txs) + 1 ELSE known
         new == [name |-> p.mined.name, nonce |-> p.mined.nonce, hashed |-> TRUE,
                 status |-> "submitted", at |-> 0]
         all == IF known = Unknown THEN Append(txs, new) ELSE txs
     IN  /\ Blocked(all, IF known = Unknown THEN InsertSorted(wallet, all, t) ELSE wallet, t, p.at)
         /\ told' = IF known = Unknown THEN Append(told, "nothing") ELSE told
         /\ SignalEvent(<<t, "mined">>)
  /\ UNCHANGED <<nodeVars, nonceVars, networkVars, tells>>

-----------------------------------------------------------------------------
(* The thread of the event handler, and the listener it calls.              *)

\* lightNodeListenerTransactionEventDispatcher and its two siblings.
Dispatch ==
  /\ Take
  /\ told' = [told EXCEPT ![About(Head(pending))] = Head(pending)[2]]

HandlerStep ==
  /\ \/ Dispatch
     \/ (FindNone \/ Block) /\ UNCHANGED told
  /\ UNCHANGED <<nodeVars, listVars, nonceVars, networkVars, tells>>

HandlerWakes ==
  /\ WakeSpuriously
  /\ UNCHANGED <<nodeVars, listVars, nonceVars, networkVars, tells, told>>

-----------------------------------------------------------------------------
(* The network, and the beginning.                                          *)

\* An account's transactions are mined in the order of their nonces.
Mine ==
  LET fresh == {o \in Others : \A s \in submitted : s.name # o}
  IN
  /\ Len(chain) < MaxChain
  /\ \E c \in submitted \cup [name : fresh, nonce : {OwnMined}] \cup [name : Incoming, nonce : {0}] :
       /\ Own(c.name) => c.nonce = OwnMined
       /\ \A i \in DOMAIN chain : chain[i].name # c.name
       /\ chain' = Append(chain, c)
  /\ UNCHANGED <<nodeVars, listVars, nonceVars, submitted, former, tells, queueVars, told>>

\* The chain is reorganised after its first k transactions: the others are back
\* where they were submitted, to be mined again, elsewhere or never.
Reorganise(k) ==
  LET gone == {Place(i) : i \in k + 1..Len(chain)}
  IN
  /\ \A p \in gone : p.mined.name \in Loose
  /\ former' = former \cup gone /\ former' # former
  /\ chain' = SubSeq(chain, 1, k)
  /\ submitted' = submitted \cup {p.mined : p \in gone}
  /\ UNCHANGED <<nodeVars, listVars, nonceVars, tells, queueVars, told>>

(* createLightNode.  Nothing of the node is stored: after a restart it      *)
(* begins here again, and what the earlier process submitted is of Others.  *)
Init ==
  /\ state = "CREATED" /\ thread = "none" /\ polled = FALSE /\ calls = 0
  /\ txs = <<>> /\ wallet = <<>> /\ told = <<>>
  /\ nonce = 0 /\ signing = Idle /\ raising = Idle /\ torn = FALSE
  /\ submitted = {} /\ chain = <<>> /\ former = {} /\ tells = {}
  /\ HandlerInit

ThreadStep == Begin \/ Poll \/ ThreadEnds
UserStep ==
  \/ \E n \in Drafts : CreateTransaction(n)
  \/ \E t \in Tids : SignReads(t) \/ Submit(t)
  \/ SignWrites \/ SignEnds
AnswerStep ==
  \/ \E t \in Tids : SubmitAnswered(t) \/ SubmitTold(t)
  \/ \E n \in Counts : AnnounceNonce(n)
  \/ SetNonce
  \/ \E p \in Places : AnnounceTransaction(p)

Next ==
  \/ Connect \/ Disconnect \/ ThreadStep
  \/ UserStep \/ AnswerStep
  \/ HandlerStep \/ HandlerWakes
  \/ Mine \/ \E k \in 0..MaxChain : Reorganise(k)

Spec == Init /\ [][Next]_vars

(* The thread keeps polling, the server keeps answering, the handler's      *)
(* thread is scheduled; users, faults and spurious wake-ups are not owed.   *)
Fairness ==
  /\ WF_vars(ThreadStep) /\ WF_vars(HandlerStep)
  /\ \A i \in 1..MaxChain : WF_vars(state = "CONNECTED" /\ i \in DOMAIN chain /\ AnnounceTransaction(Place(i)))
  /\ WF_vars(\E t \in Tids : SubmitTold(t))

FairSpec == Spec /\ Fairness

-----------------------------------------------------------------------------
(* Types: the list holds every transaction of the node once, and the        *)
(* listener has heard of each at most.                                      *)
TypeOK ==
  /\ state \in {"CREATED", "CONNECTING", "CONNECTED", "DISCONNECTING", "DISCONNECTED", "ERRORED"}
  /\ thread \in {"none", "starting", "running"} /\ torn \in BOOLEAN
  /\ txs \in Seq(Transaction) /\ nonce \in Nat
  /\ wallet \in Seq(Tids) /\ Len(wallet) = Len(txs) /\ Range(wallet) = Tids
  /\ polled \in BOOLEAN /\ tells \subseteq Tids
  /\ DOMAIN told = Tids
  /\ handler \in {"check", "block", "wait"}
  /\ signing.step \in {"read", "sign"} => signing.tid \in Tids
  /\ \A j \in DOMAIN pending : About(pending[j]) \in Tids

(* A payment is listed once: its announcement by the server is recognised   *)
(* by hash, or by nonce while the answer to its submission, which brings    *)
(* the hash, is late or lost (lightNodeAnnounceTransaction).                *)
ListedOnce == \A s, t \in Tids : txs[s].name = txs[t].name => s = t

\* Mined transaction c is transaction t, or took t's nonce.
Settles(c, t) == c.name = t.name \/ (Own(c.name) /\ Own(t.name) /\ c.nonce = t.nonce)

(* A transaction shown as blocked is in the chain where it says, or another *)
(* of the account's with its nonce is, which settles it - or it was there   *)
(* until a reorganisation: lightNodeAnnounceTransaction leaves a blocked    *)
(* transaction in its block, and a late answer may name one that is gone.   *)
BlockedIsMined ==
  \A t \in Tids : txs[t].status = "blocked" =>
    \E p \in Places : p.at = txs[t].at /\ Settles(p.mined, txs[t])

(* "These are sorted from oldest [index 0] to newest" (BREthereumWallet.c,  *)
(* line 106): blocked transactions are listed in the order of the blocks    *)
(* they are shown in, however announcements, late submit answers and        *)
(* reorganisations were interleaved.                                        *)
BlockedInOrder ==
  \A p, q \in DOMAIN wallet :
    LET s == txs[wallet[p]]  t == txs[wallet[q]]
    IN  p < q /\ s.status = "blocked" /\ t.status = "blocked" => s.at <= t.at

(* What is listed as mined follows the chain, or one that it replaced.      *)
BlockedFollowChain == BlockedIsMined /\ BlockedInOrder

(* The next payment gets a nonce no payment signed here has, although the   *)
(* server's nonce, which lags behind what was signed, is announced again    *)
(* and again - unless one unprotected write of the nonce hit another        *)
(* (addressSetNonce and addressGetThenIncrementNonce take no lock).         *)
NonceIsFresh ==
  ~torn => \A t \in Tids : txs[t].name \in Drafts /\ txs[t].nonce # NoNonce => txs[t].nonce < nonce

\* What the listener heard last of some transaction that c settles is that it is mined.
Heard(c) == \E t \in Tids : Settles(c, txs[t]) /\ told[t] = "mined"

(* If the node stays connected, the listener's last word on everything      *)
(* mined is in the end that it is mined: although the queue's signal may be *)
(* lost between the handler's check and its wait, and although a late       *)
(* submit answer takes a blocked transaction back to submitted.             *)
ListenerCatchesUp ==
  <>[](thread = "running" /\ state = "CONNECTED") => <>[](\A i \in DOMAIN chain : Heard(chain[i]))
=============================================================================
