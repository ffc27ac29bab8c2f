------------------------------ MODULE CoreWallet ------------------------------
(***************************************************************************)
(* The wallet of breadwallet-core: BRWallet.c.                             *)
(*                                                                         *)
(* The wallet keeps every transaction it has heard of (allTx), its own     *)
(* ones in a sorted array (transactions), two growing chains of addresses, *)
(* and what _BRWalletUpdateBalance derives from them (acct).  Every        *)
(* function locks the wallet, but RegisterTransaction and                  *)
(* RemoveTransaction release the lock between their parts, so the peer     *)
(* threads (which the peer manager's lock makes one) and the app's threads *)
(* interleave there.  The block chain (mined, tip) is the environment.     *)
(*                                                                         *)
(* A transaction spends outputs <<parent, n>> and pays outputs [addr, amt];*)
(* an address is <<chain, index>>, of a chain of the wallet or of no such. *)
(***************************************************************************)
EXTENDS Naturals, Sequences, FiniteSets, SequencesExt, FiniteSetsExt, Functions

CONSTANTS Tx,           \* transactions
          Ins,          \* Ins[t]: the outputs <<parent, n>> that t spends
          Outs,         \* Outs[t]: the sequence of t's outputs [addr, amt]
          Replaceable,  \* pending until confirmed: replace-by-fee, dust outputs, too large
          LockHeight,   \* LockHeight[t]: the block height that t is locked to, or 0
          LastIndex,    \* the highest index of an address, a uint32_t
          Gap,          \* Gap[c]: the gap limit of chain c
          MaxHeight,    \* bound: the height of the last block
          Thread,       \* callers of the wallet
          PeerThread,   \* the one of them that reports what peers and blocks say
          SavedLists    \* what the app may have stored: sequences of [tx, height]

Chain == {"ext", "int"}
Address == (Chain \union {"none"}) \X (0..LastIndex)
Outputs == UNION {{t} \X DOMAIN Outs[t] : t \in Tx}
Unconfirmed == MaxHeight + 1            \* TX_UNCONFIRMED
Parents(t) == {i[1] : i \in Ins[t]}
PaysChains(t, l) == \E n \in DOMAIN Outs[t] :
  Outs[t][n].addr[1] \in Chain /\ Outs[t][n].addr[2] <= l[Outs[t][n].addr[1]]

Conflicts(a, b) == a # b /\ Ins[a] \intersect Ins[b] # {}

ASSUME TxAssumption ==
  /\ IsFiniteSet(Tx)
  /\ Outs \in [Tx -> Seq([addr : Address, amt : Nat])]
  /\ LockHeight \in [Tx -> Nat]

ASSUME WalletAssumption ==
  /\ MaxHeight \in Nat \ {0} /\ LastIndex \in Nat
  /\ Gap \in [Chain -> Nat \ {0}]
  /\ PeerThread \in Thread

VARIABLES w,      \* struct BRWalletStruct, and the heights of the transactions
          op,     \* op[th]: what the thread is in the middle of
          mined,  \* environment: the transactions in the chain's blocks, with their heights
          tip     \* environment: the height of the last block

vars == <<w, op, mined, tip>>

Idle == [at |-> "idle"]

---------------------------------------------------------------------------
(* Addresses. *)

IsOwn(l, addr) == addr[1] \in Chain /\ addr[2] <= l[addr[1]]     \* in allAddrs
OutAddrs(t) == {Outs[t][n].addr : n \in DOMAIN Outs[t]}

TxChainIndex(t, l, c) == Max({0} \union {n \in 1..l[c] : <<c, n>> \in OutAddrs(t)})

(* The chain grows until the last Gap addresses of it are unused.          *)
UnusedAddrs(l, used, c, gap) ==
  LET lastUsed(n) == Max({0} \union {k \in 1..n : <<c, k>> \in used})
      highest == Max({l[c]} \union {a[2] : a \in {u \in used : u[1] = c}})
  IN  [l EXCEPT ![c] = Min({n \in l[c]..(highest + gap) : lastUsed(n) + gap <= n})]

ContainsTx(x, t) ==
  \/ PaysChains(t, x.len)
  \/ \E i \in Ins[t] : /\ i[1] \in x.allTx
                       /\ i[2] \in DOMAIN Outs[i[1]]
                       /\ IsOwn(x.len, Outs[i[1]][i[2]].addr)

(* The addresses of a new wallet that has used some, and that a wallet with *)
(* these transactions takes all of them for its own.                        *)
FirstAddrs(l, used) ==
  UnusedAddrs(UnusedAddrs(l, used, "ext", Gap["ext"]), used, "int", Gap["int"])

AreOwn(ts) ==
  LET l == FirstAddrs([c \in Chain |-> 0], UNION {OutAddrs(t) : t \in ts})
  IN  \A t \in ts : ContainsTx([allTx |-> ts, len |-> l], t)

(* What the app stored are transactions of this wallet, each once; those    *)
(* with a height were in blocks of one chain.  BRWalletNew makes sure of    *)
(* the first one.                                                           *)
ASSUME SavedAssumption ==
  \A s \in SavedLists :
    /\ s \in Seq([tx : Tx, height : 0..Unconfirmed])
    /\ AreOwn({s[k].tx : k \in DOMAIN s})
    /\ \A j, k \in DOMAIN s : s[j].tx = s[k].tx => j = k
    /\ \A j, k \in DOMAIN s :
         Conflicts(s[j].tx, s[k].tx) => Unconfirmed \in {s[j].height, s[k].height}

---------------------------------------------------------------------------
(* The order of wallet->transactions. *)

(* a spends from b, directly or through transactions the wallet knows.      *)
Descends(x, a, b) ==
  LET D[t \in Tx] ==
        \/ b \in Parents(t)
        \/ /\ t \notin Parents(b)
           /\ \E p \in Parents(t) \intersect x.allTx :
                \/ x.height[p] > x.height[b]
                \/ x.height[p] = x.height[b] /\ D[p]
  IN  D[a]

IsAscending(x, a, b) ==
  \/ x.height[a] > x.height[b]
  \/ x.height[a] = x.height[b] /\ Descends(x, a, b)

(* _BRWalletTxCompare(a, b) > 0                                             *)
Follows(x, a, b) ==
  \/ IsAscending(x, a, b)
  \/ /\ ~IsAscending(x, b, a)
     /\ LET c == IF TxChainIndex(a, x.len, "int") = 0 THEN "ext" ELSE "int"
            i == TxChainIndex(a, x.len, c)
            j == TxChainIndex(b, x.len, c)
        IN  i # 0 /\ j # 0 /\ i > j

InsertTx(x, t) ==
  LET k == Max({0} \union {n \in DOMAIN x.list : ~Follows(x, x.list[n], t)})
  IN  [x EXCEPT !.list = InsertAt(@, k + 1, t)]

Drop(s, t) == IF \E k \in DOMAIN s : s[k] = t
              THEN RemoveAt(s, CHOOSE k \in DOMAIN s : s[k] = t) ELSE s

---------------------------------------------------------------------------
(* Balances. *)

Amount[utxos \in SUBSET Outputs] ==
  IF utxos = {} THEN 0
  ELSE LET u == CHOOSE u \in utxos : TRUE IN Amount[utxos \ {u}] + Outs[u[1]][u[2]].amt

OwnOutputs(l, t) == {<<t, n>> : n \in {k \in DOMAIN Outs[t] : IsOwn(l, Outs[t][k].addr)}}

NoAccount == [utxos |-> {}, spent |-> {}, invalid |-> {}, pending |-> {}, used |-> {},
              balance |-> 0, hist |-> <<>>, sent |-> 0, received |-> 0]

IsUnconfirmed(x, t) == x.height[t] = Unconfirmed

(* Mutant: only the parents are checked, not the spent outputs.             *)
SpendsTakenByParent(a, t) == \E i \in Ins[t] : i[1] \in a.invalid

SpendsTaken(a, t) == \E i \in Ins[t] : i \in a.spent \/ i[1] \in a.invalid

IsPostponed(x, a, t) ==
  \/ t \in Replaceable
  \/ LockHeight[t] > x.blockHeight + 1
  \/ \E i \in Ins[t] : i[1] \in a.pending

Sweep(a, t, l) ==
  LET spent == a.spent \union Ins[t]
      all   == a.utxos \union OwnOutputs(l, t)
      left  == all \ spent
      now   == (a.balance + Amount[OwnOutputs(l, t)]) - Amount[all \ left]
  IN  [a EXCEPT !.spent = spent, !.utxos = left, !.used = @ \union OutAddrs(t),
                !.balance = now, !.hist = Append(@, now),
                !.received = IF now > a.balance THEN @ + (now - a.balance) ELSE @,
                !.sent = IF now < a.balance THEN @ + (a.balance - now) ELSE @]

AccountTx(x, a, t) ==
  IF IsUnconfirmed(x, t) /\ SpendsTaken(a, t)
  THEN [a EXCEPT !.invalid = @ \union {t}, !.hist = Append(@, a.balance)]
  ELSE IF IsUnconfirmed(x, t) /\ IsPostponed(x, a, t)
  THEN [a EXCEPT !.spent = @ \union Ins[t], !.pending = @ \union {t},
                 !.hist = Append(@, a.balance)]
  ELSE Sweep(a, t, x.len)

UpdateBalance(x) ==
  LET Account[n \in 0..Len(x.list)] ==
        IF n = 0 THEN NoAccount ELSE AccountTx(x, Account[n - 1], x.list[n])
  IN  [x EXCEPT !.acct = Account[Len(x.list)]]

---------------------------------------------------------------------------
(* The calls.  While a thread is loading or updating it holds the lock.     *)

Locked == \E th \in Thread : op[th].at \in {"loading", "updating"}
Free(th) == op[th].at = "idle" /\ ~Locked

EmptyWallet == [allTx |-> {}, list |-> <<>>, height |-> [t \in Tx |-> Unconfirmed],
                blockHeight |-> 0, len |-> [c \in Chain |-> 0],
                acct |-> NoAccount]

(* BRWalletNew with what the app stored, whose heights are the chain's.     *)
Init ==
  \E s \in SavedLists :
    /\ w = EmptyWallet
    /\ op = [th \in Thread |-> IF th = PeerThread THEN [at |-> "loading", todo |-> s] ELSE Idle]
    /\ mined = [t \in {s[k].tx : k \in {n \in DOMAIN s : s[n].height # Unconfirmed}} |->
                  s[CHOOSE k \in DOMAIN s : s[k].tx = t].height]
    /\ tip = Max({0} \union {s[k].height : k \in {n \in DOMAIN s : s[n].height # Unconfirmed}})

LoadTx ==
  LET s == op[PeerThread].todo
      x == [w EXCEPT !.height[s[1].tx] = s[1].height, !.allTx = @ \union {s[1].tx},
                     !.acct.used = @ \union OutAddrs(s[1].tx)]
  IN  /\ op[PeerThread].at = "loading" /\ s # <<>>
      /\ w' = IF s[1].tx \in w.allTx THEN w ELSE InsertTx(x, s[1].tx)
      /\ op' = [op EXCEPT ![PeerThread].todo = Tail(s)]
      /\ UNCHANGED <<mined, tip>>

Loaded ==
  /\ op[PeerThread].at = "loading" /\ op[PeerThread].todo = <<>>
  /\ w' = UpdateBalance([w EXCEPT !.len = FirstAddrs(@, w.acct.used)])
  /\ op' = [op EXCEPT ![PeerThread] = Idle]
  /\ UNCHANGED <<mined, tip>>

RegisterTransaction(th, t) ==
  /\ Free(th)
  /\ t \notin w.allTx
  /\ IF ContainsTx(w, t)
     THEN /\ w' = UpdateBalance(InsertTx([w EXCEPT !.allTx = @ \union {t}], t))
          /\ op' = [op EXCEPT ![th] = [at |-> "ext"]]
     ELSE /\ w' = [w EXCEPT !.allTx = @ \union {t}]
          /\ UNCHANGED op
  /\ UNCHANGED <<mined, tip>>

(* The rest of a registration: new addresses replace the used ones.         *)
Replenish(th) ==
  /\ op[th].at \in Chain /\ ~Locked
  /\ w' = [w EXCEPT !.len = UnusedAddrs(@, w.acct.used, op[th].at, Gap[op[th].at])]
  /\ op' = [op EXCEPT ![th] = IF @.at = "ext" THEN [at |-> "int"] ELSE Idle]
  /\ UNCHANGED <<mined, tip>>

RemoveTransaction(th, t) ==
  /\ Free(th)
  /\ t \in w.allTx
  /\ op' = [op EXCEPT ![th] = [at |-> "removing", todo |-> <<t>>]]
  /\ UNCHANGED <<w, mined, tip>>

(* Mutant: the search also ends at a transaction of the same height.        *)
DependentsOfLater(x, t) ==
  LET D[n \in 0..Len(x.list)] ==
        IF n = 0 \/ x.height[x.list[n]] <= x.height[t] THEN <<>>
        ELSE IF t \in Parents(x.list[n]) THEN Append(D[n - 1], x.list[n]) ELSE D[n - 1]
  IN  D[Len(x.list)]

(* Listed transactions that spend from t, in the order in which they are    *)
(* removed; the search from the end ends at the first that is older than t. *)
Dependents(x, t) ==
  LET D[n \in 0..Len(x.list)] ==
        IF n = 0 \/ x.height[x.list[n]] < x.height[t] THEN <<>>
        ELSE IF x.list[n] # t /\ t \in Parents(x.list[n]) THEN Append(D[n - 1], x.list[n])
        ELSE D[n - 1]
  IN  D[Len(x.list)]

(* One call of BRWalletRemoveTransaction, up to where it calls itself for   *)
(* the dependents and once more for t, or has removed t.                    *)
RemoveStep(th) ==
  LET t    == op[th].todo[1]
      deps == Dependents(w, t)
      gone == UpdateBalance([w EXCEPT !.list = Drop(@, t)])
  IN  /\ op[th].at = "removing" /\ op[th].todo # <<>> /\ ~Locked
      /\ \/ /\ t \notin w.allTx
            /\ op' = [op EXCEPT ![th].todo = Tail(@)]
            /\ UNCHANGED w
         \/ /\ t \in w.allTx /\ deps # <<>>
            /\ op' = [op EXCEPT ![th].todo = deps \o @]
            /\ UNCHANGED w
         \/ /\ t \in w.allTx /\ deps = <<>>
            /\ w' = gone
            /\ op' = [op EXCEPT ![th].todo = Tail(@)]
      /\ UNCHANGED <<mined, tip>>

RemoveReturns(th) ==
  /\ op[th].at = "removing" /\ op[th].todo = <<>>
  /\ op' = [op EXCEPT ![th] = Idle]
  /\ UNCHANGED <<w, mined, tip>>

(* Mutant: the height of the block after is recorded.                       *)
UpdateTransactionsNext(hs, h) ==
  /\ w' = [w EXCEPT !.blockHeight = IF h > @ THEN h + 1 ELSE @]
  /\ op' = [op EXCEPT ![PeerThread] = [at |-> "updating", todo |-> hs, height |-> h,
                                       needsUpdate |-> FALSE]]

UpdateTransactions(hs, h) ==
  /\ w' = [w EXCEPT !.blockHeight = IF h > @ THEN h ELSE @]
  /\ op' = [op EXCEPT ![PeerThread] = [at |-> "updating", todo |-> hs, height |-> h,
                                       needsUpdate |-> FALSE]]

(* Mutant: a transaction without an output to the wallet is taken for one   *)
(* that is not the wallet's.                                                *)
UpdateTxByOutputs ==
  LET o == op[PeerThread]
      t == o.todo[1]
      x == [w EXCEPT !.height[t] = o.height]
  IN  /\ o.at = "updating" /\ o.todo # <<>>
      /\ w' = IF t \notin w.allTx \/ w.height[t] = o.height THEN w
              ELSE IF PaysChains(t, w.len) THEN InsertTx([x EXCEPT !.list = Drop(@, t)], t)
              ELSE [w EXCEPT !.height[t] = Unconfirmed, !.allTx = @ \ {t}]
      /\ op' = [op EXCEPT ![PeerThread].todo = Tail(@), ![PeerThread].needsUpdate = TRUE]
      /\ UNCHANGED <<mined, tip>>

(* One turn of the loop over the hashes.  Timestamps are not modelled: a    *)
(* transaction that has the height already may have the timestamp or not.   *)
UpdateTx ==
  LET o == op[PeerThread]
      t == o.todo[1]
      x == [w EXCEPT !.height[t] = o.height]
  IN  /\ o.at = "updating" /\ o.todo # <<>>
      /\ \E sameTime \in BOOLEAN :
         IF t \notin w.allTx \/ (w.height[t] = o.height /\ sameTime)
         THEN /\ op' = [op EXCEPT ![PeerThread].todo = Tail(@)]
              /\ UNCHANGED w
         ELSE IF ContainsTx(w, t)
         THEN /\ w' = IF t \in ToSet(w.list)
                      THEN InsertTx([x EXCEPT !.list = Drop(@, t)], t) ELSE x
              /\ op' = [op EXCEPT ![PeerThread].todo = Tail(@),
                                  ![PeerThread].needsUpdate =
                                      @ \/ t \in w.acct.pending \union w.acct.invalid]
         ELSE /\ w' = IF o.height # Unconfirmed          \* removed from allTx and freed
                      THEN [w EXCEPT !.height[t] = Unconfirmed, !.allTx = @ \ {t}] ELSE x
              /\ op' = [op EXCEPT ![PeerThread].todo = Tail(@)]
      /\ UNCHANGED <<mined, tip>>

Updated ==
  /\ op[PeerThread].at = "updating" /\ op[PeerThread].todo = <<>>
  /\ w' = IF op[PeerThread].needsUpdate THEN UpdateBalance(w) ELSE w
  /\ op' = [op EXCEPT ![PeerThread] = Idle]
  /\ UNCHANGED <<mined, tip>>

(* Mutant: the block at the next height is kept.                            *)
SetTxUnconfirmedAfterNext(x, h) ==
  LET from  == {n \in DOMAIN x.list : \A k \in n..Len(x.list) : x.height[x.list[k]] > h + 1}
      after == {x.list[n] : n \in from}
      y     == [x EXCEPT !.blockHeight = h,
                         !.height = [t \in Tx |-> IF t \in after THEN Unconfirmed ELSE @[t]]]
  IN  IF from # {} THEN UpdateBalance(y) ELSE y

(* The search from the end ends at the first that is not above h.           *)
SetTxUnconfirmedAfter(x, h) ==
  LET from  == {n \in DOMAIN x.list : \A k \in n..Len(x.list) : x.height[x.list[k]] > h}
      after == {x.list[n] : n \in from}
      y     == [x EXCEPT !.blockHeight = h,
                         !.height = [t \in Tx |-> IF t \in after THEN Unconfirmed ELSE @[t]]]
  IN  IF from # {} THEN UpdateBalance(y) ELSE y

---------------------------------------------------------------------------
(* The environment: blocks, reorganisations, what peers say of relaying.    *)

Minable(ts) ==
  \A k \in DOMAIN ts :
    /\ ts[k] \notin DOMAIN mined
    /\ LockHeight[ts[k]] <= tip
    /\ \A b \in DOMAIN mined \union ToSet(ts) : ~Conflicts(ts[k], b)
    /\ Parents(ts[k]) \intersect Tx \subseteq DOMAIN mined \union {ts[n] : n \in 1..(k - 1)}

Mine(ts) ==
  /\ Free(PeerThread)
  /\ tip < MaxHeight
  /\ Minable(ts)
  /\ tip' = tip + 1
  /\ mined' = [t \in DOMAIN mined \union ToSet(ts) |-> IF t \in ToSet(ts) THEN tip + 1 ELSE mined[t]]
  /\ UpdateTransactions(ts, tip + 1)

Reorganise(h) ==
  /\ Free(PeerThread)
  /\ h < tip
  /\ tip' = h
  /\ mined' = Restrict(mined, {t \in DOMAIN mined : mined[t] <= h})
  /\ w' = SetTxUnconfirmedAfter(w, h)
  /\ UNCHANGED op

(* The peer manager sets or clears the timestamp of an unconfirmed one.     *)
MarkRelayed(t) ==
  /\ Free(PeerThread)
  /\ t \in w.allTx /\ IsUnconfirmed(w, t)
  /\ UpdateTransactions(<<t>>, Unconfirmed)
  /\ UNCHANGED <<mined, tip>>

Blocks == {<<>>} \union {<<t>> : t \in Tx} \union {<<a, b>> : a \in Tx, b \in Tx}

Next ==
  \/ LoadTx \/ Loaded \/ UpdateTx \/ Updated
  \/ \E th \in Thread : Replenish(th) \/ RemoveStep(th) \/ RemoveReturns(th)
  \/ \E th \in Thread, t \in Tx : RegisterTransaction(th, t) \/ RemoveTransaction(th, t)
  \/ \E t \in Tx : MarkRelayed(t)
  \/ \E ts \in Blocks : IsInjective(ts) /\ Mine(ts)
  \/ \E h \in 0..MaxHeight : Reorganise(h)

Spec == Init /\ [][Next]_vars

---------------------------------------------------------------------------
(* Properties. *)

Ops == [at : {"idle", "ext", "int"}]
       \union [at : {"loading"}, todo : Seq([tx : Tx, height : 0..Unconfirmed])]
       \union [at : {"removing"}, todo : Seq(Tx)]
       \union [at : {"updating"}, todo : Seq(Tx), height : 0..Unconfirmed,
               needsUpdate : BOOLEAN]

Wallets ==
  [allTx : SUBSET Tx, list : Seq(Tx), height : [Tx -> 0..Unconfirmed],
   blockHeight : 0..Unconfirmed, len : [Chain -> Nat],
   acct : [utxos : SUBSET Outputs, spent : SUBSET UNION {Ins[t] : t \in Tx},
           invalid : SUBSET Tx, pending : SUBSET Tx, used : SUBSET Address,
           balance : Nat, hist : Seq(Nat), sent : Nat, received : Nat]]

(* The wallet's fields and what threads are in the middle of keep their     *)
(* types: no balance is below zero, no height above TX_UNCONFIRMED.         *)
TypeOK ==
  /\ w \in Wallets
  /\ op \in [Thread -> Ops]
  /\ \A th \in Thread \ {PeerThread} : op[th].at \notin {"loading", "updating"}
  /\ DOMAIN mined \subseteq Tx /\ mined \in [DOMAIN mined -> 0..tip]
  /\ tip \in 0..MaxHeight

(* A transaction in wallet->transactions is never one whose memory          *)
(* UpdateTransactions has freed: as long as addresses are only added and    *)
(* what made it the wallet's stays, it is still found in allTx.             *)
NotFreed == \A k \in DOMAIN w.list : w.list[k] \in w.allTx

(* The array stays sorted by height: TxUnconfirmedBefore and                *)
(* SetTxUnconfirmedAfter, which stop at the first lower one, rely on it.    *)
Sorted == \A j, k \in DOMAIN w.list : j < k => w.height[w.list[j]] <= w.height[w.list[k]]

(* The wallet's array can be walked by every thread between any two steps.  *)
ListIsSound == NotFreed /\ Sorted

(* A reorganisation leaves no transaction of the wallet in a block that is  *)
(* gone: what the wallet says is confirmed is what the chain says.          *)
ConfirmedIsMined ==
  ~Locked => \A k \in DOMAIN w.list : LET t == w.list[k] IN
    ~IsUnconfirmed(w, t) => t \in DOMAIN mined /\ mined[t] = w.height[t]

(* Once confirmed, a transaction counts, even if it was invalid (it lost    *)
(* to a double spend the chain did not take) or pending before.             *)
ConfirmedCounts ==
  ~Locked => \A k \in DOMAIN w.list :
    ~IsUnconfirmed(w, w.list[k]) => w.list[k] \notin w.acct.invalid \union w.acct.pending

(* What the wallet says is confirmed is confirmed, and counts.              *)
ConfirmedIsRight == ConfirmedIsMined /\ ConfirmedCounts

(* No output is both spent by a transaction that counts and still listed as *)
(* unspent, in whatever order parents and children became known.            *)
SpentNotListed ==
  ~Locked => \A k \in DOMAIN w.list :
    w.list[k] \notin w.acct.invalid \union w.acct.pending
      => Ins[w.list[k]] \intersect w.acct.utxos = {}

(* Of two transactions that spend the same output at most one counts.       *)
DoubleSpendsExclude ==
  ~Locked => \A j, k \in DOMAIN w.list :
    Conflicts(w.list[j], w.list[k]) => {w.list[j], w.list[k]} \intersect w.acct.invalid # {}

(* The running balance, kept by adding and subtracting as the array is      *)
(* walked, is the sum of the unspent outputs, and totalReceived minus       *)
(* totalSent; every transaction has its balance in the history.             *)
BalanceAddsUp ==
  ~Locked => /\ w.acct.balance = Amount[w.acct.utxos]
             /\ w.acct.received = w.acct.sent + w.acct.balance
             /\ Len(w.acct.hist) = Len(w.list)

(* The account that UpdateBalance derives is that of one possible future of *)
(* the chain, whichever threads registered, removed and re-heighted before. *)
AccountIsSound == SpentNotListed /\ DoubleSpendsExclude /\ BalanceAddsUp

(* No transaction leaves the wallet while one that spends from it and is    *)
(* no older stays, also when another thread registers it meanwhile.         *)
DependentsGoFirst ==
  [][\A t \in ToSet(w.list) \ ToSet(w'.list) : \A d \in ToSet(w'.list) :
       t \in Parents(d) => w.height[d] < w.height[t]]_vars
===============================================================================
