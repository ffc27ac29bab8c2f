---------------------------- MODULE CoreWalletProofs ----------------------------
(***************************************************************************)
(* The wallet's array and account are sound for any transactions, gap      *)
(* limits, chain and number of threads.  What is computed along the array  *)
(* (the account, the dependents) and over a set of outputs (the sum) is    *)
(* reasoned about by the least number for which a claim would fail.        *)
(***************************************************************************)
EXTENDS CoreWallet, TLAPS, FiniteSetTheorems, FunctionTheorems, SequenceTheorems, WellFoundedInduction

-----------------------------------------------------------------------------
(* The invariant.                                                           *)
Loading  == op[PeerThread].at = "loading"
Updating == op[PeerThread].at = "updating"

Distinct(l)   == \A j, k \in DOMAIN l : l[j] = l[k] => j = k
Ordered(l, h) == \A j, k \in DOMAIN l : j < k => h[l[j]] <= h[l[k]]

IsMinedAt(m, t, h) == h # Unconfirmed => t \in DOMAIN m /\ m[t] = h

(* The array of wallet x has known transactions, each once, by height; the  *)
(* heights are those of chain m, and what is not known has none.            *)
ListFits(x, m) ==
  /\ Distinct(x.list) /\ Ordered(x.list, x.height)
  /\ \A t \in ToSet(x.list) : t \in x.allTx /\ IsMinedAt(m, t, x.height[t])
  /\ \A t \in Tx \ x.allTx : IsUnconfirmed(x, t)

(* What is listed is the wallet's, so that UpdateTransactions keeps it.     *)
ListIsOwn == ~Loading => \A t \in ToSet(w.list) : ContainsTx(w, t)

Stored(s) == {s[k].tx : k \in DOMAIN s}

(* While it loads: what is loaded and what is still to come are the wallet's *)
(* by the addresses it will have.                                           *)
LoadIsOwn ==
  Loading => /\ AreOwn(w.allTx \union Stored(op[PeerThread].todo))
             /\ w.len = [c \in Chain |-> 0]
             /\ w.acct.used = UNION {OutAddrs(t) : t \in w.allTx}

(* The chain takes one of two transactions that spend an output, and what   *)
(* is still to be loaded or updated gets the height it has in the chain.    *)
MinedAgree == \A a, b \in DOMAIN mined : ~Conflicts(a, b)

TodoIsMined ==
  LET todo == op[PeerThread].todo
  IN  /\ Loading => \A k \in DOMAIN todo : IsMinedAt(mined, todo[k].tx, todo[k].height)
      /\ Updating => \A k \in DOMAIN todo : IsMinedAt(mined, todo[k], op[PeerThread].height)

(* The account of wallet x.                                                 *)
Discounted(x) == x.acct.invalid \union x.acct.pending

ConfirmedCount(x) ==
  \A t \in ToSet(x.list) : ~IsUnconfirmed(x, t) => t \notin Discounted(x)

SpentIsOff(x) ==
  \A t \in ToSet(x.list) : t \notin Discounted(x) => Ins[t] \intersect x.acct.utxos = {}

OneOfTwoCounts(x) ==
  \A s, t \in ToSet(x.list) : Conflicts(s, t) => {s, t} \intersect x.acct.invalid # {}

AddsUp(x) ==
  /\ x.acct.balance = Amount[x.acct.utxos]
  /\ x.acct.received = x.acct.sent + x.acct.balance
  /\ Len(x.acct.hist) = Len(x.list)

AccountHolds(x) == SpentIsOff(x) /\ OneOfTwoCounts(x) /\ AddsUp(x)

(* Between UpdateTransactions and the walk it ends with, only a transaction *)
(* that was confirmed meanwhile may not count yet.                          *)
AccountIsKept ==
  ~Loading => /\ AccountHolds(w)
              /\ (Updating /\ op[PeerThread].needsUpdate) \/ ConfirmedCount(w)

IInv ==
  /\ TypeOK /\ ListFits(w, mined) /\ ListIsOwn /\ LoadIsOwn
  /\ MinedAgree /\ TodoIsMined /\ AccountIsKept


-----------------------------------------------------------------------------
(* Numbers.  A set of numbers has a least; this stands for induction.       *)

LEMMA LeastNumber ==
  ASSUME NEW T \in SUBSET Nat, T # {}
  PROVE  \E x \in T : \A y \in T : x <= y
<1> DEFINE R == {ss \in Nat \X Nat : ss[1] < ss[2]}
<1>1. IsWellFoundedOn(R, Nat) BY NatLessThanWellFounded DEF OpToRel
<1>2. \A x, y \in Nat : y < x => <<y, x>> \in R OBVIOUS
<1> HIDE DEF R
<1>3. PICK x \in T : \A y \in T : ~ (<<y, x>> \in R) BY <1>1, WFMin
<1>4. \A y \in T : ~(y < x) BY <1>2, <1>3
<1> QED BY <1>4

(* What holds of 0, and of the next number whenever it holds of one, holds  *)
(* of all.                                                                  *)
LEMMA UpTo ==
  ASSUME NEW n \in Nat, NEW S, 0 \in S,
         \A k \in 0..(n - 1) : k \in S => k + 1 \in S
  PROVE  \A k \in 0..n : k \in S
<1> DEFINE T == {k \in 0..n : k \notin S}
<1> SUFFICES ASSUME T # {} PROVE FALSE
  OBVIOUS
<1>0. T \in SUBSET Nat OBVIOUS
<1>1. PICK k \in T : \A y \in T : k <= y
  <2> HIDE DEF T
  <2> QED BY <1>0, LeastNumber
<1>2. k # 0 /\ k - 1 \in 0..(n - 1) BY <1>1
<1>3. k - 1 \in S BY <1>1, <1>2
<1> QED BY <1>1, <1>2, <1>3

LEMMA MinIs ==
  ASSUME NEW S \in SUBSET Nat, S # {}
  PROVE  Min(S) \in S /\ \A y \in S : Min(S) <= y
BY LeastNumber DEF Min

LEMMA MaxIs ==
  ASSUME NEW S \in SUBSET Nat, S # {}, NEW n \in Nat, \A y \in S : y <= n
  PROVE  Max(S) \in S /\ \A y \in S : y <= Max(S)
<1> DEFINE T == {k \in Nat : \A y \in S : y <= k}
<1>1. T \in SUBSET Nat /\ T # {} OBVIOUS
<1>2. PICK x \in T : \A k \in T : x <= k
  <2> HIDE DEF T
  <2> QED BY <1>1, LeastNumber
<1>3. \A y \in S : y <= x BY <1>2
<1>4. ASSUME x \notin S PROVE FALSE
  <2>1. \A y \in S : y < x BY <1>3, <1>4
  <2>2. PICK y \in S : TRUE OBVIOUS
  <2>3. x - 1 \in T BY <2>1, <2>2
  <2> QED BY <1>2, <2>3
<1> QED BY <1>3, <1>4 DEF Max

-----------------------------------------------------------------------------
(* The array.                                                               *)

(* t after the first k of s.                                                *)
Inserted(s, k, t) ==
  [n \in 1..(Len(s) + 1) |-> IF n <= k THEN s[n] ELSE IF n = k + 1 THEN t ELSE s[n - 1]]

Removed(s, k) == [n \in 1..(Len(s) - 1) |-> IF n < k THEN s[n] ELSE s[n + 1]]

LEMMA SeqIs ==
  ASSUME NEW S, NEW s \in Seq(S), NEW m, Len(s) = m
  PROVE  s = [n \in 1..m |-> s[n]]
OBVIOUS

LEMMA PartOf ==
  ASSUME NEW S, NEW s \in Seq(S), NEW m \in 1..(Len(s) + 1), NEW n \in (m - 1)..Len(s)
  PROVE  /\ SubSeq(s, m, n) \in Seq(S)
         /\ Len(SubSeq(s, m, n)) = n - m + 1
         /\ \A i \in 1..(n - m + 1) : SubSeq(s, m, n)[i] = s[m + i - 1]
<1>1. \A i \in m..n : s[i] \in S OBVIOUS
<1>2. m \in Int /\ n \in Int OBVIOUS
<1>3. (IF m <= n THEN n - m + 1 ELSE 0) = n - m + 1 OBVIOUS
<1> QED BY <1>1, <1>2, <1>3, SubSeqProperties

LEMMA InsertAtIs ==
  ASSUME NEW S, NEW s \in Seq(S), NEW t \in S, NEW k \in 0..Len(s)
  PROVE  InsertAt(s, k + 1, t) = Inserted(s, k, t) /\ Inserted(s, k, t) \in Seq(S)
<1> DEFINE a == SubSeq(s, 1, k)
           b == SubSeq(s, k + 1, Len(s))
           c == a \o <<t>>
<1>0. (k + 1) - 1 = k OBVIOUS
<1>1. InsertAt(s, k + 1, t) = c \o b BY <1>0 DEF InsertAt
<1>2. a \in Seq(S) /\ Len(a) = k /\ \A i \in 1..k : a[i] = s[i]
  <2>1. 1 \in 1..(Len(s) + 1) /\ k \in (1 - 1)..Len(s) OBVIOUS
  <2> QED BY <2>1, PartOf
<1>3. b \in Seq(S) /\ Len(b) = Len(s) - k /\ \A i \in 1..(Len(s) - k) : b[i] = s[k + i]
  <2>1. k + 1 \in 1..(Len(s) + 1) /\ Len(s) \in ((k + 1) - 1)..Len(s) OBVIOUS
  <2> QED BY <2>1, PartOf
<1> HIDE DEF a, b
<1>4. <<t>> \in Seq(S) /\ Len(<<t>>) = 1 /\ <<t>>[1] = t OBVIOUS
<1>5. c \in Seq(S) /\ Len(c) = k + 1 /\ \A i \in 1..(k + 1) : c[i] = IF i <= k THEN s[i] ELSE t
  BY <1>2, <1>4, ConcatProperties
<1> HIDE DEF c
<1>6. /\ c \o b \in Seq(S) /\ Len(c \o b) = Len(s) + 1
      /\ \A i \in 1..(Len(s) + 1) : (c \o b)[i] = IF i <= k + 1 THEN c[i] ELSE b[i - (k + 1)]
  BY <1>3, <1>5, ConcatProperties
<1>7. \A i \in 1..(Len(s) + 1) :
        (c \o b)[i] = IF i <= k THEN s[i] ELSE IF i = k + 1 THEN t ELSE s[i - 1]
  BY <1>3, <1>5, <1>6
<1> DEFINE r == c \o b
<1> HIDE DEF r
<1>8. r = Inserted(s, k, t)
  <2>1. r = [n \in 1..(Len(s) + 1) |-> r[n]] BY <1>6, SeqIs DEF r
  <2>2. \A n \in 1..(Len(s) + 1) : r[n] = IF n <= k THEN s[n] ELSE IF n = k + 1 THEN t ELSE s[n - 1]
    BY <1>7 DEF r
  <2> QED BY <2>1, <2>2 DEF Inserted
<1> QED BY <1>1, <1>6, <1>8 DEF r

LEMMA RemoveAtIs ==
  ASSUME NEW S, NEW s \in Seq(S), NEW k \in 1..Len(s)
  PROVE  RemoveAt(s, k) = Removed(s, k) /\ Removed(s, k) \in Seq(S)
<1> DEFINE a == SubSeq(s, 1, k - 1)
           b == SubSeq(s, k + 1, Len(s))
<1>1. RemoveAt(s, k) = a \o b BY DEF RemoveAt
<1>2. a \in Seq(S) /\ Len(a) = k - 1 /\ \A i \in 1..(k - 1) : a[i] = s[i]
  <2>1. 1 \in 1..(Len(s) + 1) /\ k - 1 \in (1 - 1)..Len(s) OBVIOUS
  <2> QED BY <2>1, PartOf
<1>3. b \in Seq(S) /\ Len(b) = Len(s) - k /\ \A i \in 1..(Len(s) - k) : b[i] = s[k + i]
  <2>1. k + 1 \in 1..(Len(s) + 1) /\ Len(s) \in ((k + 1) - 1)..Len(s) OBVIOUS
  <2> QED BY <2>1, PartOf
<1> HIDE DEF a, b
<1>4. /\ a \o b \in Seq(S) /\ Len(a \o b) = Len(s) - 1
      /\ \A i \in 1..(Len(s) - 1) : (a \o b)[i] = IF i <= k - 1 THEN a[i] ELSE b[i - (k - 1)]
  <2>1. /\ a \o b \in Seq(S) /\ Len(a \o b) = Len(a) + Len(b)
        /\ \A i \in 1..(Len(a) + Len(b)) : (a \o b)[i] = IF i <= Len(a) THEN a[i] ELSE b[i - Len(a)]
    BY <1>2, <1>3, ConcatProperties
  <2>2. Len(a) + Len(b) = Len(s) - 1 /\ Len(a) = k - 1 BY <1>2, <1>3
  <2> QED BY <2>1, <2>2
<1>5. ASSUME NEW i \in 1..(Len(s) - 1)
      PROVE  (a \o b)[i] = IF i < k THEN s[i] ELSE s[i + 1]
  <2>1. CASE i < k
    <3>1. i <= k - 1 /\ i \in 1..(k - 1) BY <2>1
    <3>2. (a \o b)[i] = a[i] BY <1>4, <3>1
    <3> QED BY <1>2, <2>1, <3>1, <3>2
  <2>2. CASE ~(i < k)
    <3>1. ~(i <= k - 1) /\ i - (k - 1) \in 1..(Len(s) - k) /\ k + (i - (k - 1)) = i + 1 BY <2>2
    <3>2. (a \o b)[i] = b[i - (k - 1)] BY <1>4, <3>1
    <3>3. b[i - (k - 1)] = s[k + (i - (k - 1))] BY <1>3, <3>1
    <3> QED BY <2>2, <3>1, <3>2, <3>3
  <2> QED BY <2>1, <2>2
<1> DEFINE r == a \o b
<1> HIDE DEF r
<1>6. r = Removed(s, k)
  <2>1. r = [n \in 1..(Len(s) - 1) |-> r[n]] BY <1>4, SeqIs DEF r
  <2>2. \A n \in 1..(Len(s) - 1) : r[n] = IF n < k THEN s[n] ELSE s[n + 1] BY <1>5 DEF r
  <2> QED BY <2>1, <2>2 DEF Removed
<1> QED BY <1>1, <1>4, <1>6 DEF r

LEMMA InSet == ASSUME NEW s PROVE \A x : x \in ToSet(s) <=> \E n \in DOMAIN s : s[n] = x
BY DEF ToSet

LEMMA InsertedKeeps ==
  ASSUME NEW l \in Seq(Tx), NEW t \in Tx, NEW k \in 0..Len(l),
         NEW h \in [Tx -> Nat], t \notin ToSet(l), Distinct(l), Ordered(l, h),
         k # 0 => h[l[k]] <= h[t],
         \A n \in (k + 1)..Len(l) : h[t] <= h[l[n]]
  PROVE  LET s == Inserted(l, k, t)
         IN  /\ s \in Seq(Tx) /\ Len(s) = Len(l) + 1
             /\ Distinct(s) /\ Ordered(s, h) /\ ToSet(s) = ToSet(l) \union {t}
<1> DEFINE s == Inserted(l, k, t)
<1>1. s \in Seq(Tx) BY InsertAtIs
<1>2. /\ DOMAIN s = 1..(Len(l) + 1)
      /\ \A n \in 1..(Len(l) + 1) : s[n] = IF n <= k THEN l[n] ELSE IF n = k + 1 THEN t ELSE l[n - 1]
  BY DEF Inserted
<1> HIDE DEF s
<1>3. Len(s) = Len(l) + 1 BY <1>1, <1>2
<1>4. /\ DOMAIN l = 1..Len(l) /\ Len(l) \in Nat /\ k \in Nat /\ k <= Len(l)
      /\ \A n \in 1..Len(l) : l[n] \in Tx /\ l[n] # t
  BY DEF ToSet
<1>5. ToSet(s) = ToSet(l) \union {t}
  <2>1. ASSUME NEW n \in 1..(Len(l) + 1) PROVE s[n] \in ToSet(l) \union {t}
    <3>1. n <= k => n \in 1..Len(l) BY <1>4
    <3>2. ~(n <= k) /\ n # k + 1 => n - 1 \in 1..Len(l) BY <1>4
    <3> QED BY <1>2, <1>4, <3>1, <3>2 DEF ToSet
  <2>2. ASSUME NEW n \in 1..Len(l) PROVE \E m \in 1..(Len(l) + 1) : s[m] = l[n]
    <3>1. CASE n <= k BY <1>2, <1>4, <3>1
    <3>2. CASE ~(n <= k)
      <4>1. n + 1 \in 1..(Len(l) + 1) /\ ~(n + 1 <= k) /\ n + 1 # k + 1 /\ (n + 1) - 1 = n
        BY <1>4, <3>2
      <4> QED BY <1>2, <4>1
    <3> QED BY <3>1, <3>2
  <2>3. s[k + 1] = t /\ k + 1 \in 1..(Len(l) + 1)
    <3>1. k + 1 \in 1..(Len(l) + 1) /\ ~(k + 1 <= k) BY <1>4
    <3> QED BY <1>2, <3>1
  <2>4. \A x : x \in ToSet(s) => x \in ToSet(l) \union {t} BY <1>2, <2>1, InSet
  <2>5. ASSUME NEW x \in ToSet(l) PROVE x \in ToSet(s)
    <3>1. PICK n \in 1..Len(l) : l[n] = x BY <1>4, InSet
    <3>2. PICK m \in 1..(Len(l) + 1) : s[m] = l[n] BY <2>2
    <3> QED BY <1>2, <3>1, <3>2, InSet
  <2>6. t \in ToSet(s) BY <1>2, <2>3, InSet
  <2> QED BY <2>4, <2>5, <2>6
<1> DEFINE at(n) == IF n <= k THEN n ELSE n - 1
<1>6. \A n \in 1..(Len(l) + 1) : n # k + 1 => at(n) \in 1..Len(l) /\ s[n] = l[at(n)]
  BY <1>2, <1>4
<1>7. s[k + 1] = t /\ k + 1 \in 1..(Len(l) + 1)
  <2>1. k + 1 \in 1..(Len(l) + 1) /\ ~(k + 1 <= k) BY <1>4
  <2> QED BY <1>2, <2>1
<1>8. \A m, n \in 1..(Len(l) + 1) :
        m # k + 1 /\ n # k + 1 => (at(m) = at(n) => m = n) /\ (m < n => at(m) < at(n))
  BY <1>4
<1>8a. \A n \in 1..(Len(l) + 1) : (n < k + 1 => k # 0 /\ at(n) <= k /\ k \in 1..Len(l)) /\ (k + 1 < n => at(n) \in (k + 1)..Len(l))
  BY <1>4
<1> HIDE DEF at
<1>9. Distinct(s)
  <2> SUFFICES ASSUME NEW m \in 1..(Len(l) + 1), NEW n \in 1..(Len(l) + 1), s[m] = s[n]
               PROVE  m = n
    BY <1>2 DEF Distinct
  <2>1. CASE m = k + 1 BY <1>4, <1>6, <1>7, <2>1
  <2>2. CASE n = k + 1 BY <1>4, <1>6, <1>7, <2>2
  <2>3. CASE m # k + 1 /\ n # k + 1
    <3>1. at(m) = at(n) BY <1>4, <1>6, <2>3 DEF Distinct
    <3> QED BY <1>8, <2>3, <3>1
  <2> QED BY <2>1, <2>2, <2>3
<1>10. Ordered(s, h)
  <2> SUFFICES ASSUME NEW m \in 1..(Len(l) + 1), NEW n \in 1..(Len(l) + 1), m < n
               PROVE  h[s[m]] <= h[s[n]]
    BY <1>2 DEF Ordered
  <2>1. CASE m = k + 1
    <3>1. at(n) \in (k + 1)..Len(l) BY <1>8a, <2>1
    <3> QED BY <1>4, <1>6, <1>7, <2>1, <3>1
  <2>2. CASE n = k + 1
    <3>1. k # 0 /\ at(m) <= k /\ k \in 1..Len(l) BY <1>8a, <2>2
    <3>2. m # k + 1 BY <1>4, <2>2
    <3>3. at(m) \in 1..Len(l) /\ s[m] = l[at(m)] BY <1>6, <3>2
    <3>4. h[l[at(m)]] <= h[l[k]]
      <4>1. CASE at(m) = k BY <1>4, <3>1, <4>1
      <4>2. CASE at(m) < k BY <1>4, <3>1, <3>3, <4>2 DEF Ordered
      <4> QED BY <3>1, <3>3, <4>1, <4>2
    <3>5. h[l[k]] \in Nat /\ h[l[at(m)]] \in Nat /\ h[t] \in Nat BY <1>4, <3>1, <3>3
    <3> QED BY <1>7, <2>2, <3>1, <3>3, <3>4, <3>5
  <2>3. CASE m # k + 1 /\ n # k + 1
    <3>1. at(m) < at(n) BY <1>8, <2>3
    <3> QED BY <1>4, <1>6, <2>3, <3>1 DEF Ordered
  <2> QED BY <2>1, <2>2, <2>3
<1> QED BY <1>1, <1>3, <1>5, <1>9, <1>10 DEF s

LEMMA RemovedKeeps ==
  ASSUME NEW l \in Seq(Tx), NEW k \in 1..Len(l), NEW h \in [Tx -> Nat], Distinct(l)
  PROVE  LET s == Removed(l, k)
         IN  /\ s \in Seq(Tx) /\ Len(s) = Len(l) - 1
             /\ Distinct(s) /\ ToSet(s) = ToSet(l) \ {l[k]}
             /\ \A g \in [Tx -> Nat] : (\A t \in Tx : t # l[k] => g[t] = h[t])
                                         /\ Ordered(l, h) => Ordered(s, g)
<1> DEFINE s == Removed(l, k)
<1>1. s \in Seq(Tx) BY RemoveAtIs
<1>2. /\ DOMAIN s = 1..(Len(l) - 1)
      /\ \A n \in 1..(Len(l) - 1) : s[n] = IF n < k THEN l[n] ELSE l[n + 1]
  BY DEF Removed
<1> HIDE DEF s
<1>3. Len(s) = Len(l) - 1 BY <1>1, <1>2
<1>4. DOMAIN l = 1..Len(l) /\ Len(l) \in Nat /\ k \in Nat /\ \A n \in 1..Len(l) : l[n] \in Tx
  OBVIOUS
<1> DEFINE at(n) == IF n < k THEN n ELSE n + 1
<1>5. \A n \in 1..(Len(l) - 1) : at(n) \in 1..Len(l) /\ s[n] = l[at(n)] /\ at(n) # k
  BY <1>2, <1>4
<1>6. \A m, n \in 1..(Len(l) - 1) : (at(m) = at(n) => m = n) /\ (m < n => at(m) < at(n))
  BY <1>4
<1>7. \A n \in 1..Len(l) : n # k => \E m \in 1..(Len(l) - 1) : at(m) = n
  <2> SUFFICES ASSUME NEW n \in 1..Len(l), n # k PROVE \E m \in 1..(Len(l) - 1) : at(m) = n
    OBVIOUS
  <2>1. CASE n < k BY <1>4, <2>1
  <2>2. CASE k < n
    <3>1. n - 1 \in 1..(Len(l) - 1) /\ ~(n - 1 < k) BY <1>4, <2>2
    <3>2. at(n - 1) = n BY <3>1
    <3> QED BY <3>1, <3>2
  <2> QED BY <1>4, <2>1, <2>2
<1> HIDE DEF at
<1>8. Distinct(s)
  <2> SUFFICES ASSUME NEW m \in 1..(Len(l) - 1), NEW n \in 1..(Len(l) - 1), s[m] = s[n]
               PROVE  m = n
    BY <1>2 DEF Distinct
  <2>1. at(m) = at(n) BY <1>4, <1>5 DEF Distinct
  <2> QED BY <1>6, <2>1
<1>9. ToSet(s) = ToSet(l) \ {l[k]}
  <2>1. \A n \in 1..(Len(l) - 1) : s[n] \in ToSet(l) \ {l[k]}
    BY <1>4, <1>5 DEF ToSet, Distinct
  <2>2. \A n \in 1..Len(l) : l[n] # l[k] => \E m \in 1..(Len(l) - 1) : s[m] = l[n]
    BY <1>5, <1>7
  <2>3. \A x : x \in ToSet(s) => x \in ToSet(l) \ {l[k]} BY <1>2, <2>1, InSet
  <2>4. \A x : x \in ToSet(l) /\ x # l[k] => x \in ToSet(s) BY <1>2, <1>4, <2>2, InSet
  <2> QED BY <2>3, <2>4
<1>10. ASSUME NEW g \in [Tx -> Nat], \A t \in Tx : t # l[k] => g[t] = h[t], Ordered(l, h)
       PROVE  Ordered(s, g)
  <2>1. \A n \in 1..(Len(l) - 1) : l[at(n)] \in Tx /\ l[at(n)] # l[k]
    BY <1>4, <1>5 DEF Distinct
  <2>2. \A n \in 1..(Len(l) - 1) : g[s[n]] = h[l[at(n)]] BY <1>5, <1>10, <2>1
  <2>3. \A m, n \in 1..(Len(l) - 1) : m < n => h[l[at(m)]] <= h[l[at(n)]]
    BY <1>4, <1>5, <1>6, <1>10 DEF Ordered
  <2>4. \A m, n \in 1..(Len(l) - 1) : m < n => g[s[m]] <= g[s[n]] BY <2>2, <2>3
  <2> QED BY <1>2, <2>4 DEF Ordered
<1> QED BY <1>1, <1>3, <1>8, <1>9, <1>10 DEF s

-----------------------------------------------------------------------------
(* The sum of a set of outputs.                                             *)
amount(u) == Outs[u[1]][u[2]].amt

(* What Amount[S] is in terms of f.                                         *)
Summed(f, S) == IF S = {} THEN 0
                ELSE LET u == CHOOSE u \in S : TRUE IN f[S \ {u}] + amount(u)

UpToSize(n) == {S \in SUBSET Outputs : Cardinality(S) <= n}

LEMMA ElementIs ==
  ASSUME NEW S, NEW s \in Seq(S), NEW n \in DOMAIN s
  PROVE  s[n] \in S
OBVIOUS

LEMMA OutputIs ==
  \A u \in Outputs : u[1] \in Tx /\ u[2] \in DOMAIN Outs[u[1]] /\ u = <<u[1], u[2]>> /\ amount(u) \in Nat
<1> SUFFICES ASSUME NEW u \in Outputs
             PROVE  u[1] \in Tx /\ u[2] \in DOMAIN Outs[u[1]] /\ u = <<u[1], u[2]>> /\ amount(u) \in Nat
  OBVIOUS
<1>1. PICK t \in Tx : u \in {t} \X DOMAIN Outs[t] BY DEF Outputs
<1>2. u[1] = t /\ u[2] \in DOMAIN Outs[t] /\ u = <<u[1], u[2]>> BY <1>1
<1>3. Outs[t] \in Seq([addr : Address, amt : Nat]) BY TxAssumption
<1>4. Outs[t][u[2]] \in [addr : Address, amt : Nat] BY <1>2, <1>3, ElementIs
<1>5. amount(u) \in Nat BY <1>2, <1>4 DEF amount
<1> QED BY <1>2, <1>5

LEMMA OutputsAreFinite == IsFiniteSet(Outputs)
<1>1. \A t \in Tx : IsFiniteSet({t} \X DOMAIN Outs[t])
  <2> SUFFICES ASSUME NEW t \in Tx PROVE IsFiniteSet({t} \X DOMAIN Outs[t])
    OBVIOUS
  <2>1. DOMAIN Outs[t] = 1..Len(Outs[t]) /\ Len(Outs[t]) \in Nat BY TxAssumption
  <2>2. IsFiniteSet(DOMAIN Outs[t]) BY <2>1, FS_Interval
  <2>3. IsFiniteSet({t}) BY FS_Singleton
  <2> QED BY <2>2, <2>3, FS_Product
<1>2. IsFiniteSet({{t} \X DOMAIN Outs[t] : t \in Tx})
  <2> DEFINE T == {{t} \X DOMAIN Outs[t] : t \in Tx}
             f == [t \in Tx |-> {t} \X DOMAIN Outs[t]]
  <2>1. f \in [Tx -> T] /\ \A x \in T : \E t \in Tx : f[t] = x OBVIOUS
  <2> HIDE DEF f, T
  <2>2. f \in Surjection(Tx, T) BY <2>1, Fun_IsSurj
  <2>3. IsFiniteSet(T) BY <2>2, FS_Surjection, TxAssumption
  <2> QED BY <2>3 DEF T
<1> QED BY <1>1, <1>2, FS_UNION DEF Outputs

LEMMA Subsets ==
  ASSUME NEW S \in SUBSET Outputs
  PROVE  /\ IsFiniteSet(S) /\ Cardinality(S) \in Nat
         /\ S = {} <=> Cardinality(S) = 0
         /\ \A u \in S : S \ {u} \in SUBSET Outputs /\ Cardinality(S \ {u}) = Cardinality(S) - 1
<1>1. IsFiniteSet(S) BY OutputsAreFinite, FS_Subset
<1> QED BY <1>1, FS_CardinalityType, FS_EmptySet, FS_RemoveElement

LEMMA AmountExists ==
  ASSUME NEW n \in Nat
  PROVE  \E f : f = [S \in UpToSize(n) |-> Summed(f, S)]
<1> DEFINE P == {m \in Nat : \E f : f = [S \in UpToSize(m) |-> Summed(f, S)]}
<1>1. 0 \in P
  <2> DEFINE f == [S \in UpToSize(0) |-> 0]
  <2>1. \A S \in UpToSize(0) : S = {} BY Subsets DEF UpToSize
  <2>2. \A S \in UpToSize(0) : Summed(f, S) = 0 BY <2>1 DEF Summed
  <2>3. f = [S \in UpToSize(0) |-> Summed(f, S)] BY <2>2
  <2> QED BY <2>3
<1>2. ASSUME NEW m \in Nat, m \in P PROVE m + 1 \in P
  <2>1. PICK f : f = [S \in UpToSize(m) |-> Summed(f, S)] BY <1>2
  <2> DEFINE g == [S \in UpToSize(m + 1) |-> Summed(f, S)]
  <2>2. \A S \in UpToSize(m) : f[S] = Summed(f, S) BY <2>1
  <2>3. \A S \in UpToSize(m) : g[S] = f[S]
    <3>1. UpToSize(m) \subseteq UpToSize(m + 1) BY Subsets DEF UpToSize
    <3> QED BY <2>2, <3>1
  <2>4. \A S \in UpToSize(m + 1) : g[S] = Summed(f, S) OBVIOUS
  <2> HIDE DEF g
  <2>5. ASSUME NEW S \in UpToSize(m + 1) PROVE g[S] = Summed(g, S)
    <3>1. CASE S = {} BY <2>4, <3>1 DEF Summed
    <3>2. CASE S # {}
      <4> DEFINE u == CHOOSE u \in S : TRUE
      <4>1. u \in S BY <3>2
      <4> HIDE DEF u
      <4>2. S \in SUBSET Outputs /\ Cardinality(S) <= m + 1 BY DEF UpToSize
      <4>3. S \ {u} \in SUBSET Outputs /\ Cardinality(S \ {u}) = Cardinality(S) - 1 /\ Cardinality(S) \in Nat
        BY <4>1, <4>2, Subsets
      <4>4. S \ {u} \in UpToSize(m) BY <4>2, <4>3 DEF UpToSize
      <4>5. g[S \ {u}] = f[S \ {u}] BY <2>3, <4>4
      <4> QED BY <2>4, <3>2, <4>5 DEF Summed, u
    <3> QED BY <3>1, <3>2
  <2>6. g = [S \in UpToSize(m + 1) |-> Summed(g, S)]
    <3>1. g = [S \in UpToSize(m + 1) |-> g[S]] BY DEF g
    <3> QED BY <2>5, <3>1
  <2> QED BY <2>6
<1> HIDE DEF P
<1>3. n \in P BY <1>1, <1>2, UpTo
<1> QED BY <1>3 DEF P

LEMMA AmountIs ==
  ASSUME NEW S \in SUBSET Outputs
  PROVE  Amount[S] = Summed(Amount, S)
<1> DEFINE n == Cardinality(Outputs)
<1>1. n \in Nat BY OutputsAreFinite, FS_CardinalityType
<1>2. UpToSize(n) = SUBSET Outputs BY OutputsAreFinite, FS_Subset DEF UpToSize
<1>3. \E f : f = [T \in SUBSET Outputs |-> Summed(f, T)] BY <1>1, <1>2, AmountExists
<1>4. Amount = CHOOSE f : f = [T \in SUBSET Outputs |-> Summed(f, T)] BY DEF Amount, Summed, amount
<1>5. Amount = [T \in SUBSET Outputs |-> Summed(Amount, T)] BY <1>3, <1>4
<1> QED BY <1>5

LEMMA AmountIsNat == \A S \in SUBSET Outputs : Amount[S] \in Nat
<1> DEFINE G(n) == \A S \in UpToSize(n) : Amount[S] \in Nat
           P == {n \in Nat : G(n)}
<1>1. G(0)
  <2>1. \A S \in UpToSize(0) : S = {} BY Subsets DEF UpToSize
  <2>2. Amount[{}] = 0 BY AmountIs DEF Summed
  <2> QED BY <2>1, <2>2
<1>2. ASSUME NEW m \in Nat, G(m) PROVE G(m + 1)
  <2> SUFFICES ASSUME NEW S \in UpToSize(m + 1) PROVE Amount[S] \in Nat
    OBVIOUS
  <2> SUFFICES ASSUME S # {} PROVE Amount[S] \in Nat
    <3>1. S = {} => Amount[S] = 0 BY AmountIs DEF Summed, UpToSize
    <3> QED BY <3>1
  <2> DEFINE u == CHOOSE u \in S : TRUE
  <2>1. u \in S /\ S \in SUBSET Outputs /\ Cardinality(S) <= m + 1 BY DEF UpToSize
  <2>2. Amount[S] = Amount[S \ {u}] + amount(u) BY <2>1, AmountIs DEF Summed
  <2> HIDE DEF u
  <2>3. S \ {u} \in SUBSET Outputs /\ Cardinality(S \ {u}) = Cardinality(S) - 1 /\ Cardinality(S) \in Nat
    BY <2>1, Subsets
  <2>4. S \ {u} \in UpToSize(m) BY <2>1, <2>3 DEF UpToSize
  <2>5. Amount[S \ {u}] \in Nat BY <1>2, <2>4
  <2>6. amount(u) \in Nat BY <2>1, OutputIs
  <2> QED BY <2>2, <2>5, <2>6
<1> HIDE DEF G
<1> SUFFICES ASSUME NEW S \in SUBSET Outputs PROVE Amount[S] \in Nat
  OBVIOUS
<1>3. Cardinality(S) \in Nat BY Subsets
<1>4. G(Cardinality(S))
  <2>1. 0 \in P /\ \A k \in Nat : k \in P => k + 1 \in P BY <1>1, <1>2
  <2> HIDE DEF P
  <2>2. Cardinality(S) \in P BY <1>3, <2>1, UpTo
  <2> QED BY <2>2 DEF P
<1>5. S \in UpToSize(Cardinality(S)) BY <1>3 DEF UpToSize
<1> QED BY <1>4, <1>5 DEF G

(* The order in which the amounts are added does not matter.                *)
LEMMA AmountWithout ==
  \A S \in SUBSET Outputs : \A u \in S : Amount[S] = Amount[S \ {u}] + amount(u)
<1> DEFINE G(n) == \A S \in UpToSize(n) : \A u \in S : Amount[S] = Amount[S \ {u}] + amount(u)
           P == {n \in Nat : G(n)}
<1>1. G(0)
  <2>1. \A S \in UpToSize(0) : S = {} BY Subsets DEF UpToSize
  <2> QED BY <2>1
<1>2. ASSUME NEW m \in Nat, G(m) PROVE G(m + 1)
  <2> SUFFICES ASSUME NEW S \in UpToSize(m + 1), NEW u \in S
               PROVE  Amount[S] = Amount[S \ {u}] + amount(u)
    OBVIOUS
  <2> DEFINE c == CHOOSE c \in S : TRUE
  <2>1. c \in S /\ S \in SUBSET Outputs /\ Cardinality(S) <= m + 1 BY DEF UpToSize
  <2>2. Amount[S] = Amount[S \ {c}] + amount(c) BY <2>1, AmountIs DEF Summed
  <2> HIDE DEF c
  <2> SUFFICES ASSUME c # u PROVE Amount[S] = Amount[S \ {u}] + amount(u)
    BY <2>2
  <2> DEFINE A == S \ {c}
             B == S \ {u}
             D == (S \ {c}) \ {u}
  <2>3. A \in SUBSET Outputs /\ B \in SUBSET Outputs /\ D \in SUBSET Outputs BY <2>1
  <2>4. Cardinality(A) = Cardinality(S) - 1 /\ Cardinality(B) = Cardinality(S) - 1 /\ Cardinality(S) \in Nat
    BY <2>1, Subsets
  <2>5. A \in UpToSize(m) /\ B \in UpToSize(m) BY <2>1, <2>3, <2>4 DEF UpToSize
  <2>6. u \in A /\ c \in B /\ A \ {u} = D /\ B \ {c} = D BY <2>1
  <2> HIDE DEF A, B, D
  <2>7. Amount[A] = Amount[D] + amount(u) /\ Amount[B] = Amount[D] + amount(c) BY <1>2, <2>5, <2>6
  <2>8. Amount[D] \in Nat /\ amount(u) \in Nat /\ amount(c) \in Nat
    BY <2>1, <2>3, AmountIsNat, OutputIs
  <2>9. Amount[S] = Amount[A] + amount(c) BY <2>2 DEF A
  <2>10. Amount[S] = Amount[B] + amount(u) BY <2>7, <2>8, <2>9
  <2> QED BY <2>10 DEF B
<1> HIDE DEF G
<1> SUFFICES ASSUME NEW S \in SUBSET Outputs, NEW u \in S PROVE Amount[S] = Amount[S \ {u}] + amount(u)
  OBVIOUS
<1>3. Cardinality(S) \in Nat BY Subsets
<1>4. G(Cardinality(S))
  <2>1. 0 \in P /\ \A k \in Nat : k \in P => k + 1 \in P BY <1>1, <1>2
  <2> HIDE DEF P
  <2>2. Cardinality(S) \in P BY <1>3, <2>1, UpTo
  <2> QED BY <2>2 DEF P
<1>5. S \in UpToSize(Cardinality(S)) BY <1>3 DEF UpToSize
<1> QED BY <1>4, <1>5 DEF G

(* The sum of two sets that share nothing.                                  *)
LEMMA AmountOfBoth ==
  \A A, B \in SUBSET Outputs : A \intersect B = {} => Amount[A \union B] = Amount[A] + Amount[B]
<1> DEFINE G(n) == \A B \in UpToSize(n) : \A A \in SUBSET Outputs :
                     A \intersect B = {} => Amount[A \union B] = Amount[A] + Amount[B]
           P == {n \in Nat : G(n)}
<1>0. {} \in SUBSET Outputs /\ Amount[{}] = 0 BY AmountIs DEF Summed
<1>1. G(0)
  <2>1. \A B \in UpToSize(0) : B = {} BY Subsets DEF UpToSize
  <2>2. \A A \in SUBSET Outputs : A \union {} = A /\ Amount[A] = Amount[A] + 0 BY AmountIsNat
  <2> QED BY <1>0, <2>1, <2>2
<1>2. ASSUME NEW m \in Nat, G(m) PROVE G(m + 1)
  <2> SUFFICES ASSUME NEW B \in UpToSize(m + 1), NEW A \in SUBSET Outputs, A \intersect B = {}
               PROVE  Amount[A \union B] = Amount[A] + Amount[B]
    OBVIOUS
  <2>1. B \in SUBSET Outputs /\ Cardinality(B) <= m + 1 BY DEF UpToSize
  <2>2. CASE B = {}
    <3>1. A \union B = A /\ Amount[A] \in Nat BY <2>2, AmountIsNat
    <3> QED BY <1>0, <2>2, <3>1
  <2>3. CASE B # {}
    <3>1. PICK u \in B : TRUE BY <2>3
    <3> DEFINE D == B \ {u}
    <3>2. D \in SUBSET Outputs /\ Cardinality(D) = Cardinality(B) - 1 /\ Cardinality(B) \in Nat
      BY <2>1, <3>1, Subsets
    <3>3. D \in UpToSize(m) /\ A \intersect D = {} BY <2>1, <3>2 DEF UpToSize
    <3>4. A \union B \in SUBSET Outputs /\ u \in A \union B /\ (A \union B) \ {u} = A \union D
      BY <2>1, <3>1
    <3>5. Amount[B] = Amount[D] + amount(u) BY <2>1, <3>1, AmountWithout
    <3>6. Amount[A \union B] = Amount[A \union D] + amount(u) BY <3>4, AmountWithout
    <3>7. Amount[A \union D] = Amount[A] + Amount[D]
      <4> HIDE DEF D
      <4> QED BY <1>2, <3>3
    <3>8. Amount[A] \in Nat /\ Amount[D] \in Nat /\ amount(u) \in Nat
      BY <2>1, <3>1, <3>2, AmountIsNat, OutputIs
    <3> QED BY <3>5, <3>6, <3>7, <3>8
  <2> QED BY <2>2, <2>3
<1> HIDE DEF G
<1> SUFFICES ASSUME NEW A \in SUBSET Outputs, NEW B \in SUBSET Outputs, A \intersect B = {}
             PROVE  Amount[A \union B] = Amount[A] + Amount[B]
  OBVIOUS
<1>3. Cardinality(B) \in Nat BY Subsets
<1>4. G(Cardinality(B))
  <2>1. 0 \in P /\ \A k \in Nat : k \in P => k + 1 \in P BY <1>1, <1>2
  <2> HIDE DEF P
  <2>2. Cardinality(B) \in P BY <1>3, <2>1, UpTo
  <2> QED BY <2>2 DEF P
<1>5. B \in UpToSize(Cardinality(B)) BY <1>3 DEF UpToSize
<1> QED BY <1>4, <1>5 DEF G

-----------------------------------------------------------------------------
(* The walk of UpdateBalance along the array.                               *)
AccountAt(x, f, k) == IF k = 0 THEN NoAccount ELSE AccountTx(x, f[k - 1], x.list[k])

LEMMA AccountExists ==
  ASSUME NEW x, NEW n \in Nat
  PROVE  \E f : f = [k \in 0..n |-> AccountAt(x, f, k)]
<1> DEFINE P == {m \in Nat : \E f : f = [k \in 0..m |-> AccountAt(x, f, k)]}
<1>1. 0 \in P
  <2> DEFINE f == [k \in 0..0 |-> NoAccount]
  <2>1. \A k \in 0..0 : AccountAt(x, f, k) = NoAccount BY DEF AccountAt
  <2>2. f = [k \in 0..0 |-> AccountAt(x, f, k)] BY <2>1
  <2> QED BY <2>2
<1>2. ASSUME NEW m \in Nat, m \in P PROVE m + 1 \in P
  <2>1. PICK f : f = [k \in 0..m |-> AccountAt(x, f, k)] BY <1>2
  <2> DEFINE g == [k \in 0..(m + 1) |-> AccountAt(x, f, k)]
  <2>2. \A k \in 0..m : g[k] = f[k]
    <3>1. \A k \in 0..m : f[k] = AccountAt(x, f, k) BY <2>1
    <3> QED BY <3>1
  <2>3. \A k \in 0..(m + 1) : g[k] = AccountAt(x, f, k) OBVIOUS
  <2>4. g = [k \in 0..(m + 1) |-> g[k]] OBVIOUS
  <2> HIDE DEF g
  <2>5. \A k \in 0..(m + 1) : AccountAt(x, f, k) = AccountAt(x, g, k)
    <3> SUFFICES ASSUME NEW k \in 0..(m + 1) PROVE AccountAt(x, f, k) = AccountAt(x, g, k)
      OBVIOUS
    <3>1. k # 0 => k - 1 \in 0..m OBVIOUS
    <3>2. k # 0 => f[k - 1] = g[k - 1] BY <2>2, <3>1
    <3> QED BY <3>2 DEF AccountAt
  <2>6. g = [k \in 0..(m + 1) |-> AccountAt(x, g, k)] BY <2>3, <2>4, <2>5
  <2> QED BY <2>6
<1> HIDE DEF P
<1>3. n \in P BY <1>1, <1>2, UpTo
<1> QED BY <1>3 DEF P

LEMMA AccountIs ==
  ASSUME NEW x, Len(x.list) \in Nat
  PROVE  \E f : /\ f[0] = NoAccount
                /\ \A k \in 1..Len(x.list) : f[k] = AccountTx(x, f[k - 1], x.list[k])
                /\ UpdateBalance(x) = [x EXCEPT !.acct = f[Len(x.list)]]
<1> DEFINE n == Len(x.list)
           f == CHOOSE f : f = [k \in 0..n |-> AccountAt(x, f, k)]
<1>1. f = [k \in 0..n |-> AccountAt(x, f, k)]
  <2>1. \E g : g = [k \in 0..n |-> AccountAt(x, g, k)] BY AccountExists
  <2> QED BY <2>1
<1>2. UpdateBalance(x) = [x EXCEPT !.acct = f[n]] BY DEF UpdateBalance, AccountAt
<1> HIDE DEF f
<1>3. \A k \in 0..n : f[k] = AccountAt(x, f, k) BY <1>1
<1>4. f[0] = NoAccount BY <1>3 DEF AccountAt
<1>5. \A k \in 1..n : f[k] = AccountTx(x, f[k - 1], x.list[k]) BY <1>3 DEF AccountAt
<1> QED BY <1>2, <1>4, <1>5

Accounts ==
  [utxos : SUBSET Outputs, spent : SUBSET UNION {Ins[t] : t \in Tx},
   invalid : SUBSET Tx, pending : SUBSET Tx, used : SUBSET Address,
   balance : Nat, hist : Seq(Nat), sent : Nat, received : Nat]

(* What holds of account a after the first k of the array.                  *)
CountsIn(a, t) == t \notin a.invalid \union a.pending

Marks(x, a, k) ==
  /\ \A u \in a.utxos : \E j \in 1..k : u[1] = x.list[j]
  /\ \A t \in a.invalid \union a.pending : IsUnconfirmed(x, t) /\ \E j \in 1..k : t = x.list[j]
  /\ \A j \in 1..k : x.list[j] \in a.invalid \/ Ins[x.list[j]] \subseteq a.spent

Excludes(x, a, k) ==
  /\ \A j \in 1..k : CountsIn(a, x.list[j]) => Ins[x.list[j]] \intersect a.utxos = {}
  /\ \A i, j \in 1..k : Conflicts(x.list[i], x.list[j]) => {x.list[i], x.list[j]} \intersect a.invalid # {}

Sums(a, k) ==
  /\ a.balance = Amount[a.utxos]
  /\ a.received = a.sent + a.balance
  /\ Len(a.hist) = k

(* The array that the walk goes along.                                      *)
Walkable(x) ==
  /\ x \in Wallets
  /\ Distinct(x.list)
  /\ Ordered(x.list, x.height)
  /\ \A i, j \in DOMAIN x.list :
       Conflicts(x.list[i], x.list[j]) => IsUnconfirmed(x, x.list[i]) \/ IsUnconfirmed(x, x.list[j])

LEMMA OwnOutputsAre ==
  ASSUME NEW l, NEW t \in Tx
  PROVE  /\ OwnOutputs(l, t) \in SUBSET Outputs /\ \A u \in OwnOutputs(l, t) : u[1] = t
         /\ OutAddrs(t) \in SUBSET Address
<1>1. OwnOutputs(l, t) \subseteq {t} \X DOMAIN Outs[t] BY DEF OwnOutputs
<1>2. {t} \X DOMAIN Outs[t] \subseteq Outputs BY DEF Outputs
<1>3. Outs[t] \in Seq([addr : Address, amt : Nat]) BY TxAssumption
<1>4. \A n \in DOMAIN Outs[t] : Outs[t][n] \in [addr : Address, amt : Nat] BY <1>3, ElementIs
<1>5. OutAddrs(t) \in SUBSET Address BY <1>4 DEF OutAddrs
<1> QED BY <1>1, <1>2, <1>5

(* The three ways in which a transaction is taken.                          *)
Invalidated(a, t) == [a EXCEPT !.invalid = @ \union {t}, !.hist = Append(@, a.balance)]
Postponed(a, t) == [a EXCEPT !.spent = @ \union Ins[t], !.pending = @ \union {t},
                             !.hist = Append(@, a.balance)]

LEMMA TakenIs ==
  ASSUME NEW x, NEW a, NEW t
  PROVE  \/ /\ IsUnconfirmed(x, t) /\ SpendsTaken(a, t) /\ AccountTx(x, a, t) = Invalidated(a, t)
         \/ /\ IsUnconfirmed(x, t) /\ ~SpendsTaken(a, t) /\ AccountTx(x, a, t) = Postponed(a, t)
         \/ /\ ~(IsUnconfirmed(x, t) /\ SpendsTaken(a, t)) /\ AccountTx(x, a, t) = Sweep(a, t, x.len)
BY DEF AccountTx, Invalidated, Postponed

LEMMA InvalidatedIs ==
  ASSUME NEW a \in Accounts, NEW t \in Tx
  PROVE  LET b == Invalidated(a, t)
         IN  /\ b \in Accounts /\ b.utxos = a.utxos /\ b.spent = a.spent
             /\ b.invalid = a.invalid \union {t} /\ b.pending = a.pending
             /\ b.balance = a.balance /\ b.sent = a.sent /\ b.received = a.received
             /\ Len(b.hist) = Len(a.hist) + 1
<1> DEFINE hist == Append(a.hist, a.balance)
           b == Invalidated(a, t)
<1>1. hist \in Seq(Nat) /\ Len(hist) = Len(a.hist) + 1 BY DEF Accounts
<1> HIDE DEF hist
<1>2. b = [a EXCEPT !.invalid = a.invalid \union {t}, !.hist = hist] BY DEF Invalidated, Accounts, hist
<1> HIDE DEF b
<1>3. b \in Accounts BY <1>1, <1>2 DEF Accounts
<1>4. /\ b.utxos = a.utxos /\ b.spent = a.spent /\ b.invalid = a.invalid \union {t}
      /\ b.pending = a.pending /\ b.balance = a.balance /\ b.sent = a.sent
      /\ b.received = a.received /\ b.hist = hist
  BY <1>2 DEF Accounts
<1> QED BY <1>1, <1>3, <1>4 DEF b

LEMMA PostponedIs ==
  ASSUME NEW a \in Accounts, NEW t \in Tx
  PROVE  LET b == Postponed(a, t)
         IN  /\ b \in Accounts /\ b.utxos = a.utxos /\ b.spent = a.spent \union Ins[t]
             /\ b.invalid = a.invalid /\ b.pending = a.pending \union {t}
             /\ b.balance = a.balance /\ b.sent = a.sent /\ b.received = a.received
             /\ Len(b.hist) = Len(a.hist) + 1
<1> DEFINE hist == Append(a.hist, a.balance)
           b == Postponed(a, t)
<1>1. hist \in Seq(Nat) /\ Len(hist) = Len(a.hist) + 1 BY DEF Accounts
<1> HIDE DEF hist
<1>2. b = [a EXCEPT !.spent = a.spent \union Ins[t], !.pending = a.pending \union {t}, !.hist = hist]
  BY DEF Postponed, Accounts, hist
<1> HIDE DEF b
<1>3. a.spent \union Ins[t] \in SUBSET UNION {Ins[s] : s \in Tx} BY DEF Accounts
<1>4. b \in Accounts BY <1>1, <1>2, <1>3 DEF Accounts
<1>5. /\ b.utxos = a.utxos /\ b.spent = a.spent \union Ins[t] /\ b.invalid = a.invalid
      /\ b.pending = a.pending \union {t} /\ b.balance = a.balance /\ b.sent = a.sent
      /\ b.received = a.received /\ b.hist = hist
  BY <1>2 DEF Accounts
<1> QED BY <1>1, <1>4, <1>5 DEF b

LEMMA Tally ==
  ASSUME NEW bal \in Nat, NEW sent \in Nat, NEW received \in Nat, received = sent + bal, NEW now \in Nat
  PROVE  LET got  == IF now > bal THEN received + (now - bal) ELSE received
             paid == IF now < bal THEN sent + (bal - now) ELSE sent
         IN  got \in Nat /\ paid \in Nat /\ got = paid + now
OBVIOUS

(* The balance that a sweep leaves is the sum of what it leaves unspent.    *)
LEMMA SweepIs ==
  ASSUME NEW a \in Accounts, NEW t \in Tx, NEW l, \A u \in a.utxos : u[1] # t,
         a.balance = Amount[a.utxos], a.received = a.sent + a.balance
  PROVE  LET b == Sweep(a, t, l)
         IN  /\ b \in Accounts /\ b.spent = a.spent \union Ins[t]
             /\ b.utxos = (a.utxos \union OwnOutputs(l, t)) \ b.spent
             /\ b.invalid = a.invalid /\ b.pending = a.pending
             /\ b.balance = Amount[b.utxos] /\ b.received = b.sent + b.balance
             /\ Len(b.hist) = Len(a.hist) + 1
<1> DEFINE spent == a.spent \union Ins[t]
           all == a.utxos \union OwnOutputs(l, t)
           left == all \ spent
           now == (a.balance + Amount[OwnOutputs(l, t)]) - Amount[all \ left]
           got == IF now > a.balance THEN a.received + (now - a.balance) ELSE a.received
           paid == IF now < a.balance THEN a.sent + (a.balance - now) ELSE a.sent
<1>1. Sweep(a, t, l) = [a EXCEPT !.spent = spent, !.utxos = left, !.used = @ \union OutAddrs(t),
                                 !.balance = now, !.hist = Append(@, now),
                                 !.received = got, !.sent = paid]
  BY DEF Sweep, Accounts
<1>2. spent \in SUBSET UNION {Ins[s] : s \in Tx} BY DEF Accounts
<1>3. a.used \union OutAddrs(t) \in SUBSET Address BY OwnOutputsAre DEF Accounts
<1>4. a.utxos \in SUBSET Outputs BY DEF Accounts
<1> HIDE DEF spent
<1>5. left \in SUBSET Outputs /\ now = Amount[left]
  <2> DEFINE own == OwnOutputs(l, t)
             utxos == a.utxos
             off == all \ left
  <2>1. own \in SUBSET Outputs /\ \A u \in own : u[1] = t BY OwnOutputsAre
  <2>2. utxos \in SUBSET Outputs /\ a.balance = Amount[utxos] /\ all = utxos \union own BY <1>4
  <2>3. utxos \intersect own = {} BY <2>1
  <2> HIDE DEF own, utxos
  <2>4. all \in SUBSET Outputs /\ left \in SUBSET Outputs /\ off \in SUBSET Outputs BY <2>1, <2>2
  <2>5. left \intersect off = {} /\ left \union off = all OBVIOUS
  <2>6. Amount[all] = Amount[utxos] + Amount[own] BY <2>1, <2>2, <2>3, AmountOfBoth
  <2>7. now = (Amount[utxos] + Amount[own]) - Amount[off] BY <2>2 DEF own
  <2> HIDE DEF all, left, off, now
  <2>8. Amount[all] = Amount[left] + Amount[off] BY <2>4, <2>5, AmountOfBoth
  <2>9. Amount[all] \in Nat /\ Amount[left] \in Nat /\ Amount[off] \in Nat BY <2>4, AmountIsNat
  <2>10. now = Amount[all] - Amount[off] BY <2>6, <2>7
  <2> QED BY <2>4, <2>8, <2>9, <2>10
<1>6. left = (a.utxos \union OwnOutputs(l, t)) \ spent OBVIOUS
<1> HIDE DEF left, now, all
<1>7. now \in Nat BY <1>5, AmountIsNat
<1>8. a.balance \in Nat /\ a.sent \in Nat /\ a.received \in Nat /\ a.hist \in Seq(Nat) BY DEF Accounts
<1>9. got \in Nat /\ paid \in Nat /\ got = paid + now BY <1>7, <1>8, Tally
<1>10. Append(a.hist, now) \in Seq(Nat) /\ Len(Append(a.hist, now)) = Len(a.hist) + 1 BY <1>7, <1>8
<1> HIDE DEF got, paid
<1> DEFINE b == Sweep(a, t, l)
           hist == Append(a.hist, now)
<1>11. /\ b.spent = spent /\ b.utxos = left /\ b.balance = now /\ b.sent = paid /\ b.received = got
       /\ b.invalid = a.invalid /\ b.pending = a.pending /\ b.hist = hist
  BY <1>1 DEF Accounts
<1>12. b \in Accounts
  <2> HIDE DEF hist
  <2>1. b = [a EXCEPT !.spent = spent, !.utxos = left, !.used = a.used \union OutAddrs(t),
                                 !.balance = now, !.hist = hist, !.received = got, !.sent = paid]
    BY <1>1 DEF Accounts, hist
  <2>2. hist \in Seq(Nat) BY <1>10 DEF hist
  <2> DEFINE used == a.used \union OutAddrs(t)
  <2>3. b = [utxos |-> left, spent |-> spent, invalid |-> a.invalid, pending |-> a.pending,
             used |-> used, balance |-> now, hist |-> hist, sent |-> paid, received |-> got]
    BY <2>1 DEF Accounts
  <2>4. used \in SUBSET Address /\ a.invalid \in SUBSET Tx /\ a.pending \in SUBSET Tx
    BY <1>3 DEF Accounts
  <2> HIDE DEF b, used
  <2> QED BY <1>2, <1>5, <1>7, <1>9, <2>2, <2>3, <2>4 DEF Accounts
<1> HIDE DEF b
<1>13. b.balance = Amount[b.utxos] /\ b.received = b.sent + b.balance BY <1>5, <1>9, <1>11
<1>14. Len(b.hist) = Len(a.hist) + 1 BY <1>10, <1>11 DEF hist
<1>15. b.utxos = (a.utxos \union OwnOutputs(l, t)) \ b.spent BY <1>6, <1>11
<1> QED BY <1>11, <1>12, <1>13, <1>14, <1>15 DEF b, spent

LEMMA TakenKeeps ==
  ASSUME NEW x, Walkable(x), NEW k \in Nat, k + 1 \in DOMAIN x.list,
         NEW a \in Accounts, Marks(x, a, k), Excludes(x, a, k), Sums(a, k)
  PROVE  LET b == AccountTx(x, a, x.list[k + 1])
         IN  b \in Accounts /\ Marks(x, b, k + 1) /\ Excludes(x, b, k + 1) /\ Sums(b, k + 1)
<1> DEFINE t == x.list[k + 1]
           b == AccountTx(x, a, t)
<1>1. /\ t \in Tx /\ \A j \in 1..k : j \in DOMAIN x.list /\ x.list[j] \in Tx /\ x.list[j] # t
      /\ k + 1 \in 1..(k + 1) /\ t = x.list[k + 1]
      /\ \A j \in 1..(k + 1) : j \in 1..k \/ j = k + 1
      /\ \A j \in 1..k : j \in 1..(k + 1)
  <2>1. x.list \in Seq(Tx) BY DEF Walkable, Wallets
  <2>2. DOMAIN x.list = 1..Len(x.list) /\ Len(x.list) \in Nat BY <2>1
  <2>3. \A j \in 1..k : j \in DOMAIN x.list BY <2>2
  <2>4. \A j \in DOMAIN x.list : x.list[j] \in Tx BY <2>1, ElementIs
  <2>5. \A j \in 1..k : x.list[j] # t BY <2>2, <2>3 DEF Walkable, Distinct
  <2> QED BY <2>3, <2>4, <2>5
<1>2. t \notin a.invalid \union a.pending BY <1>1 DEF Marks
<1>3. \A u \in a.utxos : u[1] # t BY <1>1 DEF Marks
(* An earlier one that spends the same output is invalid, or has marked it. *)
<1>4. ASSUME NEW j \in 1..k, Conflicts(t, x.list[j]) \/ Conflicts(x.list[j], t),
             ~(IsUnconfirmed(x, t) /\ SpendsTaken(a, t))
      PROVE  x.list[j] \in a.invalid
  <2> SUFFICES ASSUME x.list[j] \notin a.invalid PROVE FALSE
    OBVIOUS
  <2>1. Ins[t] \intersect Ins[x.list[j]] # {} /\ Conflicts(x.list[j], t) BY <1>4 DEF Conflicts
  <2>2. Ins[x.list[j]] \subseteq a.spent BY DEF Marks
  <2>3. SpendsTaken(a, t) BY <2>1, <2>2 DEF SpendsTaken
  <2>4. ~IsUnconfirmed(x, t) BY <1>4, <2>3
  <2>5. IsUnconfirmed(x, x.list[j]) BY <1>1, <2>1, <2>4 DEF Walkable
  <2>6. x.height[x.list[j]] <= x.height[t]
    <3>1. j < k + 1 BY <1>1
    <3> QED BY <1>1, <3>1 DEF Walkable, Ordered
  <2>7. x.height[t] \in 0..Unconfirmed /\ Unconfirmed \in Nat
    BY <1>1, WalletAssumption DEF Walkable, Wallets, Unconfirmed
  <2> QED BY <2>4, <2>5, <2>6, <2>7 DEF IsUnconfirmed
<1>5. a.balance = Amount[a.utxos] /\ a.received = a.sent + a.balance /\ Len(a.hist) = k BY DEF Sums
<1>6. CASE IsUnconfirmed(x, t) /\ SpendsTaken(a, t) /\ b = Invalidated(a, t)
  <2>1. /\ b \in Accounts /\ b.utxos = a.utxos /\ b.spent = a.spent
        /\ b.invalid = a.invalid \union {t} /\ b.pending = a.pending
        /\ b.balance = a.balance /\ b.sent = a.sent /\ b.received = a.received
        /\ Len(b.hist) = Len(a.hist) + 1
    BY <1>1, <1>6, InvalidatedIs
  <2> HIDE DEF t, b
  <2>2. Marks(x, b, k + 1) BY <1>1, <1>6, <2>1 DEF Marks
  <2>3. \A j \in 1..(k + 1) : CountsIn(b, x.list[j]) => Ins[x.list[j]] \intersect b.utxos = {}
    BY <1>1, <2>1 DEF Excludes, CountsIn
  <2>4. \A i, j \in 1..(k + 1) :
          Conflicts(x.list[i], x.list[j]) => {x.list[i], x.list[j]} \intersect b.invalid # {}
    BY <1>1, <2>1 DEF Excludes
  <2>5. Sums(b, k + 1) BY <1>5, <2>1 DEF Sums
  <2> QED BY <2>1, <2>2, <2>3, <2>4, <2>5 DEF Excludes, b, t
<1>7. CASE IsUnconfirmed(x, t) /\ ~SpendsTaken(a, t) /\ b = Postponed(a, t)
  <2>1. /\ b \in Accounts /\ b.utxos = a.utxos /\ b.spent = a.spent \union Ins[t]
        /\ b.invalid = a.invalid /\ b.pending = a.pending \union {t}
        /\ b.balance = a.balance /\ b.sent = a.sent /\ b.received = a.received
        /\ Len(b.hist) = Len(a.hist) + 1
    BY <1>1, <1>7, PostponedIs
  <2> HIDE DEF t, b
  <2>2. Marks(x, b, k + 1) BY <1>1, <1>7, <2>1 DEF Marks
  <2>3. \A j \in 1..(k + 1) : CountsIn(b, x.list[j]) => Ins[x.list[j]] \intersect b.utxos = {}
    BY <1>1, <2>1 DEF Excludes, CountsIn
  <2>4. \A i, j \in 1..(k + 1) :
          Conflicts(x.list[i], x.list[j]) => {x.list[i], x.list[j]} \intersect b.invalid # {}
    <3> SUFFICES ASSUME NEW i \in 1..(k + 1), NEW j \in 1..(k + 1), Conflicts(x.list[i], x.list[j])
                 PROVE  {x.list[i], x.list[j]} \intersect b.invalid # {}
      OBVIOUS
    <3>1. CASE i \in 1..k /\ j \in 1..k BY <2>1, <3>1 DEF Excludes
    <3>2. CASE i = k + 1 /\ j \in 1..k BY <1>1, <1>4, <1>7, <2>1, <3>2
    <3>3. CASE i \in 1..k /\ j = k + 1 BY <1>1, <1>4, <1>7, <2>1, <3>3
    <3>4. i # k + 1 \/ j # k + 1 BY DEF Conflicts
    <3> QED BY <1>1, <3>1, <3>2, <3>3, <3>4
  <2>5. Sums(b, k + 1) BY <1>5, <2>1 DEF Sums
  <2> QED BY <2>1, <2>2, <2>3, <2>4, <2>5 DEF Excludes, b, t
<1>8. CASE ~(IsUnconfirmed(x, t) /\ SpendsTaken(a, t)) /\ b = Sweep(a, t, x.len)
  <2>1. /\ b \in Accounts /\ b.spent = a.spent \union Ins[t]
        /\ b.utxos = (a.utxos \union OwnOutputs(x.len, t)) \ b.spent
        /\ b.invalid = a.invalid /\ b.pending = a.pending
        /\ b.balance = Amount[b.utxos] /\ b.received = b.sent + b.balance
        /\ Len(b.hist) = Len(a.hist) + 1
    BY <1>1, <1>3, <1>5, <1>8, SweepIs
  <2>2. \A u \in OwnOutputs(x.len, t) : u[1] = t BY <1>1, OwnOutputsAre
  <2> HIDE DEF t, b
  <2>3. Marks(x, b, k + 1)
    <3>1. \A u \in b.utxos : \E j \in 1..(k + 1) : u[1] = x.list[j]
      BY <1>1, <2>1, <2>2 DEF Marks
    <3>2. \A s \in b.invalid \union b.pending : IsUnconfirmed(x, s) /\ \E j \in 1..(k + 1) : s = x.list[j]
      BY <1>1, <2>1 DEF Marks
    <3>3. \A j \in 1..(k + 1) : x.list[j] \in b.invalid \/ Ins[x.list[j]] \subseteq b.spent
      BY <1>1, <2>1 DEF Marks
    <3> QED BY <3>1, <3>2, <3>3 DEF Marks
  <2>4. \A j \in 1..(k + 1) : CountsIn(b, x.list[j]) => Ins[x.list[j]] \intersect b.utxos = {}
    <3>1. \A j \in 1..(k + 1) : CountsIn(b, x.list[j]) => Ins[x.list[j]] \subseteq b.spent
      BY <1>1, <2>1, <2>3 DEF Marks, CountsIn
    <3>2. b.utxos \intersect b.spent = {} BY <2>1
    <3> QED BY <3>1, <3>2
  <2>5. \A i, j \in 1..(k + 1) :
          Conflicts(x.list[i], x.list[j]) => {x.list[i], x.list[j]} \intersect b.invalid # {}
    <3> SUFFICES ASSUME NEW i \in 1..(k + 1), NEW j \in 1..(k + 1), Conflicts(x.list[i], x.list[j])
                 PROVE  {x.list[i], x.list[j]} \intersect b.invalid # {}
      OBVIOUS
    <3>1. CASE i \in 1..k /\ j \in 1..k BY <2>1, <3>1 DEF Excludes
    <3>2. CASE i = k + 1 /\ j \in 1..k BY <1>1, <1>4, <1>8, <2>1, <3>2
    <3>3. CASE i \in 1..k /\ j = k + 1 BY <1>1, <1>4, <1>8, <2>1, <3>3
    <3>4. i # k + 1 \/ j # k + 1 BY DEF Conflicts
    <3> QED BY <1>1, <3>1, <3>2, <3>3, <3>4
  <2>6. Sums(b, k + 1) BY <1>5, <2>1 DEF Sums
  <2> QED BY <2>1, <2>3, <2>4, <2>5, <2>6 DEF Excludes, b, t
<1>9. \/ IsUnconfirmed(x, t) /\ SpendsTaken(a, t) /\ b = Invalidated(a, t)
      \/ IsUnconfirmed(x, t) /\ ~SpendsTaken(a, t) /\ b = Postponed(a, t)
      \/ ~(IsUnconfirmed(x, t) /\ SpendsTaken(a, t)) /\ b = Sweep(a, t, x.len)
  <2> HIDE DEF t
  <2> QED BY TakenIs
<1> HIDE DEF t, b
<1> QED BY <1>6, <1>7, <1>8, <1>9 DEF t, b

(* The account that the walk ends with.                                     *)
LEMMA BalanceIs ==
  ASSUME NEW x, Walkable(x)
  PROVE  LET y == UpdateBalance(x)
         IN  /\ y \in Wallets /\ AccountHolds(y) /\ ConfirmedCount(y)
             /\ y.allTx = x.allTx /\ y.list = x.list /\ y.height = x.height
             /\ y.blockHeight = x.blockHeight /\ y.len = x.len
<1> DEFINE n == Len(x.list)
           y == UpdateBalance(x)
<1>1. x \in Wallets /\ x.list \in Seq(Tx) /\ n \in Nat /\ DOMAIN x.list = 1..n BY DEF Walkable, Wallets
<1>2. PICK f : /\ f[0] = NoAccount
               /\ \A k \in 1..n : f[k] = AccountTx(x, f[k - 1], x.list[k])
               /\ y = [x EXCEPT !.acct = f[n]]
  BY <1>1, AccountIs
<1> HIDE DEF y
<1> DEFINE G(k) == f[k] \in Accounts /\ Marks(x, f[k], k) /\ Excludes(x, f[k], k) /\ Sums(f[k], k)
           P == {k \in 0..n : G(k)}
<1>3. G(0)
  <2>1. NoAccount \in Accounts BY DEF NoAccount, Accounts
  <2>2. Amount[{}] = 0 BY AmountIs DEF Summed
  <2>3. Sums(NoAccount, 0) BY <2>2 DEF Sums, NoAccount
  <2>4. Marks(x, NoAccount, 0) /\ Excludes(x, NoAccount, 0) BY DEF Marks, Excludes, NoAccount
  <2> QED BY <1>2, <2>1, <2>3, <2>4
<1>4. ASSUME NEW k \in 0..(n - 1), G(k) PROVE G(k + 1)
  <2>1. k \in Nat /\ k + 1 \in DOMAIN x.list /\ (k + 1) - 1 = k BY <1>1
  <2>2. f[k + 1] = AccountTx(x, f[k], x.list[k + 1]) BY <1>1, <1>2, <2>1
  <2> QED BY <1>4, <2>1, <2>2, TakenKeeps
<1> HIDE DEF G
<1>5. n \in P
  <2>1. 0 \in P /\ \A k \in 0..(n - 1) : k \in P => k + 1 \in P BY <1>1, <1>3, <1>4
  <2>2. n \in Nat BY <1>1
  <2> HIDE DEF P, n
  <2>3. \A k \in 0..n : k \in P BY <2>1, <2>2, UpTo
  <2> QED BY <2>2, <2>3
<1>6. f[n] \in Accounts /\ Marks(x, f[n], n) /\ Excludes(x, f[n], n) /\ Sums(f[n], n) BY <1>5 DEF G
<1>7. /\ y \in Wallets /\ y.acct = f[n] /\ y.allTx = x.allTx /\ y.list = x.list /\ y.height = x.height
      /\ y.blockHeight = x.blockHeight /\ y.len = x.len
  BY <1>1, <1>2, <1>6 DEF Wallets, Accounts
<1> HIDE DEF P
<1>8a. \A t \in ToSet(y.list) : \E k \in 1..n : x.list[k] = t BY <1>1, <1>7, InSet
<1>8. AccountHolds(y)
  <2>1. SpentIsOff(y) BY <1>6, <1>7, <1>8a DEF SpentIsOff, Discounted, Excludes, CountsIn
  <2>2. OneOfTwoCounts(y) BY <1>6, <1>7, <1>8a DEF OneOfTwoCounts, Excludes
  <2>3. AddsUp(y) BY <1>6, <1>7 DEF AddsUp, Sums
  <2> QED BY <2>1, <2>2, <2>3 DEF AccountHolds
<1>9. ConfirmedCount(y) BY <1>6, <1>7 DEF ConfirmedCount, Discounted, Marks, IsUnconfirmed
<1> QED BY <1>7, <1>8, <1>9 DEF y

-----------------------------------------------------------------------------
(* Addresses are only added, at least Gap of them.                          *)
LEMMA UnusedAddrsIs ==
  ASSUME NEW l \in [Chain -> Nat], NEW used \in SUBSET Address, NEW c \in Chain, NEW gap \in Nat
  PROVE  LET r == UnusedAddrs(l, used, c, gap)
         IN  r \in [Chain -> Nat] /\ r[c] >= gap /\ \A d \in Chain : r[d] >= l[d]
<1> DEFINE last == [n \in Nat |-> Max({0} \union {k \in 1..n : <<c, k>> \in used})]
           H == {l[c]} \union {a[2] : a \in {u \in used : u[1] = c}}
           highest == Max(H)
           N == {n \in l[c]..(highest + gap) : last[n] + gap <= n}
           m == Min(N)
<1>2. l[c] \in Nat /\ LastIndex \in Nat BY WalletAssumption
<1>3. \A u \in used : u[2] \in 0..LastIndex BY DEF Address
<1>4. highest \in Nat /\ \A y \in H : y <= highest
  <2>1. H \in SUBSET Nat /\ H # {} /\ \A y \in H : y <= l[c] + LastIndex BY <1>2, <1>3
  <2>2. l[c] + LastIndex \in Nat BY <1>2
  <2> HIDE DEF H
  <2> QED BY <2>1, <2>2, MaxIs
<1>1. UnusedAddrs(l, used, c, gap) = [l EXCEPT ![c] = m]
  <2>1. l[c]..(highest + gap) \subseteq Nat BY <1>2, <1>4
  <2>2. \A n \in l[c]..(highest + gap) : last[n] = Max({0} \union {k \in 1..n : <<c, k>> \in used})
    BY <2>1
  <2>3. N = {n \in l[c]..(highest + gap) : Max({0} \union {k \in 1..n : <<c, k>> \in used}) + gap <= n}
    BY <2>2
  <2> HIDE DEF N, last
  <2> QED BY <2>3 DEF UnusedAddrs
<1>5. ASSUME NEW n \in Nat
      PROVE  last[n] \in Nat /\ (last[n] = 0 \/ <<c, last[n]>> \in used)
  <2> DEFINE K == {0} \union {k \in 1..n : <<c, k>> \in used}
  <2>1. K \in SUBSET Nat /\ K # {} /\ \A y \in K : y <= n OBVIOUS
  <2>2. \A k \in K : k = 0 \/ <<c, k>> \in used OBVIOUS
  <2> HIDE DEF K
  <2>3. Max(K) \in K BY <2>1, MaxIs
  <2> QED BY <2>1, <2>2, <2>3 DEF K
<1>5a. \A n \in Nat : last[n] \in Nat BY <1>5
<1>5b. \A n \in Nat : last[n] = 0 \/ <<c, last[n]>> \in used BY <1>5
<1> HIDE DEF last
<1>6. highest + gap \in N
  <2>1. highest + gap \in Nat /\ l[c] <= highest + gap /\ l[c] \in H BY <1>2, <1>4
  <2>2. \A k \in Nat : <<c, k>> \in used => k \in H
    <3> SUFFICES ASSUME NEW k \in Nat, <<c, k>> \in used PROVE k \in H
      OBVIOUS
    <3>1. <<c, k>>[1] = c /\ <<c, k>>[2] = k OBVIOUS
    <3> QED BY <3>1
  <2> HIDE DEF H, highest
  <2> DEFINE n == highest + gap
             z == last[n]
  <2>3. z \in Nat /\ (z = 0 \/ <<c, z>> \in used) BY <1>5a, <1>5b, <2>1
  <2>4. highest \in Nat /\ \A y \in H : y <= highest BY <1>4 DEF highest, H
  <2> HIDE DEF z
  <2>5. z <= highest BY <2>2, <2>3, <2>4
  <2>6. n \in l[c]..(highest + gap) BY <1>2, <2>1, <2>4
  <2>7. z + gap <= n BY <2>3, <2>4, <2>5
  <2> QED BY <2>6, <2>7 DEF z
<1>7. m \in N
  <2>1. N \in SUBSET Nat BY <1>2, <1>4
  <2> HIDE DEF N
  <2> QED BY <1>6, <2>1, MinIs
<1> HIDE DEF m, H, highest
<1>8. m \in Nat /\ m >= l[c] /\ last[m] + gap <= m BY <1>2, <1>4, <1>7
<1>9. m >= gap
  <2>1. last[m] \in Nat BY <1>5a, <1>8
  <2> QED BY <1>8, <2>1
<1> QED BY <1>1, <1>2, <1>8, <1>9

(* What is the wallet's stays the wallet's while addresses are added and    *)
(* only transactions that do not pay it are forgotten.                      *)
LEMMA PaysKept ==
  ASSUME NEW t, NEW l \in [Chain -> Nat], NEW m \in [Chain -> Nat], \A c \in Chain : l[c] <= m[c],
         t \in Tx, PaysChains(t, l)
  PROVE  PaysChains(t, m)
<1>1. Outs[t] \in Seq([addr : Address, amt : Nat]) BY TxAssumption
<1>2. PICK n \in DOMAIN Outs[t] : Outs[t][n].addr[1] \in Chain /\ Outs[t][n].addr[2] <= l[Outs[t][n].addr[1]]
  BY DEF PaysChains
<1>3. Outs[t][n] \in [addr : Address, amt : Nat] BY <1>1, ElementIs
<1>4. Outs[t][n].addr[2] \in Nat BY <1>3, WalletAssumption DEF Address
<1>5. Outs[t][n].addr[2] <= m[Outs[t][n].addr[1]] BY <1>2, <1>4
<1> QED BY <1>2, <1>5 DEF PaysChains

LEMMA ContainsKept ==
  ASSUME NEW x \in Wallets, NEW y \in Wallets, \A c \in Chain : x.len[c] <= y.len[c],
         \A p \in x.allTx : p \in y.allTx \/ ~PaysChains(p, x.len),
         NEW t \in Tx, ContainsTx(x, t)
  PROVE  ContainsTx(y, t)
<1>1. x.len \in [Chain -> Nat] /\ y.len \in [Chain -> Nat] /\ x.allTx \subseteq Tx BY DEF Wallets
<1>2. CASE PaysChains(t, x.len) BY <1>1, <1>2, PaysKept DEF ContainsTx
<1>3. CASE \E i \in Ins[t] : /\ i[1] \in x.allTx /\ i[2] \in DOMAIN Outs[i[1]]
                             /\ IsOwn(x.len, Outs[i[1]][i[2]].addr)
  <2>1. PICK i \in Ins[t] : /\ i[1] \in x.allTx /\ i[2] \in DOMAIN Outs[i[1]]
                            /\ IsOwn(x.len, Outs[i[1]][i[2]].addr)
    BY <1>3
  <2>2. PaysChains(i[1], x.len) BY <2>1 DEF PaysChains, IsOwn
  <2>3. i[1] \in y.allTx /\ i[1] \in Tx BY <1>1, <2>1, <2>2
  <2>4. Outs[i[1]] \in Seq([addr : Address, amt : Nat]) BY <2>3, TxAssumption
  <2>5. Outs[i[1]][i[2]] \in [addr : Address, amt : Nat] BY <2>1, <2>4, ElementIs
  <2>6. Outs[i[1]][i[2]].addr[2] \in Nat BY <2>5, WalletAssumption DEF Address
  <2>7. IsOwn(y.len, Outs[i[1]][i[2]].addr) BY <1>1, <2>1, <2>6 DEF IsOwn
  <2> QED BY <2>1, <2>3, <2>7 DEF ContainsTx
<1> QED BY <1>2, <1>3 DEF ContainsTx

LEMMA FollowsOrders ==
  ASSUME NEW x \in Wallets, NEW a \in Tx, NEW b \in Tx
  PROVE  /\ Follows(x, a, b) => x.height[b] <= x.height[a]
         /\ ~Follows(x, a, b) => x.height[a] <= x.height[b]
<1>1. x.height[a] \in Nat /\ x.height[b] \in Nat BY DEF Wallets
<1>2. IsAscending(x, a, b) => x.height[b] <= x.height[a] BY <1>1 DEF IsAscending
<1>3. ~IsAscending(x, b, a) => x.height[b] <= x.height[a] BY <1>1 DEF IsAscending
<1>4. ~IsAscending(x, a, b) => x.height[a] <= x.height[b] BY <1>1 DEF IsAscending
<1>5. Follows(x, a, b) => IsAscending(x, a, b) \/ ~IsAscending(x, b, a) BY DEF Follows
<1>6. ~Follows(x, a, b) => ~IsAscending(x, a, b) BY DEF Follows
<1> QED BY <1>2, <1>3, <1>4, <1>5, <1>6

LEMMA InsertTxIs ==
  ASSUME NEW x \in Wallets, NEW t \in Tx, t \notin ToSet(x.list),
         Distinct(x.list), Ordered(x.list, x.height)
  PROVE  LET y == InsertTx(x, t)
         IN  /\ y \in Wallets /\ Distinct(y.list) /\ Ordered(y.list, y.height)
             /\ ToSet(y.list) = ToSet(x.list) \union {t} /\ Len(y.list) = Len(x.list) + 1
             /\ y.allTx = x.allTx /\ y.height = x.height /\ y.blockHeight = x.blockHeight
             /\ y.len = x.len /\ y.acct = x.acct
<1> DEFINE l == x.list
           h == x.height
           K == {0} \union {n \in DOMAIN l : ~Follows(x, l[n], t)}
           k == Max(K)
           s == Inserted(l, k, t)
           y == InsertTx(x, t)
<1>1. l \in Seq(Tx) /\ h \in [Tx -> Nat] /\ Len(l) \in Nat /\ DOMAIN l = 1..Len(l)
      /\ \A n \in 1..Len(l) : l[n] \in Tx
  BY DEF Wallets
<1>2. k \in K /\ \A n \in K : n <= k
  <2>1. K \in SUBSET Nat /\ K # {} /\ \A n \in K : n <= Len(l) BY <1>1
  <2> HIDE DEF K, l
  <2> QED BY <1>1, <2>1, MaxIs
<1> HIDE DEF k
<1>3. k \in 0..Len(l) BY <1>1, <1>2
<1>4. k # 0 => h[l[k]] <= h[t]
  <2>1. k # 0 => k \in 1..Len(l) /\ ~Follows(x, l[k], t) BY <1>1, <1>2
  <2> QED BY <1>1, <2>1, FollowsOrders
<1>5. \A n \in (k + 1)..Len(l) : h[t] <= h[l[n]]
  <2>1. \A n \in (k + 1)..Len(l) : n \in 1..Len(l) /\ n \notin K BY <1>1, <1>2, <1>3
  <2>2. \A n \in (k + 1)..Len(l) : Follows(x, l[n], t) BY <1>1, <2>1
  <2> QED BY <1>1, <2>1, <2>2, FollowsOrders
<1>6. InsertAt(l, k + 1, t) = s BY <1>1, <1>3, InsertAtIs
<1>7. y = [x EXCEPT !.list = InsertAt(@, k + 1, t)] BY DEF InsertTx, k
<1>8. y = [x EXCEPT !.list = s] BY <1>6, <1>7 DEF Wallets
<1>9. s \in Seq(Tx) /\ Len(s) = Len(l) + 1 /\ Distinct(s) /\ Ordered(s, h) /\ ToSet(s) = ToSet(l) \union {t}
  <2> HIDE DEF l, h
  <2>1. t \notin ToSet(l) /\ Distinct(l) /\ Ordered(l, h) BY DEF l, h
  <2> QED BY <1>1, <1>3, <1>4, <1>5, <2>1, InsertedKeeps
<1> HIDE DEF s, y
<1>10. /\ y \in Wallets /\ y.list = s /\ y.allTx = x.allTx /\ y.height = x.height
       /\ y.blockHeight = x.blockHeight /\ y.len = x.len /\ y.acct = x.acct
  BY <1>8, <1>9 DEF Wallets
<1> QED BY <1>9, <1>10 DEF y

LEMMA DropIs ==
  ASSUME NEW l \in Seq(Tx), NEW t \in Tx, NEW h \in [Tx -> Nat], Distinct(l)
  PROVE  LET s == Drop(l, t)
         IN  /\ s \in Seq(Tx) /\ Distinct(s) /\ ToSet(s) = ToSet(l) \ {t}
             /\ t \in ToSet(l) => Len(s) = Len(l) - 1
             /\ \A g \in [Tx -> Nat] : (\A u \in Tx : u # t => g[u] = h[u])
                                         /\ Ordered(l, h) => Ordered(s, g)
<1>1. CASE \E k \in DOMAIN l : l[k] = t
  <2> DEFINE k == CHOOSE k \in DOMAIN l : l[k] = t
             s == Removed(l, k)
  <2>1. k \in 1..Len(l) /\ l[k] = t BY <1>1
  <2>2. Drop(l, t) = RemoveAt(l, k) BY <1>1 DEF Drop
  <2> HIDE DEF k
  <2>3. Drop(l, t) = s BY <2>1, <2>2, RemoveAtIs
  <2>4. /\ s \in Seq(Tx) /\ Len(s) = Len(l) - 1
        /\ Distinct(s) /\ ToSet(s) = ToSet(l) \ {l[k]}
        /\ \A g \in [Tx -> Nat] : (\A u \in Tx : u # l[k] => g[u] = h[u])
                                    /\ Ordered(l, h) => Ordered(s, g)
    BY <2>1, RemovedKeeps
  <2> HIDE DEF s
  <2> QED BY <2>1, <2>3, <2>4
<1>2. CASE ~ \E k \in DOMAIN l : l[k] = t
  <2>1. Drop(l, t) = l /\ t \notin ToSet(l) BY <1>2, InSet DEF Drop
  <2>2. ASSUME NEW g \in [Tx -> Nat], \A u \in Tx : u # t => g[u] = h[u], Ordered(l, h)
        PROVE  Ordered(l, g)
    <3>1. \A k \in DOMAIN l : l[k] \in Tx /\ l[k] # t BY <1>2, ElementIs
    <3> QED BY <2>2, <3>1 DEF Ordered
  <2> QED BY <2>1, <2>2
<1> QED BY <1>1, <1>2

-----------------------------------------------------------------------------
(* The search for the dependents, from the end of the array.                *)
DependentsAt(x, t, f, n) ==
  IF n = 0 \/ x.height[x.list[n]] < x.height[t] THEN <<>>
  ELSE IF x.list[n] # t /\ t \in Parents(x.list[n]) THEN Append(f[n - 1], x.list[n])
  ELSE f[n - 1]

LEMMA DependentsExist ==
  ASSUME NEW x, NEW t, NEW n \in Nat
  PROVE  \E f : f = [k \in 0..n |-> DependentsAt(x, t, f, k)]
<1> DEFINE P == {m \in Nat : \E f : f = [k \in 0..m |-> DependentsAt(x, t, f, k)]}
<1>1. 0 \in P
  <2> DEFINE f == [k \in 0..0 |-> <<>>]
  <2>1. \A k \in 0..0 : DependentsAt(x, t, f, k) = <<>> BY DEF DependentsAt
  <2>2. f = [k \in 0..0 |-> DependentsAt(x, t, f, k)] BY <2>1
  <2> QED BY <2>2
<1>2. ASSUME NEW m \in Nat, m \in P PROVE m + 1 \in P
  <2>1. PICK f : f = [k \in 0..m |-> DependentsAt(x, t, f, k)] BY <1>2
  <2> DEFINE g == [k \in 0..(m + 1) |-> DependentsAt(x, t, f, k)]
  <2>2. \A k \in 0..m : g[k] = f[k]
    <3>1. \A k \in 0..m : f[k] = DependentsAt(x, t, f, k) BY <2>1
    <3> QED BY <3>1
  <2>3. \A k \in 0..(m + 1) : g[k] = DependentsAt(x, t, f, k) OBVIOUS
  <2>4. g = [k \in 0..(m + 1) |-> g[k]] OBVIOUS
  <2> HIDE DEF g
  <2>5. \A k \in 0..(m + 1) : DependentsAt(x, t, f, k) = DependentsAt(x, t, g, k)
    <3> SUFFICES ASSUME NEW k \in 0..(m + 1) PROVE DependentsAt(x, t, f, k) = DependentsAt(x, t, g, k)
      OBVIOUS
    <3>1. k # 0 => k - 1 \in 0..m OBVIOUS
    <3>2. k # 0 => f[k - 1] = g[k - 1] BY <2>2, <3>1
    <3> QED BY <3>2 DEF DependentsAt
  <2>6. g = [k \in 0..(m + 1) |-> DependentsAt(x, t, g, k)] BY <2>3, <2>4, <2>5
  <2> QED BY <2>6
<1> HIDE DEF P
<1>3. n \in P BY <1>1, <1>2, UpTo
<1> QED BY <1>3 DEF P

(* It finds transactions, and misses none that is not older than t.         *)
LEMMA DependentsAre ==
  ASSUME NEW x \in Wallets, NEW t \in Tx, Ordered(x.list, x.height)
  PROVE  /\ Dependents(x, t) \in Seq(Tx)
         /\ Dependents(x, t) = <<>> =>
              \A d \in ToSet(x.list) : d # t /\ t \in Parents(d) => x.height[d] < x.height[t]
<1> DEFINE n == Len(x.list)
           D == CHOOSE D : D = [k \in 0..n |-> DependentsAt(x, t, D, k)]
<1>1. x.list \in Seq(Tx) /\ n \in Nat /\ DOMAIN x.list = 1..n /\ \A k \in 1..n : x.list[k] \in Tx
  BY DEF Wallets
<1>2. D = [k \in 0..n |-> DependentsAt(x, t, D, k)]
  <2>1. \E f : f = [k \in 0..n |-> DependentsAt(x, t, f, k)] BY <1>1, DependentsExist
  <2> QED BY <2>1
<1>3. Dependents(x, t) = D[n] BY DEF Dependents, DependentsAt
<1> HIDE DEF D
<1>4. \A k \in 0..n : D[k] = DependentsAt(x, t, D, k) BY <1>2
<1>5. D[n] \in Seq(Tx)
  <2> DEFINE P == {k \in 0..n : D[k] \in Seq(Tx)}
  <2>1. 0 \in P
    <3>1. D[0] = <<>> BY <1>1, <1>4 DEF DependentsAt
    <3>2. <<>> \in Seq(Tx) /\ 0 \in 0..n BY <1>1
    <3> QED BY <3>1, <3>2
  <2>2. ASSUME NEW k \in 0..(n - 1), k \in P PROVE k + 1 \in P
    <3>1. k + 1 \in 1..n /\ k + 1 \in 0..n /\ (k + 1) - 1 = k BY <1>1
    <3>2. D[k + 1] \in {<<>>, Append(D[k], x.list[k + 1]), D[k]} BY <1>4, <3>1 DEF DependentsAt
    <3>3. D[k] \in Seq(Tx) /\ x.list[k + 1] \in Tx BY <1>1, <2>2, <3>1
    <3>4. <<>> \in Seq(Tx) /\ Append(D[k], x.list[k + 1]) \in Seq(Tx) BY <3>3
    <3> QED BY <3>1, <3>2, <3>3, <3>4
  <2>3. n \in Nat BY <1>1
  <2> HIDE DEF P, n
  <2>4. \A k \in 0..n : k \in P BY <2>1, <2>2, <2>3, UpTo
  <2> QED BY <2>3, <2>4 DEF P
<1>6. ASSUME NEW d \in ToSet(x.list), d # t, t \in Parents(d), ~(x.height[d] < x.height[t])
      PROVE  D[n] # <<>>
  <2>1. PICK m \in 1..n : x.list[m] = d BY <1>1, InSet
  <2>2. \A k \in m..n : k \in 1..n /\ ~(x.height[x.list[k]] < x.height[t])
    <3> SUFFICES ASSUME NEW k \in m..n PROVE k \in 1..n /\ ~(x.height[x.list[k]] < x.height[t])
      OBVIOUS
    <3>1. k \in 1..n BY <1>1
    <3>2. x.height[d] \in Nat /\ x.height[x.list[k]] \in Nat /\ x.height[t] \in Nat
      BY <1>1, <2>1, <3>1 DEF Wallets
    <3>3. x.height[d] <= x.height[x.list[k]]
      <4>1. CASE k = m BY <2>1, <3>2, <4>1
      <4>2. CASE m < k BY <1>1, <2>1, <3>1, <4>2 DEF Ordered
      <4> QED BY <1>1, <4>1, <4>2
    <3> QED BY <1>6, <3>1, <3>2, <3>3
  <2> DEFINE P == {k \in 0..n : k >= m => D[k] # <<>>}
  <2>3. 0 \in P BY <1>1
  <2>4. ASSUME NEW k \in 0..(n - 1), k \in P PROVE k + 1 \in P
    <3>1. k + 1 \in 1..n /\ k + 1 \in 0..n /\ (k + 1) - 1 = k /\ k + 1 # 0 BY <1>1
    <3>2. CASE k + 1 < m BY <3>1, <3>2
    <3>3. CASE k + 1 = m
      <4>1. D[m] = Append(D[k], d)
        <5>1. ~(x.height[x.list[m]] < x.height[t]) BY <1>6, <2>1
        <5> QED BY <1>4, <1>6, <2>1, <3>1, <3>3, <5>1 DEF DependentsAt
      <4> QED BY <3>1, <3>3, <4>1
    <3>4. CASE k + 1 > m
      <4>1. k + 1 \in m..n /\ k >= m BY <3>1, <3>4
      <4>2. D[k + 1] \in {Append(D[k], x.list[k + 1]), D[k]} BY <1>4, <2>2, <3>1, <4>1 DEF DependentsAt
      <4>3. D[k] # <<>> BY <2>4, <4>1
      <4> QED BY <3>1, <4>2, <4>3
    <3> QED BY <3>1, <3>2, <3>3, <3>4
  <2>5. n \in Nat BY <1>1
  <2> HIDE DEF P, n
  <2>6. \A k \in 0..n : k \in P BY <2>3, <2>4, <2>5, UpTo
  <2> QED BY <2>5, <2>6 DEF P
<1> QED BY <1>3, <1>5, <1>6

-----------------------------------------------------------------------------
(* What threads are in the middle of.                                       *)
LEMMA OpsAre ==
  \A o \in Ops :
    /\ o.at \in {"idle", "ext", "int", "loading", "removing", "updating"}
    /\ o.at = "loading" => o.todo \in Seq([tx : Tx, height : 0..Unconfirmed])
    /\ o.at = "removing" => o.todo \in Seq(Tx)
    /\ o.at = "updating" => /\ o.todo \in Seq(Tx) /\ o.height \in 0..Unconfirmed
                            /\ o.needsUpdate \in BOOLEAN
BY DEF Ops

LEMMA OpsOf ==
  /\ Idle \in Ops /\ [at |-> "ext"] \in Ops /\ [at |-> "int"] \in Ops
  /\ \A s \in Seq([tx : Tx, height : 0..Unconfirmed]) : [at |-> "loading", todo |-> s] \in Ops
  /\ \A s \in Seq(Tx) : [at |-> "removing", todo |-> s] \in Ops
  /\ \A s \in Seq(Tx), h \in 0..Unconfirmed, b \in BOOLEAN :
       [at |-> "updating", todo |-> s, height |-> h, needsUpdate |-> b] \in Ops
BY DEF Ops, Idle

LEMMA OpWith ==
  ASSUME NEW o \in Ops, NEW s
  PROVE  /\ o.at = "loading" => [o EXCEPT !.todo = s] = [at |-> "loading", todo |-> s]
         /\ o.at = "removing" => [o EXCEPT !.todo = s] = [at |-> "removing", todo |-> s]
<1>1. CASE o.at = "loading" BY <1>1 DEF Ops
<1>2. CASE o.at = "removing" BY <1>2 DEF Ops
<1> QED BY <1>1, <1>2

LEMMA UpdatingWith ==
  ASSUME NEW o \in Ops, o.at = "updating", NEW s \in Seq(Tx)
  PROVE  LET r == [o EXCEPT !.todo = s]
         IN  /\ r \in Ops /\ r.at = "updating" /\ r.todo = s /\ r.height = o.height
             /\ r.needsUpdate = o.needsUpdate
<1> DEFINE U == [at : {"updating"}, todo : Seq(Tx), height : 0..Unconfirmed, needsUpdate : BOOLEAN]
           r == [o EXCEPT !.todo = s]
<1>1. o \in U BY DEF Ops
<1>2. r \in U BY <1>1
<1>3. r.at = "updating" /\ r.todo = s /\ r.height = o.height BY <1>1
<1>4. r.needsUpdate = o.needsUpdate BY <1>1
<1>5. r \in Ops BY <1>2 DEF Ops
<1> QED BY <1>3, <1>4, <1>5

OthersAct == \A th \in Thread \ {PeerThread} : op[th].at \notin {"loading", "updating"}

LEMMA OpNext ==
  ASSUME op \in [Thread -> Ops], OthersAct, NEW th \in Thread, NEW r \in Ops,
         th = PeerThread \/ r.at \notin {"loading", "updating"}, op' = [op EXCEPT ![th] = r]
  PROVE  /\ op' \in [Thread -> Ops] /\ OthersAct'
         /\ op'[PeerThread] = IF th = PeerThread THEN r ELSE op[PeerThread]
BY WalletAssumption DEF OthersAct

LEMMA Types ==
  TypeOK <=> /\ w \in Wallets /\ op \in [Thread -> Ops] /\ OthersAct
             /\ DOMAIN mined \subseteq Tx /\ mined \in [DOMAIN mined -> 0..tip] /\ tip \in 0..MaxHeight
BY DEF TypeOK, OthersAct

LEMMA TypesNext ==
  TypeOK' <=> /\ w' \in Wallets /\ op' \in [Thread -> Ops] /\ OthersAct'
              /\ DOMAIN mined' \subseteq Tx /\ mined' \in [DOMAIN mined' -> 0..tip'] /\ tip' \in 0..MaxHeight
BY DEF TypeOK, OthersAct

(* Outside the lock the peer thread is neither loading nor updating.        *)
Quiet == op[PeerThread].at \notin {"loading", "updating"}

LEMMA UnlockedIsQuiet == ~Locked => Quiet
BY WalletAssumption DEF Locked, Quiet

LEMMA QuietIs ==
  ASSUME IInv, Quiet
  PROVE  AccountHolds(w) /\ ConfirmedCount(w) /\ \A t \in ToSet(w.list) : ContainsTx(w, t)
BY DEF IInv, Quiet, AccountIsKept, ListIsOwn, Loading, Updating

LEMMA QuietNext ==
  ASSUME TypeOK', Quiet', ListFits(w', mined'), \A t \in ToSet(w'.list) : ContainsTx(w', t), MinedAgree',
         AccountHolds(w'), ConfirmedCount(w')
  PROVE  IInv'
BY DEF IInv, Quiet, AccountIsKept, ListIsOwn, LoadIsOwn, TodoIsMined, Loading, Updating

LEMMA Walks ==
  ASSUME NEW x \in Wallets, NEW m, ListFits(x, m), \A a, b \in DOMAIN m : ~Conflicts(a, b)
  PROVE  LET y == UpdateBalance(x)
         IN  /\ y \in Wallets /\ AccountHolds(y) /\ ConfirmedCount(y) /\ ListFits(y, m)
             /\ y.allTx = x.allTx /\ y.list = x.list /\ y.height = x.height /\ y.len = x.len
             /\ \A t : ContainsTx(x, t) => ContainsTx(y, t)
<1> DEFINE y == UpdateBalance(x)
<1>1. Walkable(x)
  <2>1. \A i \in DOMAIN x.list : x.list[i] \in ToSet(x.list) BY InSet
  <2>2. \A i \in DOMAIN x.list : IsUnconfirmed(x, x.list[i]) \/ x.list[i] \in DOMAIN m
    BY <2>1 DEF ListFits, IsMinedAt, IsUnconfirmed
  <2>3. Distinct(x.list) /\ Ordered(x.list, x.height) BY DEF ListFits
  <2> QED BY <2>2, <2>3 DEF Walkable
<1>2. /\ y \in Wallets /\ AccountHolds(y) /\ ConfirmedCount(y)
      /\ y.allTx = x.allTx /\ y.list = x.list /\ y.height = x.height
      /\ y.blockHeight = x.blockHeight /\ y.len = x.len
  BY <1>1, BalanceIs
<1> HIDE DEF y
<1>3. ListFits(y, m) BY <1>2 DEF ListFits, IsUnconfirmed
<1>4. \A t : ContainsTx(x, t) => ContainsTx(y, t) BY <1>2 DEF ContainsTx
<1> QED BY <1>2, <1>3, <1>4 DEF y

(* A wallet that only knows more, or has more addresses, still fits.        *)
LEMMA SameAccount ==
  ASSUME NEW x, NEW y, y.list = x.list, y.height = x.height, y.acct = x.acct
  PROVE  /\ AccountHolds(x) => AccountHolds(y)
         /\ ConfirmedCount(x) => ConfirmedCount(y)
<1>1. SpentIsOff(x) => SpentIsOff(y) BY DEF SpentIsOff, Discounted
<1>2. OneOfTwoCounts(x) => OneOfTwoCounts(y) BY DEF OneOfTwoCounts
<1>3. AddsUp(x) => AddsUp(y) BY DEF AddsUp
<1>4. ConfirmedCount(x) => ConfirmedCount(y) BY DEF ConfirmedCount, Discounted, IsUnconfirmed
<1> QED BY <1>1, <1>2, <1>3, <1>4 DEF AccountHolds

-----------------------------------------------------------------------------
(* The steps of the other threads.                                          *)
LEMMA RegisterTransactionStep ==
  ASSUME IInv, NEW th \in Thread, NEW t \in Tx, RegisterTransaction(th, t)
  PROVE  IInv' /\ ToSet(w.list) \subseteq ToSet(w'.list)
<1> DEFINE x == [w EXCEPT !.allTx = @ \union {t}]
           y == InsertTx(x, t)
<1>1. /\ ~Locked /\ t \notin w.allTx /\ mined' = mined /\ tip' = tip
  BY DEF RegisterTransaction, Free
<1>2. /\ w \in Wallets /\ op \in [Thread -> Ops] /\ OthersAct
      /\ DOMAIN mined \subseteq Tx /\ mined \in [DOMAIN mined -> 0..tip] /\ tip \in 0..MaxHeight
  BY Types DEF IInv
<1>3. ListFits(w, mined) /\ \A a, b \in DOMAIN mined : ~Conflicts(a, b) BY DEF IInv, MinedAgree
<1>4. AccountHolds(w) /\ ConfirmedCount(w) /\ (\A s \in ToSet(w.list) : ContainsTx(w, s)) /\ Quiet
  BY <1>1, QuietIs, UnlockedIsQuiet
<1>5. /\ x \in Wallets /\ x.list = w.list /\ x.height = w.height /\ x.acct = w.acct /\ x.len = w.len
      /\ x.allTx = w.allTx \union {t}
  BY <1>2 DEF Wallets
<1>6. \A s \in Tx : ContainsTx(w, s) => ContainsTx(x, s)
  <2>1. w.len \in [Chain -> Nat] BY <1>2 DEF Wallets
  <2>2. \A c \in Chain : w.len[c] <= x.len[c] BY <1>5, <2>1
  <2> HIDE DEF x
  <2> QED BY <1>2, <1>5, <2>2, ContainsKept
<1>7. ListFits(x, mined) BY <1>3, <1>5 DEF ListFits, IsUnconfirmed
<1>8. \A s \in ToSet(w.list) : s \in Tx
  <2>1. w.list \in Seq(Tx) BY <1>2 DEF Wallets
  <2> QED BY <2>1, InSet, ElementIs
<1>9. t \notin ToSet(x.list) BY <1>1, <1>3, <1>5 DEF ListFits
<1> HIDE DEF x
<1>10. CASE ContainsTx(w, t)
  <2>1. w' = UpdateBalance(y) /\ op' = [op EXCEPT ![th] = [at |-> "ext"]]
    BY <1>10 DEF RegisterTransaction, x
  <2>2. /\ y \in Wallets /\ Distinct(y.list) /\ Ordered(y.list, y.height)
        /\ ToSet(y.list) = ToSet(x.list) \union {t} /\ Len(y.list) = Len(x.list) + 1
        /\ y.allTx = x.allTx /\ y.height = x.height /\ y.blockHeight = x.blockHeight
        /\ y.len = x.len /\ y.acct = x.acct
    BY <1>5, <1>7, <1>9, InsertTxIs DEF ListFits
  <2> HIDE DEF y
  <2>3. x.height[t] = Unconfirmed BY <1>1, <1>3, <1>5 DEF ListFits, IsUnconfirmed
  <2>4. ListFits(y, mined)
    <3>1. \A s \in ToSet(y.list) : s \in y.allTx /\ IsMinedAt(mined, s, y.height[s])
      BY <1>5, <1>7, <2>2, <2>3 DEF ListFits, IsMinedAt
    <3>2. \A s \in Tx \ y.allTx : IsUnconfirmed(y, s) BY <1>7, <2>2 DEF ListFits, IsUnconfirmed
    <3> QED BY <2>2, <3>1, <3>2 DEF ListFits
  <2>5. /\ w' \in Wallets /\ AccountHolds(w') /\ ConfirmedCount(w') /\ ListFits(w', mined)
        /\ w'.list = y.list /\ \A s : ContainsTx(y, s) => ContainsTx(w', s)
    BY <1>3, <2>1, <2>2, <2>4, Walks
  <2>6. \A s \in ToSet(w'.list) : ContainsTx(w', s)
    <3>1. \A s : ContainsTx(x, s) => ContainsTx(y, s) BY <2>2 DEF ContainsTx
    <3> QED BY <1>4, <1>5, <1>6, <1>8, <1>10, <2>2, <2>5, <3>1
  <2>7. op' \in [Thread -> Ops] /\ OthersAct' /\ Quiet'
    <3>1. [at |-> "ext"] \in Ops /\ [at |-> "ext"].at \notin {"loading", "updating"} BY OpsOf
    <3> QED BY <1>2, <1>4, <2>1, <3>1, OpNext DEF Quiet
  <2>8. TypeOK' BY <1>1, <1>2, <2>5, <2>7, TypesNext
  <2>9. MinedAgree' BY <1>1, <1>3 DEF MinedAgree
  <2>10. ListFits(w', mined') BY <1>1, <2>5
  <2>11. IInv' BY <2>5, <2>6, <2>7, <2>8, <2>9, <2>10, QuietNext
  <2> QED BY <1>5, <2>2, <2>5, <2>11
<1>11. CASE ~ContainsTx(w, t)
  <2>1. w' = x /\ op' = op BY <1>11 DEF RegisterTransaction, x
  <2>2. TypeOK'
    <3>1. OthersAct' BY <1>2, <2>1 DEF OthersAct
    <3> QED BY <1>1, <1>2, <1>5, <2>1, <3>1, TypesNext
  <2>3. \A s \in ToSet(w'.list) : ContainsTx(w', s) BY <1>4, <1>5, <1>6, <1>8, <2>1
  <2>4. AccountHolds(w') /\ ConfirmedCount(w') BY <1>4, <1>5, <2>1, SameAccount
  <2>5. MinedAgree' BY <1>1, <1>3 DEF MinedAgree
  <2>6. Quiet' BY <1>4, <2>1 DEF Quiet
  <2>7. ListFits(w', mined') BY <1>1, <1>7, <2>1
  <2>8. IInv' BY <2>2, <2>3, <2>4, <2>5, <2>6, <2>7, QuietNext
  <2> QED BY <1>5, <2>1, <2>8
<1> QED BY <1>10, <1>11

LEMMA ListedAreTx == w \in Wallets => \A t \in ToSet(w.list) : t \in Tx
<1>1. w \in Wallets => w.list \in Seq(Tx) BY DEF Wallets
<1> QED BY <1>1, InSet, ElementIs

LEMMA ReplenishStep ==
  ASSUME IInv, NEW th \in Thread, Replenish(th)
  PROVE  IInv' /\ ToSet(w.list) \subseteq ToSet(w'.list)
<1> DEFINE c == op[th].at
           r == UnusedAddrs(w.len, w.acct.used, c, Gap[c])
           o == IF op[th].at = "ext" THEN [at |-> "int"] ELSE Idle
<1>1. /\ c \in Chain /\ ~Locked /\ mined' = mined /\ tip' = tip
      /\ w' = [w EXCEPT !.len = r] /\ op' = [op EXCEPT ![th] = o]
  BY DEF Replenish
<1>2. /\ w \in Wallets /\ op \in [Thread -> Ops] /\ OthersAct
      /\ DOMAIN mined \subseteq Tx /\ mined \in [DOMAIN mined -> 0..tip] /\ tip \in 0..MaxHeight
  BY Types DEF IInv
<1>3. ListFits(w, mined) /\ MinedAgree BY DEF IInv
<1>4. AccountHolds(w) /\ ConfirmedCount(w) /\ (\A s \in ToSet(w.list) : ContainsTx(w, s)) /\ Quiet
  BY <1>1, QuietIs, UnlockedIsQuiet
<1>5. r \in [Chain -> Nat] /\ \A d \in Chain : r[d] >= w.len[d]
  <2>1. w.len \in [Chain -> Nat] /\ w.acct.used \in SUBSET Address BY <1>2 DEF Wallets
  <2>2. Gap[c] \in Nat BY <1>1, WalletAssumption
  <2> HIDE DEF c
  <2> QED BY <1>1, <2>1, <2>2, UnusedAddrsIs
<1> HIDE DEF r
<1>6. /\ w' \in Wallets /\ w'.list = w.list /\ w'.height = w.height /\ w'.acct = w.acct
      /\ w'.len = r /\ w'.allTx = w.allTx
  BY <1>1, <1>2, <1>5 DEF Wallets
<1>7. op' \in [Thread -> Ops] /\ OthersAct' /\ Quiet'
  <2>1. o \in Ops /\ o.at \notin {"loading", "updating"} BY OpsOf DEF Idle
  <2> HIDE DEF o
  <2> QED BY <1>1, <1>2, <1>4, <2>1, OpNext DEF Quiet
<1>8. TypeOK' BY <1>1, <1>2, <1>6, <1>7, TypesNext
<1>9. \A s \in ToSet(w'.list) : ContainsTx(w', s)
  <2>1. \A d \in Chain : w.len[d] <= w'.len[d]
    <3>1. w.len \in [Chain -> Nat] BY <1>2 DEF Wallets
    <3> QED BY <1>5, <1>6, <3>1
  <2> QED BY <1>2, <1>4, <1>6, <2>1, ListedAreTx, ContainsKept
<1>10. AccountHolds(w') /\ ConfirmedCount(w') BY <1>4, <1>6, SameAccount
<1>11. ListFits(w', mined') BY <1>1, <1>3, <1>6 DEF ListFits, IsUnconfirmed
<1>12. MinedAgree' BY <1>1, <1>3 DEF MinedAgree
<1>13. IInv' BY <1>7, <1>8, <1>9, <1>10, <1>11, <1>12, QuietNext
<1> QED BY <1>6, <1>13

(* A step that only moves a thread, outside the lock.                       *)
LEMMA OnlyOps ==
  ASSUME IInv, Quiet, UNCHANGED <<w, mined, tip>>, op' \in [Thread -> Ops], OthersAct', Quiet'
  PROVE  IInv'
<1>1. /\ w \in Wallets /\ DOMAIN mined \subseteq Tx /\ mined \in [DOMAIN mined -> 0..tip]
      /\ tip \in 0..MaxHeight
  BY Types DEF IInv
<1>2. ListFits(w, mined) /\ MinedAgree BY DEF IInv
<1>3. AccountHolds(w) /\ ConfirmedCount(w) /\ \A s \in ToSet(w.list) : ContainsTx(w, s) BY QuietIs
<1>4. TypeOK' BY <1>1, TypesNext
<1>5. MinedAgree' BY <1>2 DEF MinedAgree
<1> QED BY <1>2, <1>3, <1>4, <1>5, QuietNext

LEMMA RemoveTransactionStep ==
  ASSUME IInv, NEW th \in Thread, NEW t \in Tx, RemoveTransaction(th, t)
  PROVE  IInv' /\ ToSet(w.list) \subseteq ToSet(w'.list)
<1> DEFINE o == [at |-> "removing", todo |-> <<t>>]
<1>1. ~Locked /\ UNCHANGED <<w, mined, tip>> /\ op' = [op EXCEPT ![th] = o]
  BY DEF RemoveTransaction, Free
<1>2. op \in [Thread -> Ops] /\ OthersAct BY Types DEF IInv
<1>3. o \in Ops /\ o.at \notin {"loading", "updating"}
  <2>1. <<t>> \in Seq(Tx) OBVIOUS
  <2> QED BY <2>1, OpsOf
<1> HIDE DEF o
<1>4. Quiet BY <1>1, UnlockedIsQuiet
<1>5. op' \in [Thread -> Ops] /\ OthersAct' /\ Quiet' BY <1>1, <1>2, <1>3, <1>4, OpNext DEF Quiet
<1> QED BY <1>1, <1>4, <1>5, OnlyOps

LEMMA RemoveReturnsStep ==
  ASSUME IInv, NEW th \in Thread, RemoveReturns(th)
  PROVE  IInv' /\ ToSet(w.list) \subseteq ToSet(w'.list)
<1>1. op[th].at = "removing" /\ UNCHANGED <<w, mined, tip>> /\ op' = [op EXCEPT ![th] = Idle]
  BY DEF RemoveReturns
<1>2. op \in [Thread -> Ops] /\ OthersAct BY Types DEF IInv
<1>3. Idle \in Ops /\ Idle.at \notin {"loading", "updating"} BY OpsOf DEF Idle
<1>4. op' \in [Thread -> Ops] /\ OthersAct'
      /\ op'[PeerThread] = IF th = PeerThread THEN Idle ELSE op[PeerThread]
  BY <1>1, <1>2, <1>3, OpNext
<1>5. CASE Quiet
  <2>1. Quiet' BY <1>3, <1>4, <1>5 DEF Quiet
  <2> QED BY <1>1, <1>4, <1>5, <2>1, OnlyOps
<1>6. CASE ~Quiet
  <2>1. th # PeerThread BY <1>1, <1>6 DEF Quiet
  <2>2. op'[PeerThread] = op[PeerThread] BY <1>4, <2>1
  <2>3. TypeOK'
    <3>1. /\ w \in Wallets /\ DOMAIN mined \subseteq Tx /\ mined \in [DOMAIN mined -> 0..tip]
          /\ tip \in 0..MaxHeight
      BY Types DEF IInv
    <3> QED BY <1>1, <1>4, <3>1, TypesNext
  <2>4. w' = w /\ mined' = mined BY <1>1
  <2>5. ListIsOwn' BY <2>2, <2>4 DEF IInv, ListIsOwn, Loading
  <2>6. MinedAgree' BY <2>4 DEF IInv, MinedAgree
  <2>7. TodoIsMined' BY <2>2, <2>4 DEF IInv, TodoIsMined, Loading, Updating
  <2>8. AccountIsKept' BY <2>2, <2>4 DEF IInv, AccountIsKept, Loading, Updating
  <2>9. ListFits(w', mined') BY <2>4 DEF IInv
  <2>10. LoadIsOwn' BY <2>2, <2>4 DEF IInv, LoadIsOwn, Loading
  <2> QED BY <2>3, <2>4, <2>5, <2>6, <2>7, <2>8, <2>9, <2>10 DEF IInv
<1> QED BY <1>5, <1>6

LEMMA RemoveStepStep ==
  ASSUME IInv, NEW th \in Thread, RemoveStep(th)
  PROVE  /\ IInv'
         /\ \A t \in ToSet(w.list) \ ToSet(w'.list) : \A d \in ToSet(w'.list) :
              t \in Parents(d) => w.height[d] < w.height[t]
<1> DEFINE o == op[th]
           t == o.todo[1]
           deps == Dependents(w, t)
           x == [w EXCEPT !.list = Drop(@, t)]
<1>1. ~Locked /\ o.at = "removing" /\ o.todo # <<>> /\ mined' = mined /\ tip' = tip BY DEF RemoveStep
<1>2. /\ w \in Wallets /\ op \in [Thread -> Ops] /\ OthersAct
      /\ DOMAIN mined \subseteq Tx /\ mined \in [DOMAIN mined -> 0..tip] /\ tip \in 0..MaxHeight
  BY Types DEF IInv
<1>3. ListFits(w, mined) /\ \A a, b \in DOMAIN mined : ~Conflicts(a, b) BY DEF IInv, MinedAgree
<1>4. AccountHolds(w) /\ ConfirmedCount(w) /\ (\A s \in ToSet(w.list) : ContainsTx(w, s)) /\ Quiet
  BY <1>1, QuietIs, UnlockedIsQuiet
<1>5. o \in Ops /\ o.todo \in Seq(Tx) BY <1>1, <1>2, OpsAre
<1>6. t \in Tx /\ Tail(o.todo) \in Seq(Tx)
  <2>1. 1 \in DOMAIN o.todo /\ Tail(o.todo) \in Seq(Tx) BY <1>1, <1>5
  <2> QED BY <1>5, <2>1, ElementIs
<1>7. /\ deps \in Seq(Tx)
      /\ deps = <<>> => \A d \in ToSet(w.list) : d # t /\ t \in Parents(d) => w.height[d] < w.height[t]
  BY <1>2, <1>3, <1>6, DependentsAre DEF ListFits
<1> HIDE DEF deps
<1>8. ASSUME NEW s \in Seq(Tx), op' = [op EXCEPT ![th].todo = s]
      PROVE  op' \in [Thread -> Ops] /\ OthersAct' /\ Quiet'
  <2> DEFINE r == [at |-> "removing", todo |-> s]
  <2>1. r \in Ops /\ r.at \notin {"loading", "updating"} BY OpsOf
  <2>2. [o EXCEPT !.todo = s] = r BY <1>1, <1>5, OpWith
  <2>3. op' = [op EXCEPT ![th] = [o EXCEPT !.todo = s]] BY <1>2, <1>8
  <2>4. op' = [op EXCEPT ![th] = r] BY <2>2, <2>3
  <2> HIDE DEF r
  <2> QED BY <1>2, <1>4, <2>1, <2>4, OpNext DEF Quiet
<1>9. CASE UNCHANGED w /\ op' = [op EXCEPT ![th].todo = Tail(@)]
  <2>1. op' = [op EXCEPT ![th].todo = Tail(o.todo)] BY <1>2, <1>9
  <2>2. op' \in [Thread -> Ops] /\ OthersAct' /\ Quiet' BY <1>6, <1>8, <2>1
  <2>3. IInv' BY <1>1, <1>4, <1>9, <2>2, OnlyOps
  <2> QED BY <1>9, <2>3
<1>10. CASE UNCHANGED w /\ op' = [op EXCEPT ![th].todo = deps \o @]
  <2>1. op' = [op EXCEPT ![th].todo = deps \o o.todo] BY <1>2, <1>10
  <2>2. deps \o o.todo \in Seq(Tx) BY <1>5, <1>7
  <2>3. op' \in [Thread -> Ops] /\ OthersAct' /\ Quiet' BY <1>8, <2>1, <2>2
  <2>4. IInv' BY <1>1, <1>4, <1>10, <2>3, OnlyOps
  <2> QED BY <1>10, <2>4
<1>11. CASE deps = <<>> /\ w' = UpdateBalance(x) /\ op' = [op EXCEPT ![th].todo = Tail(@)]
  <2>1. op' = [op EXCEPT ![th].todo = Tail(o.todo)] BY <1>2, <1>11
  <2>2. op' \in [Thread -> Ops] /\ OthersAct' /\ Quiet' BY <1>6, <1>8, <2>1
  <2>3. /\ Drop(w.list, t) \in Seq(Tx) /\ Distinct(Drop(w.list, t)) /\ Ordered(Drop(w.list, t), w.height)
        /\ ToSet(Drop(w.list, t)) = ToSet(w.list) \ {t}
    <3>1. w.list \in Seq(Tx) /\ w.height \in [Tx -> Nat] BY <1>2 DEF Wallets
    <3>2. Distinct(w.list) /\ Ordered(w.list, w.height) BY <1>3 DEF ListFits
    <3> HIDE DEF t
    <3> QED BY <1>6, <3>1, <3>2, DropIs
  <2>4. /\ x \in Wallets /\ x.list = Drop(w.list, t) /\ x.height = w.height /\ x.len = w.len
        /\ x.allTx = w.allTx
    BY <1>2, <2>3 DEF Wallets
  <2> HIDE DEF x, t
  <2>5. ListFits(x, mined) BY <1>3, <2>3, <2>4 DEF ListFits, IsUnconfirmed
  <2>6. /\ w' \in Wallets /\ AccountHolds(w') /\ ConfirmedCount(w') /\ ListFits(w', mined)
        /\ w'.list = x.list /\ \A s : ContainsTx(x, s) => ContainsTx(w', s)
    BY <1>3, <1>11, <2>4, <2>5, Walks
  <2>7. \A s \in ToSet(w'.list) : ContainsTx(w', s)
    <3>1. \A s : ContainsTx(w, s) => ContainsTx(x, s) BY <2>4 DEF ContainsTx
    <3> QED BY <1>4, <2>3, <2>4, <2>6, <3>1
  <2>8. TypeOK' BY <1>1, <1>2, <2>2, <2>6, TypesNext
  <2>9. MinedAgree' BY <1>1, <1>3 DEF MinedAgree
  <2>10. ListFits(w', mined') BY <1>1, <2>6
  <2>11. IInv' BY <2>2, <2>6, <2>7, <2>8, <2>9, <2>10, QuietNext
  <2>12. \A u \in ToSet(w.list) \ ToSet(w'.list) : u = t BY <2>3, <2>4, <2>6
  <2>13. \A d \in ToSet(w'.list) : d \in ToSet(w.list) /\ d # t BY <2>3, <2>4, <2>6
  <2> QED BY <1>7, <1>11, <2>11, <2>12, <2>13
<1> QED
  <2>1. \/ UNCHANGED w /\ op' = [op EXCEPT ![th].todo = Tail(@)]
        \/ UNCHANGED w /\ op' = [op EXCEPT ![th].todo = deps \o @]
        \/ deps = <<>> /\ w' = UpdateBalance(x) /\ op' = [op EXCEPT ![th].todo = Tail(@)]
    BY DEF RemoveStep, deps
  <2> HIDE DEF x, t, o
  <2> QED BY <1>9, <1>10, <1>11, <2>1

-----------------------------------------------------------------------------
(* The steps of the peer thread, and of the chain.                          *)
LEMMA StoredFirst ==
  ASSUME NEW S, NEW s \in Seq(S), 1 \in DOMAIN s, Tail(s) \in Seq(S),
         \A k \in DOMAIN Tail(s) : k + 1 \in DOMAIN s /\ Tail(s)[k] = s[k + 1]
  PROVE  Stored(s) = {s[1].tx} \union Stored(Tail(s))
<1> DEFINE r == Tail(s)
<1>1. ASSUME NEW k \in DOMAIN s PROVE k = 1 \/ (k - 1 \in DOMAIN r /\ s[k] = r[k - 1])
  <2>1. CASE k = 1 BY <2>1
  <2>2. CASE k # 1
    <3>1. k - 1 \in DOMAIN r /\ (k - 1) + 1 = k BY <2>2
    <3> QED BY <3>1
  <2> QED BY <2>1, <2>2
<1> HIDE DEF r
<1>2. \A k \in DOMAIN r : k + 1 \in DOMAIN s /\ r[k] = s[k + 1] BY DEF r
<1>3. \A t \in Stored(s) : t = s[1].tx \/ t \in Stored(r) BY <1>1 DEF Stored
<1>4. \A t \in Stored(r) : t \in Stored(s) BY <1>2 DEF Stored
<1>5. s[1].tx \in Stored(s) BY DEF Stored
<1>6. Stored(s) = {s[1].tx} \union Stored(r) BY <1>3, <1>4, <1>5
<1> QED BY <1>6 DEF r

LEMMA AddressesWith ==
  ASSUME NEW A, NEW t
  PROVE  UNION {OutAddrs(u) : u \in A \union {t}} = (UNION {OutAddrs(u) : u \in A}) \union OutAddrs(t)
OBVIOUS

LEMMA LoadTxStep ==
  ASSUME IInv, LoadTx
  PROVE  IInv' /\ ToSet(w.list) \subseteq ToSet(w'.list)
<1> DEFINE o == op[PeerThread]
           s == o.todo
           t == s[1].tx
           h == s[1].height
           x == [w EXCEPT !.height[t] = h, !.allTx = @ \union {t}, !.acct.used = @ \union OutAddrs(t)]
           r == [at |-> "loading", todo |-> Tail(s)]
<1>1. /\ o.at = "loading" /\ s # <<>> /\ mined' = mined /\ tip' = tip
      /\ w' = IF t \in w.allTx THEN w ELSE InsertTx(x, t)
      /\ op' = [op EXCEPT ![PeerThread].todo = Tail(s)]
  BY DEF LoadTx
<1>2. /\ w \in Wallets /\ op \in [Thread -> Ops] /\ OthersAct /\ PeerThread \in Thread
      /\ DOMAIN mined \subseteq Tx /\ mined \in [DOMAIN mined -> 0..tip] /\ tip \in 0..MaxHeight
  BY Types, WalletAssumption DEF IInv
<1>3. ListFits(w, mined) /\ MinedAgree BY DEF IInv
<1>4. s \in Seq([tx : Tx, height : 0..Unconfirmed]) /\ o \in Ops BY <1>1, <1>2, OpsAre
<1>5. 1 \in DOMAIN s /\ Tail(s) \in Seq([tx : Tx, height : 0..Unconfirmed])
      /\ \A k \in DOMAIN Tail(s) : k + 1 \in DOMAIN s /\ Tail(s)[k] = s[k + 1]
  BY <1>1, <1>4
<1>6. t \in Tx /\ h \in 0..Unconfirmed
  <2>1. s[1] \in [tx : Tx, height : 0..Unconfirmed] BY <1>4, <1>5, ElementIs
  <2> QED BY <2>1
<1>7. IsMinedAt(mined, t, h)
  <2>1. Loading BY <1>1 DEF Loading
  <2> QED BY <1>5, <2>1 DEF IInv, TodoIsMined
<1>8. op' \in [Thread -> Ops] /\ OthersAct' /\ op'[PeerThread] = r
  <2>1. r \in Ops BY <1>5, OpsOf
  <2>2. [o EXCEPT !.todo = Tail(s)] = r BY <1>1, <1>4, OpWith
  <2>3. op' = [op EXCEPT ![PeerThread] = [o EXCEPT !.todo = Tail(s)]] BY <1>1, <1>2
  <2>4. op' = [op EXCEPT ![PeerThread] = r] BY <2>2, <2>3
  <2> HIDE DEF r
  <2> QED BY <1>2, <2>1, <2>4, OpNext
<1>9. Loading' /\ ~Updating' BY <1>8 DEF Loading, Updating
<1>10. AccountIsKept' BY <1>9 DEF AccountIsKept
<1>11. MinedAgree' BY <1>1, <1>3 DEF MinedAgree
<1>12. TodoIsMined'
  <2>1. Loading BY <1>1 DEF Loading
  <2>2. \A k \in DOMAIN s : IsMinedAt(mined, s[k].tx, s[k].height) BY <2>1 DEF IInv, TodoIsMined
  <2>3. \A k \in DOMAIN Tail(s) : IsMinedAt(mined, Tail(s)[k].tx, Tail(s)[k].height)
    BY <1>5, <2>2
  <2>4. op'[PeerThread].todo = Tail(s) BY <1>8
  <2> QED BY <1>1, <1>9, <2>3, <2>4 DEF TodoIsMined
<1>13. /\ ListIsOwn' /\ w.len = [c \in Chain |-> 0]
       /\ w.acct.used = UNION {OutAddrs(u) : u \in w.allTx}
       /\ AreOwn((w.allTx \union {t}) \union Stored(op'[PeerThread].todo))
  <2>1. Loading BY <1>1 DEF Loading
  <2>2. Stored(s) = {t} \union Stored(Tail(s)) BY <1>4, <1>5, StoredFirst
  <2>3. w.allTx \union Stored(s) = (w.allTx \union {t}) \union Stored(op'[PeerThread].todo)
    BY <1>8, <2>2
  <2> QED BY <1>9, <2>1, <2>3 DEF IInv, LoadIsOwn, ListIsOwn
<1>14. CASE t \in w.allTx
  <2>1. w' = w BY <1>1, <1>14
  <2>2. TypeOK' BY <1>1, <1>2, <1>8, <2>1, TypesNext
  <2>3. ListFits(w', mined') BY <1>1, <1>3, <2>1
  <2>4. w.allTx \union {t} = w.allTx BY <1>14
  <2>5. LoadIsOwn' BY <1>13, <2>1, <2>4 DEF LoadIsOwn
  <2> QED BY <1>10, <1>11, <1>12, <1>13, <2>1, <2>2, <2>3, <2>5 DEF IInv
<1>15. CASE t \notin w.allTx
  <2> DEFINE y == InsertTx(x, t)
  <2>1. w' = y BY <1>1, <1>15
  <2>2. /\ x \in Wallets /\ x.list = w.list /\ x.allTx = w.allTx \union {t}
        /\ x.height = [w.height EXCEPT ![t] = h]
        /\ x.len = w.len /\ x.acct.used = w.acct.used \union OutAddrs(t)
    <3>1. w.height \in [Tx -> 0..Unconfirmed] /\ OutAddrs(t) \in SUBSET Address
      BY <1>2, <1>6, OwnOutputsAre DEF Wallets
    <3>2. [w.height EXCEPT ![t] = h] \in [Tx -> 0..Unconfirmed] BY <1>6, <3>1
    <3>3. w.acct \in Accounts BY <1>2 DEF Wallets, Accounts
    <3>4. /\ [w.acct EXCEPT !.used = @ \union OutAddrs(t)] \in Accounts
          /\ [w.acct EXCEPT !.used = @ \union OutAddrs(t)].used = w.acct.used \union OutAddrs(t)
      BY <3>1, <3>3 DEF Accounts
    <3> DEFINE hh == [w.height EXCEPT ![t] = h]
               aa == [w.acct EXCEPT !.used = @ \union OutAddrs(t)]
    <3>5. x = [w EXCEPT !.height = hh, !.allTx = w.allTx \union {t}, !.acct = aa]
      BY <1>2 DEF Wallets
    <3> HIDE DEF x, hh, aa, t, h
    <3>6. /\ hh \in [Tx -> 0..Unconfirmed] /\ aa \in Accounts
          /\ aa.used = w.acct.used \union OutAddrs(t)
      BY <3>2, <3>4 DEF hh, aa
    <3>7. /\ x \in Wallets /\ x.list = w.list /\ x.allTx = w.allTx \union {t} /\ x.height = hh
          /\ x.len = w.len /\ x.acct = aa
      BY <1>2, <1>6, <3>5, <3>6 DEF Wallets, Accounts
    <3> QED BY <3>6, <3>7 DEF hh
  <2> HIDE DEF x, t, h
  <2>3. w.height \in [Tx -> 0..Unconfirmed] /\ x.height \in [Tx -> 0..Unconfirmed] /\ x.height[t] = h
        /\ \A u \in Tx : u # t => x.height[u] = w.height[u]
    BY <1>2, <1>6, <2>2 DEF Wallets
  <2>4. t \notin ToSet(w.list) BY <1>3, <1>15 DEF ListFits
  <2>5. Distinct(x.list) /\ Ordered(x.list, x.height)
    <3>1. \A k \in DOMAIN w.list : w.list[k] \in Tx /\ w.list[k] # t
      BY <1>2, <2>4, InSet, ListedAreTx
    <3>2. Distinct(w.list) /\ Ordered(w.list, w.height) BY <1>3 DEF ListFits
    <3> QED BY <2>2, <2>3, <3>1, <3>2 DEF Ordered
  <2>6. /\ y \in Wallets /\ Distinct(y.list) /\ Ordered(y.list, y.height)
        /\ ToSet(y.list) = ToSet(x.list) \union {t} /\ y.allTx = x.allTx /\ y.height = x.height
    BY <1>6, <2>2, <2>4, <2>5, InsertTxIs
  <2>12. y.len = x.len /\ y.acct = x.acct BY <2>2 DEF InsertTx, Wallets
  <2> HIDE DEF y
  <2>7. ListFits(y, mined)
    <3>1. \A u \in ToSet(y.list) : u \in y.allTx /\ IsMinedAt(mined, u, y.height[u])
      <4> SUFFICES ASSUME NEW u \in ToSet(y.list)
                   PROVE  u \in y.allTx /\ IsMinedAt(mined, u, y.height[u])
        OBVIOUS
      <4>1. CASE u = t BY <1>7, <2>2, <2>3, <2>6, <4>1
      <4>2. CASE u # t
        <5>1. u \in ToSet(w.list) BY <2>2, <2>6, <4>2
        <5>2. u \in w.allTx /\ IsMinedAt(mined, u, w.height[u]) BY <1>3, <5>1 DEF ListFits
        <5>3. y.height[u] = w.height[u] BY <1>2, <2>3, <2>6, <4>2, <5>1, ListedAreTx
        <5> QED BY <2>2, <2>6, <5>2, <5>3
      <4> QED BY <4>1, <4>2
    <3>2. \A u \in Tx \ y.allTx : IsUnconfirmed(y, u)
      BY <1>3, <2>2, <2>3, <2>6 DEF ListFits, IsUnconfirmed
    <3> QED BY <2>6, <3>1, <3>2 DEF ListFits
  <2>8. TypeOK' BY <1>1, <1>2, <1>8, <2>1, <2>6, TypesNext
  <2>9. ListFits(w', mined') BY <1>1, <2>1, <2>7
  <2>10. LoadIsOwn'
    <3>1. UNION {OutAddrs(u) : u \in w.allTx \union {t}} = (UNION {OutAddrs(u) : u \in w.allTx}) \union OutAddrs(t)
      BY AddressesWith
    <3>2. w'.allTx = w.allTx \union {t} /\ w'.len = w.len /\ w'.acct.used = w.acct.used \union OutAddrs(t)
      BY <2>1, <2>2, <2>6, <2>12
    <3> QED BY <1>13, <3>1, <3>2 DEF LoadIsOwn
  <2>11. IInv' BY <1>10, <1>11, <1>12, <1>13, <2>8, <2>9, <2>10 DEF IInv
  <2> QED BY <2>1, <2>2, <2>6, <2>11
<1> QED BY <1>14, <1>15

LEMMA LoadedStep ==
  ASSUME IInv, Loaded
  PROVE  IInv' /\ ToSet(w.list) \subseteq ToSet(w'.list)
<1> DEFINE l2 == FirstAddrs(w.len, w.acct.used)
           x == [w EXCEPT !.len = l2]
<1>1. /\ Loading /\ mined' = mined /\ tip' = tip
      /\ op[PeerThread].todo = <<>>
      /\ w' = UpdateBalance([w EXCEPT !.len = FirstAddrs(@, w.acct.used)])
      /\ op' = [op EXCEPT ![PeerThread] = Idle]
  BY DEF Loaded, Loading
<1>2. /\ w \in Wallets /\ op \in [Thread -> Ops] /\ OthersAct /\ PeerThread \in Thread
      /\ DOMAIN mined \subseteq Tx /\ mined \in [DOMAIN mined -> 0..tip] /\ tip \in 0..MaxHeight
  BY Types, WalletAssumption DEF IInv
<1>3. ListFits(w, mined) /\ \A a, b \in DOMAIN mined : ~Conflicts(a, b) BY DEF IInv, MinedAgree
<1>4. AreOwn(w.allTx) /\ w.len = [c \in Chain |-> 0] /\ w.acct.used = UNION {OutAddrs(u) : u \in w.allTx}
  <2>1. Stored(<<>>) = {} BY DEF Stored
  <2>2. w.allTx \union Stored(op[PeerThread].todo) = w.allTx BY <1>1, <2>1
  <2> QED BY <1>1, <2>2 DEF IInv, LoadIsOwn
<1>5. l2 \in [Chain -> Nat]
  <2>1. w.len \in [Chain -> Nat] /\ w.acct.used \in SUBSET Address BY <1>2 DEF Wallets
  <2>2. "ext" \in Chain /\ "int" \in Chain BY DEF Chain
  <2> DEFINE l1 == UnusedAddrs(w.len, w.acct.used, "ext", Gap["ext"])
  <2>3. Gap["ext"] \in Nat /\ Gap["int"] \in Nat BY <2>2, WalletAssumption
  <2>4. l1 \in [Chain -> Nat] BY <2>1, <2>2, <2>3, UnusedAddrsIs
  <2>5. l2 = UnusedAddrs(l1, w.acct.used, "int", Gap["int"]) BY DEF FirstAddrs
  <2> HIDE DEF l1, l2
  <2> QED BY <2>1, <2>2, <2>3, <2>4, <2>5, UnusedAddrsIs
<1>15. \A u \in w.allTx : ContainsTx([allTx |-> w.allTx, len |-> l2], u)
  BY <1>4 DEF AreOwn
<1>16. w' = UpdateBalance(x) BY <1>1, <1>2 DEF Wallets
<1> HIDE DEF l2
<1>6. x \in Wallets /\ x.list = w.list /\ x.height = w.height /\ x.allTx = w.allTx /\ x.len = l2
  BY <1>2, <1>5 DEF Wallets
<1> HIDE DEF x
<1>7. ListFits(x, mined) BY <1>3, <1>6 DEF ListFits, IsUnconfirmed
<1>8. /\ w' \in Wallets /\ AccountHolds(w') /\ ConfirmedCount(w') /\ ListFits(w', mined)
      /\ w'.list = x.list /\ w'.len = x.len /\ w'.allTx = x.allTx
  BY <1>1, <1>3, <1>6, <1>7, <1>16, Walks
<1>9. \A u \in ToSet(w'.list) : ContainsTx(w', u)
  <2> SUFFICES ASSUME NEW u \in ToSet(w.list) PROVE ContainsTx(w', u)
    BY <1>6, <1>8
  <2>1. u \in w.allTx BY <1>3 DEF ListFits
  <2>2. ContainsTx([allTx |-> w.allTx, len |-> l2], u) BY <1>15, <2>1
  <2> QED BY <1>6, <1>8, <2>2 DEF ContainsTx
<1>10. op' \in [Thread -> Ops] /\ OthersAct' /\ Quiet'
  <2>1. Idle \in Ops /\ Idle.at \notin {"loading", "updating"} BY OpsOf DEF Idle
  <2> QED BY <1>1, <1>2, <2>1, OpNext DEF Quiet
<1>11. TypeOK' BY <1>1, <1>2, <1>8, <1>10, TypesNext
<1>12. MinedAgree' BY <1>1, <1>3 DEF MinedAgree
<1>13. ListFits(w', mined') BY <1>1, <1>8
<1>14. IInv' BY <1>8, <1>9, <1>10, <1>11, <1>12, <1>13, QuietNext
<1> QED BY <1>6, <1>8, <1>14

LEMMA UpdatedStep ==
  ASSUME IInv, Updated
  PROVE  IInv' /\ ToSet(w.list) \subseteq ToSet(w'.list)
<1>1. /\ Updating /\ mined' = mined /\ tip' = tip
      /\ w' = IF op[PeerThread].needsUpdate THEN UpdateBalance(w) ELSE w
      /\ op' = [op EXCEPT ![PeerThread] = Idle]
  BY DEF Updated, Updating
<1>2. /\ w \in Wallets /\ op \in [Thread -> Ops] /\ OthersAct /\ PeerThread \in Thread
      /\ DOMAIN mined \subseteq Tx /\ mined \in [DOMAIN mined -> 0..tip] /\ tip \in 0..MaxHeight
  BY Types, WalletAssumption DEF IInv
<1>3. ListFits(w, mined) /\ \A a, b \in DOMAIN mined : ~Conflicts(a, b) BY DEF IInv, MinedAgree
<1>4. ~Loading BY <1>1 DEF Loading, Updating
<1>5. AccountHolds(w) /\ (op[PeerThread].needsUpdate \/ ConfirmedCount(w))
  BY <1>1, <1>4 DEF IInv, AccountIsKept
<1>6. \A u \in ToSet(w.list) : ContainsTx(w, u) BY <1>4 DEF IInv, ListIsOwn
<1>7. op' \in [Thread -> Ops] /\ OthersAct' /\ Quiet'
  <2>1. Idle \in Ops /\ Idle.at \notin {"loading", "updating"} BY OpsOf DEF Idle
  <2> QED BY <1>1, <1>2, <2>1, OpNext DEF Quiet
<1>8. MinedAgree' BY <1>1, <1>3 DEF MinedAgree
<1>9. /\ w' \in Wallets /\ AccountHolds(w') /\ ConfirmedCount(w') /\ ListFits(w', mined)
      /\ w'.list = w.list /\ \A u \in ToSet(w'.list) : ContainsTx(w', u)
  <2>1. CASE op[PeerThread].needsUpdate
    <3>1. w' = UpdateBalance(w) BY <1>1, <2>1
    <3>2. /\ w' \in Wallets /\ AccountHolds(w') /\ ConfirmedCount(w') /\ ListFits(w', mined)
          /\ w'.list = w.list /\ \A u : ContainsTx(w, u) => ContainsTx(w', u)
      BY <1>2, <1>3, <3>1, Walks
    <3> QED BY <1>6, <3>2
  <2>2. CASE ~op[PeerThread].needsUpdate
    <3>1. w' = w BY <1>1, <2>2
    <3> QED BY <1>2, <1>3, <1>5, <1>6, <2>2, <3>1
  <2> QED BY <2>1, <2>2
<1>10. TypeOK' BY <1>1, <1>2, <1>7, <1>9, TypesNext
<1>11. ListFits(w', mined') BY <1>1, <1>9
<1>12. IInv' BY <1>7, <1>8, <1>9, <1>10, <1>11, QuietNext
<1> QED BY <1>9, <1>12

(* The height of one that is not listed changes, or it is forgotten.        *)
LEMMA Reheighted ==
  ASSUME NEW x \in Wallets, NEW y, NEW m, NEW t \in Tx, NEW h, ListFits(x, m), t \notin ToSet(x.list),
         y.list = x.list, y.acct = x.acct, y.height = [x.height EXCEPT ![t] = h],
         y.allTx = x.allTx \/ y.allTx = x.allTx \ {t}, t \in y.allTx \/ h = Unconfirmed
  PROVE  /\ ListFits(y, m)
         /\ AccountHolds(x) => AccountHolds(y)
         /\ ConfirmedCount(x) => ConfirmedCount(y)
<1>1. x.list \in Seq(Tx) /\ x.height \in [Tx -> 0..Unconfirmed] BY DEF Wallets
<1>2. y.height[t] = h /\ \A u \in Tx : u # t => y.height[u] = x.height[u] BY <1>1
<1>3. \A u \in ToSet(x.list) : u \in Tx /\ u # t BY <1>1, InSet, ElementIs
<1>4. \A k \in DOMAIN x.list : x.list[k] \in ToSet(x.list) BY InSet
<1>5. Ordered(y.list, y.height) BY <1>2, <1>3, <1>4 DEF ListFits, Ordered
<1>6. Distinct(y.list) BY DEF ListFits
<1>7. \A u \in ToSet(y.list) : u \in y.allTx /\ IsMinedAt(m, u, y.height[u])
  BY <1>2, <1>3 DEF ListFits
<1>8. \A u \in Tx \ y.allTx : IsUnconfirmed(y, u) BY <1>2 DEF ListFits, IsUnconfirmed
<1>9. AccountHolds(x) => AccountHolds(y) BY DEF AccountHolds, SpentIsOff, OneOfTwoCounts, AddsUp, Discounted
<1>10. ConfirmedCount(x) => ConfirmedCount(y)
  BY <1>2, <1>3 DEF ConfirmedCount, Discounted, IsUnconfirmed
<1> QED BY <1>5, <1>6, <1>7, <1>8, <1>9, <1>10 DEF ListFits

(* The height of one that is listed changes, and with it its place.         *)
LEMMA Moved ==
  ASSUME NEW x \in Wallets, NEW m, NEW t \in Tx, NEW h \in 0..Unconfirmed, ListFits(x, m),
         t \in ToSet(x.list), IsMinedAt(m, t, h)
  PROVE  LET z == [x EXCEPT !.height[t] = h]
             y == InsertTx([z EXCEPT !.list = Drop(@, t)], t)
         IN  /\ y \in Wallets /\ ListFits(y, m) /\ ToSet(y.list) = ToSet(x.list)
             /\ y.allTx = x.allTx /\ y.len = x.len /\ y.acct = x.acct
             /\ AccountHolds(x) => AccountHolds(y)
             /\ ConfirmedCount(x) /\ t \notin Discounted(x) => ConfirmedCount(y)
<1> DEFINE hh == [x.height EXCEPT ![t] = h]
           d == Drop(x.list, t)
           z == [x EXCEPT !.height[t] = h]
           v == [z EXCEPT !.list = Drop(@, t)]
           y == InsertTx(v, t)
<1>1. x.list \in Seq(Tx) /\ x.height \in [Tx -> 0..Unconfirmed] /\ x.height \in [Tx -> Nat] BY DEF Wallets
<1>2. hh \in [Tx -> 0..Unconfirmed] /\ hh \in [Tx -> Nat] BY <1>1
<1>3. hh[t] = h /\ \A u \in Tx : u # t => hh[u] = x.height[u] BY <1>1
<1>4. v = [x EXCEPT !.height = hh, !.list = d] BY DEF Wallets
<1> HIDE DEF hh, v, z
<1>5. /\ d \in Seq(Tx) /\ Distinct(d) /\ ToSet(d) = ToSet(x.list) \ {t} /\ Len(d) = Len(x.list) - 1
      /\ Ordered(d, hh)
  <2>1. Distinct(x.list) /\ Ordered(x.list, x.height) BY DEF ListFits
  <2> QED BY <1>1, <1>2, <1>3, <2>1, DropIs
<1> HIDE DEF d
<1>6. /\ v \in Wallets /\ v.list = d /\ v.height = hh /\ v.allTx = x.allTx /\ v.len = x.len
      /\ v.acct = x.acct
  BY <1>2, <1>4, <1>5 DEF Wallets
<1>7. /\ y \in Wallets /\ Distinct(y.list) /\ Ordered(y.list, y.height)
      /\ ToSet(y.list) = ToSet(d) \union {t} /\ Len(y.list) = Len(d) + 1
      /\ y.allTx = x.allTx /\ y.height = hh /\ y.len = x.len /\ y.acct = x.acct
  <2>1. t \notin ToSet(v.list) /\ Distinct(v.list) /\ Ordered(v.list, v.height) BY <1>5, <1>6
  <2> QED BY <1>6, <2>1, InsertTxIs
<1> HIDE DEF y
<1>8. ToSet(y.list) = ToSet(x.list) /\ Len(y.list) = Len(x.list)
  <2>1. Len(x.list) \in Nat BY <1>1
  <2> QED BY <1>5, <1>7, <2>1
<1>9. \A u \in ToSet(x.list) : u \in Tx BY <1>1, InSet, ElementIs
<1>10. ListFits(y, m)
  <2>1. \A u \in ToSet(y.list) : u \in y.allTx /\ IsMinedAt(m, u, y.height[u])
    BY <1>3, <1>7, <1>8, <1>9 DEF ListFits
  <2>2. \A u \in Tx \ y.allTx : IsUnconfirmed(y, u)
    BY <1>3, <1>7 DEF ListFits, IsUnconfirmed
  <2> QED BY <1>7, <2>1, <2>2 DEF ListFits
<1>11. AccountHolds(x) => AccountHolds(y)
  BY <1>7, <1>8 DEF AccountHolds, SpentIsOff, OneOfTwoCounts, AddsUp, Discounted
<1>12. ConfirmedCount(x) /\ t \notin Discounted(x) => ConfirmedCount(y)
  BY <1>3, <1>7, <1>8, <1>9 DEF ConfirmedCount, Discounted, IsUnconfirmed
<1> QED BY <1>7, <1>8, <1>10, <1>11, <1>12 DEF y, v, z

LEMMA UpdateTxStep ==
  ASSUME IInv, UpdateTx
  PROVE  IInv' /\ ToSet(w.list) \subseteq ToSet(w'.list)
<1> DEFINE o == op[PeerThread]
           s == o.todo
           t == s[1]
           h == o.height
           x == [w EXCEPT !.height[t] = h]
           y == InsertTx([x EXCEPT !.list = Drop(@, t)], t)
           z == [w EXCEPT !.height[t] = Unconfirmed, !.allTx = @ \ {t}]
           late == t \in w.acct.pending \union w.acct.invalid
<1>1. /\ o.at = "updating" /\ s # <<>> /\ mined' = mined /\ tip' = tip BY DEF UpdateTx
<1>2. /\ w \in Wallets /\ op \in [Thread -> Ops] /\ OthersAct /\ PeerThread \in Thread
      /\ DOMAIN mined \subseteq Tx /\ mined \in [DOMAIN mined -> 0..tip] /\ tip \in 0..MaxHeight
  BY Types, WalletAssumption DEF IInv
<1>3. ListFits(w, mined) /\ MinedAgree BY DEF IInv
<1>4. Updating /\ ~Loading BY <1>1 DEF Updating, Loading
<1>5. o \in Ops /\ s \in Seq(Tx) /\ h \in 0..Unconfirmed /\ o.needsUpdate \in BOOLEAN BY <1>1, <1>2, OpsAre
<1>6. 1 \in DOMAIN s /\ Tail(s) \in Seq(Tx)
      /\ \A k \in DOMAIN Tail(s) : k + 1 \in DOMAIN s /\ Tail(s)[k] = s[k + 1]
  BY <1>1, <1>5
<1>7. t \in Tx BY <1>5, <1>6, ElementIs
<1>8. \A k \in DOMAIN s : IsMinedAt(mined, s[k], h) BY <1>4 DEF IInv, TodoIsMined
<1>9. IsMinedAt(mined, t, h) BY <1>6, <1>8
<1>10. AccountHolds(w) /\ (o.needsUpdate \/ ConfirmedCount(w)) BY <1>4 DEF IInv, AccountIsKept
<1>11. \A u \in ToSet(w.list) : ContainsTx(w, u) BY <1>4 DEF IInv, ListIsOwn
<1>12. MinedAgree' BY <1>1, <1>3 DEF MinedAgree
<1>13. ASSUME NEW r, r \in Ops, r.at = "updating", r.todo = Tail(s), r.height = h,
              op' = [op EXCEPT ![PeerThread] = r],
              w' \in Wallets, ListFits(w', mined), AccountHolds(w'),
              r.needsUpdate \/ ConfirmedCount(w'), \A u \in ToSet(w'.list) : ContainsTx(w', u)
       PROVE  IInv'
  <2>1. op' \in [Thread -> Ops] /\ OthersAct' /\ op'[PeerThread] = r BY <1>2, <1>13, OpNext
  <2>2. Updating' /\ ~Loading' BY <1>13, <2>1 DEF Updating, Loading
  <2>3. TypeOK' BY <1>1, <1>2, <1>13, <2>1, TypesNext
  <2>4. ListIsOwn' BY <1>13, <2>2 DEF ListIsOwn
  <2>5. TodoIsMined'
    <3>1. \A k \in DOMAIN Tail(s) : IsMinedAt(mined, Tail(s)[k], h) BY <1>6, <1>8
    <3> HIDE DEF s, h
    <3>2. op'[PeerThread].todo = Tail(s) /\ op'[PeerThread].height = h BY <1>13, <2>1
    <3> QED BY <1>1, <2>2, <3>1, <3>2 DEF TodoIsMined
  <2>6. AccountIsKept' BY <1>13, <2>1, <2>2 DEF AccountIsKept
  <2>7. ListFits(w', mined') BY <1>1, <1>13
  <2>8. LoadIsOwn' BY <2>2 DEF LoadIsOwn
  <2> QED BY <1>12, <2>3, <2>4, <2>5, <2>6, <2>7, <2>8 DEF IInv
<1> DEFINE r1 == [o EXCEPT !.todo = Tail(s)]
           r2 == [o EXCEPT !.todo = Tail(s), !.needsUpdate = @ \/ late]
<1>14. /\ r1 \in Ops /\ r1.at = "updating" /\ r1.todo = Tail(s) /\ r1.height = h
       /\ r1.needsUpdate = o.needsUpdate
  <2> HIDE DEF s
  <2> QED BY <1>1, <1>5, <1>6, UpdatingWith
<1>15. /\ r2 \in Ops /\ r2.at = "updating" /\ r2.todo = Tail(s) /\ r2.height = h
       /\ r2.needsUpdate = (o.needsUpdate \/ late)
  <2> DEFINE b == o.needsUpdate \/ late
             U == [at : {"updating"}, todo : Seq(Tx), height : 0..Unconfirmed, needsUpdate : BOOLEAN]
             rest == Tail(s)
  <2>1. o \in U BY <1>1, <1>5 DEF Ops
  <2>2. b \in BOOLEAN /\ rest \in Seq(Tx) BY <1>6
  <2>3. r2 = [o EXCEPT !.todo = rest, !.needsUpdate = b] BY <2>1
  <2> HIDE DEF b, r2, o, rest
  <2>4. r2 \in U BY <2>1, <2>2, <2>3
  <2>5. r2.at = "updating" /\ r2.todo = rest /\ r2.height = o.height BY <2>1, <2>3
  <2>6. r2.needsUpdate = b BY <2>1, <2>3
  <2>7. r2 \in Ops BY <2>4 DEF Ops
  <2> QED BY <2>5, <2>6, <2>7 DEF b, rest
<1>16. /\ x \in Wallets /\ x.list = w.list /\ x.acct = w.acct /\ x.allTx = w.allTx /\ x.len = w.len
       /\ x.height = [w.height EXCEPT ![t] = h]
  <2>1. [w.height EXCEPT ![t] = h] \in [Tx -> 0..Unconfirmed] BY <1>2, <1>5, <1>7 DEF Wallets
  <2> QED BY <1>2, <2>1 DEF Wallets
<1>17. /\ z \in Wallets /\ z.list = w.list /\ z.acct = w.acct /\ z.allTx = w.allTx \ {t} /\ z.len = w.len
       /\ z.height = [w.height EXCEPT ![t] = Unconfirmed]
  <2>1. Unconfirmed \in 0..Unconfirmed BY WalletAssumption DEF Unconfirmed
  <2>2. [w.height EXCEPT ![t] = Unconfirmed] \in [Tx -> 0..Unconfirmed] BY <1>2, <1>7, <2>1 DEF Wallets
  <2> QED BY <1>2, <2>2 DEF Wallets
<1>18. CASE w' = w /\ op' = [op EXCEPT ![PeerThread] = r1]
  <2> HIDE DEF r1, s, h
  <2>1. IInv' BY <1>2, <1>3, <1>10, <1>11, <1>13, <1>14, <1>18
  <2> QED BY <1>18, <2>1
<1>19. CASE t \in ToSet(w.list) /\ w' = y /\ op' = [op EXCEPT ![PeerThread] = r2]
  <2> HIDE DEF r2, t, h, late, s
  <2>1. /\ y \in Wallets /\ ListFits(y, mined) /\ ToSet(y.list) = ToSet(w.list)
        /\ y.allTx = w.allTx /\ y.len = w.len /\ y.acct = w.acct
        /\ AccountHolds(w) => AccountHolds(y)
        /\ ConfirmedCount(w) /\ t \notin Discounted(w) => ConfirmedCount(y)
    BY <1>2, <1>3, <1>5, <1>7, <1>9, <1>19, Moved
  <2> HIDE DEF y
  <2>2. r2.needsUpdate \/ ConfirmedCount(w')
    <3>1. ~late => t \notin Discounted(w) BY DEF late, Discounted
    <3> QED BY <1>10, <1>15, <1>19, <2>1, <3>1
  <2>3. \A u \in ToSet(w'.list) : ContainsTx(w', u) BY <1>11, <1>19, <2>1 DEF ContainsTx
  <2>4. IInv' BY <1>10, <1>13, <1>15, <1>19, <2>1, <2>2, <2>3
  <2> QED BY <1>19, <2>1, <2>4
<1>20. CASE /\ t \in w.allTx /\ t \notin ToSet(w.list) /\ w' = x
            /\ op' = [op EXCEPT ![PeerThread] = r2] \/ op' = [op EXCEPT ![PeerThread] = r1]
  <2> HIDE DEF r1, r2, t, h, late, x, s
  <2>1. /\ ListFits(x, mined)
        /\ AccountHolds(w) => AccountHolds(x)
        /\ ConfirmedCount(w) => ConfirmedCount(x)
    BY <1>2, <1>3, <1>7, <1>16, <1>20, Reheighted
  <2>2. \A u \in ToSet(w'.list) : ContainsTx(w', u) BY <1>11, <1>16, <1>20 DEF ContainsTx
  <2>3. (r1.needsUpdate \/ ConfirmedCount(w')) /\ (r2.needsUpdate \/ ConfirmedCount(w'))
    BY <1>10, <1>14, <1>15, <1>20, <2>1
  <2>5. w' \in Wallets /\ ListFits(w', mined) /\ AccountHolds(w') BY <1>10, <1>16, <1>20, <2>1
  <2>4. IInv'
    <3>1. CASE op' = [op EXCEPT ![PeerThread] = r1] BY <1>13, <1>14, <2>2, <2>3, <2>5, <3>1
    <3>2. CASE op' = [op EXCEPT ![PeerThread] = r2] BY <1>13, <1>15, <2>2, <2>3, <2>5, <3>2
    <3> QED BY <1>20, <3>1, <3>2
  <2> QED BY <1>16, <1>20, <2>4
<1>21. CASE ~ContainsTx(w, t) /\ w' = z /\ op' = [op EXCEPT ![PeerThread] = r1]
  <2> HIDE DEF r1, r2, t, h, late, z, s
  <2>0. t \notin ToSet(w.list) BY <1>11, <1>21
  <2>1. /\ ListFits(z, mined)
        /\ AccountHolds(w) => AccountHolds(z)
        /\ ConfirmedCount(w) => ConfirmedCount(z)
    BY <1>2, <1>3, <1>7, <1>17, <2>0, Reheighted
  <2>2. \A u \in ToSet(w'.list) : ContainsTx(w', u)
    <3>1. \A c \in Chain : w.len[c] <= z.len[c]
      <4>1. w.len \in [Chain -> Nat] BY <1>2 DEF Wallets
      <4> QED BY <1>17, <4>1
    <3>2. ~PaysChains(t, w.len) BY <1>21 DEF ContainsTx
    <3>3. \A p \in w.allTx : p \in z.allTx \/ ~PaysChains(p, w.len) BY <1>17, <3>2
    <3> QED BY <1>2, <1>11, <1>17, <1>21, <3>1, <3>3, ContainsKept, ListedAreTx
  <2>3. r1.needsUpdate \/ ConfirmedCount(w') BY <1>10, <1>14, <1>21, <2>1
  <2>5. w' \in Wallets /\ ListFits(w', mined) /\ AccountHolds(w') BY <1>10, <1>17, <1>21, <2>1
  <2>4. IInv' BY <1>13, <1>14, <1>21, <2>2, <2>3, <2>5
  <2> QED BY <1>17, <1>21, <2>4
<1> QED
  <2>1. \A e : op' = [op EXCEPT ![PeerThread].todo = e] => op' = [op EXCEPT ![PeerThread] = [o EXCEPT !.todo = e]]
    BY <1>2
  <2>2. op' = [op EXCEPT ![PeerThread].todo = Tail(@), ![PeerThread].needsUpdate = @ \/ late]
          => op' = [op EXCEPT ![PeerThread] = r2]
    BY <1>2
  <2>3. \/ w' = w /\ op' = [op EXCEPT ![PeerThread].todo = Tail(s)]
        \/ /\ t \in w.allTx /\ ContainsTx(w, t)
           /\ w' = IF t \in ToSet(w.list) THEN y ELSE x
           /\ op' = [op EXCEPT ![PeerThread].todo = Tail(@), ![PeerThread].needsUpdate = @ \/ late]
        \/ /\ t \in w.allTx /\ ~ContainsTx(w, t)
           /\ w' = IF h # Unconfirmed THEN z ELSE x
           /\ op' = [op EXCEPT ![PeerThread].todo = Tail(s)]
    BY DEF UpdateTx
  <2> HIDE DEF r2, x, y, z, late, t, h
  <2>4. ~ContainsTx(w, t) => t \notin ToSet(w.list) BY <1>11
  <2> QED BY <1>18, <1>19, <1>20, <1>21, <2>1, <2>2, <2>3, <2>4

LEMMA UpdateTransactionsStep ==
  ASSUME IInv, ~Locked, NEW hs \in Seq(Tx), NEW h \in 0..Unconfirmed, UpdateTransactions(hs, h),
         DOMAIN mined' \subseteq Tx, mined' \in [DOMAIN mined' -> 0..tip'], tip' \in 0..MaxHeight,
         MinedAgree', \A t \in DOMAIN mined : t \in DOMAIN mined' /\ mined'[t] = mined[t],
         \A k \in DOMAIN hs : IsMinedAt(mined', hs[k], h)
  PROVE  IInv' /\ ToSet(w.list) \subseteq ToSet(w'.list)
<1> DEFINE r == [at |-> "updating", todo |-> hs, height |-> h, needsUpdate |-> FALSE]
           b == IF h > w.blockHeight THEN h ELSE w.blockHeight
<1>1. op' = [op EXCEPT ![PeerThread] = r] /\ w' = [w EXCEPT !.blockHeight = b]
  BY DEF UpdateTransactions
<1>2. w \in Wallets /\ op \in [Thread -> Ops] /\ OthersAct /\ PeerThread \in Thread
  BY Types, WalletAssumption DEF IInv
<1>3. ListFits(w, mined) BY DEF IInv
<1>4. AccountHolds(w) /\ ConfirmedCount(w) /\ (\A s \in ToSet(w.list) : ContainsTx(w, s))
  BY QuietIs, UnlockedIsQuiet
<1>5. op' \in [Thread -> Ops] /\ OthersAct' /\ op'[PeerThread] = r
  <2>1. r \in Ops BY OpsOf
  <2> HIDE DEF r
  <2> QED BY <1>1, <1>2, <2>1, OpNext
<1>6. /\ w' \in Wallets /\ w'.list = w.list /\ w'.height = w.height /\ w'.acct = w.acct
      /\ w'.len = w.len /\ w'.allTx = w.allTx
  <2>1. b \in 0..Unconfirmed BY <1>2 DEF Wallets
  <2> HIDE DEF b
  <2> QED BY <1>1, <1>2, <2>1 DEF Wallets
<1>7. Updating' /\ ~Loading' /\ op'[PeerThread].todo = hs /\ op'[PeerThread].height = h
  BY <1>5 DEF Updating, Loading
<1>8. TypeOK' BY <1>5, <1>6, TypesNext
<1>9. ListFits(w', mined')
  <2>1. \A t \in ToSet(w'.list) : t \in w'.allTx /\ IsMinedAt(mined', t, w'.height[t])
    BY <1>3, <1>6 DEF ListFits, IsMinedAt
  <2>2. \A t \in Tx \ w'.allTx : IsUnconfirmed(w', t) BY <1>3, <1>6 DEF ListFits, IsUnconfirmed
  <2>3. Distinct(w'.list) /\ Ordered(w'.list, w'.height) BY <1>3, <1>6 DEF ListFits
  <2> QED BY <2>1, <2>2, <2>3 DEF ListFits
<1>10. ListIsOwn' BY <1>4, <1>6, <1>7 DEF ListIsOwn, ContainsTx
<1>11. TodoIsMined' BY <1>7 DEF TodoIsMined
<1>12. AccountIsKept'
  <2>1. AccountHolds(w') /\ ConfirmedCount(w') BY <1>4, <1>6, SameAccount
  <2> QED BY <2>1 DEF AccountIsKept
<1>14. LoadIsOwn' BY <1>7 DEF LoadIsOwn
<1>13. IInv' BY <1>8, <1>9, <1>10, <1>11, <1>12, <1>14 DEF IInv
<1> QED BY <1>6, <1>13

LEMMA MarkRelayedStep ==
  ASSUME IInv, NEW t \in Tx, MarkRelayed(t)
  PROVE  IInv' /\ ToSet(w.list) \subseteq ToSet(w'.list)
<1>1. ~Locked /\ UpdateTransactions(<<t>>, Unconfirmed) /\ mined' = mined /\ tip' = tip
  BY DEF MarkRelayed, Free
<1>2. Unconfirmed \in 0..Unconfirmed BY WalletAssumption DEF Unconfirmed
<1>3. <<t>> \in Seq(Tx) /\ \A k \in DOMAIN <<t>> : IsMinedAt(mined', <<t>>[k], Unconfirmed)
  BY DEF IsMinedAt
<1>4. /\ DOMAIN mined \subseteq Tx /\ mined \in [DOMAIN mined -> 0..tip] /\ tip \in 0..MaxHeight
  BY Types DEF IInv
<1>5. MinedAgree' BY <1>1 DEF IInv, MinedAgree
<1> QED BY <1>1, <1>2, <1>3, <1>4, <1>5, UpdateTransactionsStep

LEMMA MineStep ==
  ASSUME IInv, NEW ts \in Blocks, Mine(ts)
  PROVE  IInv' /\ ToSet(w.list) \subseteq ToSet(w'.list)
<1> DEFINE S == ToSet(ts)
<1>1. /\ ~Locked /\ tip < MaxHeight /\ Minable(ts) /\ tip' = tip + 1
      /\ mined' = [t \in DOMAIN mined \union S |-> IF t \in S THEN tip + 1 ELSE mined[t]]
      /\ UpdateTransactions(ts, tip + 1)
  BY DEF Mine, Free
<1>2. DOMAIN mined \subseteq Tx /\ mined \in [DOMAIN mined -> 0..tip] /\ tip \in 0..MaxHeight
  BY Types DEF IInv
<1>3. ts \in Seq(Tx)
  <2>1. \A a, b \in Tx : <<a>> \in Seq(Tx) /\ <<a, b>> \in Seq(Tx) OBVIOUS
  <2>2. <<>> \in Seq(Tx) OBVIOUS
  <2>3. ts = <<>> \/ (\E a \in Tx : ts = <<a>>) \/ (\E a \in Tx : \E b \in Tx : ts = <<a, b>>)
    BY DEF Blocks
  <2>4. CASE ts = <<>> BY <2>2, <2>4
  <2>5. CASE \E a \in Tx : ts = <<a>> BY <2>1, <2>5
  <2>6. CASE \E a \in Tx : \E b \in Tx : ts = <<a, b>> BY <2>1, <2>6
  <2> QED BY <2>3, <2>4, <2>5, <2>6
<1>4. S \subseteq Tx BY <1>3, InSet, ElementIs
<1>5. \A k \in DOMAIN ts : ts[k] \in S BY InSet
<1>6. \A t \in S : \E k \in DOMAIN ts : ts[k] = t BY InSet
<1> HIDE DEF S
<1>7. MaxHeight \in Nat /\ Unconfirmed = MaxHeight + 1 BY WalletAssumption DEF Unconfirmed
<1>8. tip + 1 \in 0..Unconfirmed /\ tip' \in 0..MaxHeight /\ tip \in Nat BY <1>1, <1>2, <1>7
<1>9. DOMAIN mined' \subseteq Tx /\ mined' \in [DOMAIN mined' -> 0..tip']
  <2>1. DOMAIN mined' = DOMAIN mined \union S BY <1>1
  <2>2. \A t \in DOMAIN mined' : mined'[t] = IF t \in S THEN tip + 1 ELSE mined[t] BY <1>1
  <2>3. \A t \in DOMAIN mined' : mined'[t] \in 0..tip' BY <1>1, <1>2, <1>8, <2>1, <2>2
  <2>4. mined' = [t \in DOMAIN mined' |-> mined'[t]] BY <1>1
  <2> QED BY <1>2, <1>4, <2>1, <2>3, <2>4
<1>10. \A t \in S : t \notin DOMAIN mined BY <1>1, <1>6 DEF Minable
<1>11. \A t \in DOMAIN mined : t \in DOMAIN mined' /\ mined'[t] = mined[t] BY <1>1, <1>10
<1>12. MinedAgree'
  <2>1. \A a \in S : \A b \in DOMAIN mined \union S : ~Conflicts(a, b)
    BY <1>1, <1>6 DEF Minable, S
  <2>2. \A a, b : Conflicts(a, b) => Conflicts(b, a) BY DEF Conflicts
  <2>3. DOMAIN mined' = DOMAIN mined \union S BY <1>1
  <2> QED BY <2>1, <2>2, <2>3 DEF IInv, MinedAgree
<1>13. \A k \in DOMAIN ts : IsMinedAt(mined', ts[k], tip + 1) BY <1>1, <1>5 DEF IsMinedAt
<1> QED BY <1>1, <1>3, <1>8, <1>9, <1>11, <1>12, <1>13, UpdateTransactionsStep

LEMMA ReorganiseStep ==
  ASSUME IInv, NEW h \in 0..MaxHeight, Reorganise(h)
  PROVE  IInv' /\ ToSet(w.list) \subseteq ToSet(w'.list)
<1> DEFINE l == w.list
           from == {n \in DOMAIN l : \A k \in n..Len(l) : w.height[l[k]] > h}
           after == {l[n] : n \in from}
           hh == [t \in Tx |-> IF t \in after THEN Unconfirmed ELSE w.height[t]]
           y == [w EXCEPT !.blockHeight = h, !.height = hh]
<1>1. /\ ~Locked /\ h < tip /\ tip' = h /\ op' = op
      /\ mined' = [t \in {u \in DOMAIN mined : mined[u] <= h} |-> mined[t]]
      /\ w' = SetTxUnconfirmedAfter(w, h)
  BY DEF Reorganise, Free, Restrict
<1>2. /\ w \in Wallets /\ op \in [Thread -> Ops] /\ OthersAct
      /\ DOMAIN mined \subseteq Tx /\ mined \in [DOMAIN mined -> 0..tip] /\ tip \in 0..MaxHeight
  BY Types DEF IInv
<1>3. ListFits(w, mined) /\ MinedAgree BY DEF IInv
<1>4. AccountHolds(w) /\ ConfirmedCount(w) /\ (\A s \in ToSet(w.list) : ContainsTx(w, s)) /\ Quiet
  BY <1>1, QuietIs, UnlockedIsQuiet
<1>5. w' = IF from # {} THEN UpdateBalance(y) ELSE y
  <2>1. y = [w EXCEPT !.blockHeight = h,
                      !.height = [t \in Tx |-> IF t \in after THEN Unconfirmed ELSE @[t]]]
    BY <1>2 DEF Wallets
  <2> QED BY <1>1, <2>1 DEF SetTxUnconfirmedAfter
<1>6. /\ l \in Seq(Tx) /\ Len(l) \in Nat /\ DOMAIN l = 1..Len(l) /\ \A n \in 1..Len(l) : l[n] \in Tx
      /\ w.height \in [Tx -> 0..Unconfirmed] /\ Unconfirmed \in Nat /\ h \in Nat
      /\ h \in 0..Unconfirmed
  BY <1>2, WalletAssumption DEF Wallets, Unconfirmed
<1>7. Distinct(l) /\ Ordered(l, w.height) BY <1>3 DEF ListFits
<1>8. hh \in [Tx -> 0..Unconfirmed] BY <1>6
<1>9. \A t \in Tx : hh[t] = IF t \in after THEN Unconfirmed ELSE w.height[t] OBVIOUS
<1>10. from \subseteq 1..Len(l) /\ \A j \in from : \A k \in j..Len(l) : k \in from BY <1>6
<1>11. \A n \in 1..Len(l) : l[n] \in after => n \in from BY <1>6, <1>7, <1>10 DEF Distinct
<1>12. ASSUME NEW n \in 1..Len(l), l[n] \notin after PROVE w.height[l[n]] <= h
  <2>1. n \notin from BY <1>12
  <2>2. PICK k \in n..Len(l) : ~(w.height[l[k]] > h) BY <1>6, <2>1
  <2>3. k \in 1..Len(l) /\ w.height[l[k]] \in Nat /\ w.height[l[n]] \in Nat BY <1>6
  <2>4. w.height[l[n]] <= w.height[l[k]]
    <3>1. CASE n = k BY <2>3, <3>1
    <3>2. CASE n < k BY <1>6, <1>7, <2>3, <3>2 DEF Ordered
    <3> QED BY <1>6, <3>1, <3>2
  <2>5. w.height[l[k]] <= h BY <1>6, <2>2, <2>3
  <2> HIDE DEF l, from, after, hh
  <2> QED BY <1>6, <2>3, <2>4, <2>5
<1>13. \A n \in from : l[n] \in after OBVIOUS
<1>14. from = {} => after = {} OBVIOUS
<1>15. y \in Wallets /\ y.list = l /\ y.height = hh /\ y.allTx = w.allTx /\ y.len = w.len /\ y.acct = w.acct
  <2> HIDE DEF hh
  <2> QED BY <1>2, <1>6, <1>8 DEF Wallets
<1> HIDE DEF from, after, hh, y, l
<1>16. Ordered(l, hh)
  <2> SUFFICES ASSUME NEW j \in 1..Len(l), NEW k \in 1..Len(l), j < k PROVE hh[l[j]] <= hh[l[k]]
    BY <1>6 DEF Ordered
  <2>1. l[j] \in Tx /\ l[k] \in Tx /\ hh[l[j]] \in 0..Unconfirmed BY <1>6, <1>8
  <2>2. CASE l[k] \in after
    <3>1. hh[l[k]] = Unconfirmed BY <1>9, <2>1, <2>2
    <3> QED BY <1>6, <2>1, <3>1
  <2>3. CASE l[k] \notin after
    <3>1. l[j] \notin after
      <4>1. l[j] \in after => k \in from BY <1>6, <1>10, <1>11
      <4> QED BY <1>13, <2>3, <4>1
    <3>2. hh[l[j]] = w.height[l[j]] /\ hh[l[k]] = w.height[l[k]] BY <1>9, <2>1, <2>3, <3>1
    <3> QED BY <1>6, <1>7, <3>2 DEF Ordered
  <2> QED BY <2>2, <2>3
<1>17. ListFits(y, mined')
  <2>1. ASSUME NEW t \in ToSet(l) PROVE t \in w.allTx /\ IsMinedAt(mined', t, hh[t])
    <3>1. PICK n \in 1..Len(l) : l[n] = t BY <1>6, InSet
    <3>2. t \in w.allTx /\ IsMinedAt(mined, t, w.height[t]) BY <1>3 DEF ListFits, l
    <3>3. CASE t \in after BY <1>6, <1>9, <3>1, <3>2, <3>3 DEF IsMinedAt
    <3>4. CASE t \notin after
      <4>1. hh[t] = w.height[t] /\ w.height[t] <= h BY <1>6, <1>9, <1>12, <3>1, <3>4
      <4> QED BY <1>1, <3>2, <4>1 DEF IsMinedAt
    <3> QED BY <3>3, <3>4
  <2>2. \A t \in Tx \ w.allTx : hh[t] = Unconfirmed BY <1>3, <1>9 DEF ListFits, IsUnconfirmed
  <2> QED BY <1>7, <1>15, <1>16, <2>1, <2>2 DEF ListFits, IsUnconfirmed
<1>18. \A a, b \in DOMAIN mined' : ~Conflicts(a, b) BY <1>1, <1>3 DEF MinedAgree
<1>19. \A t : ContainsTx(w, t) => ContainsTx(y, t) BY <1>15 DEF ContainsTx
<1>20. /\ w' \in Wallets /\ AccountHolds(w') /\ ConfirmedCount(w') /\ ListFits(w', mined')
       /\ w'.list = l /\ \A t : ContainsTx(y, t) => ContainsTx(w', t)
  <2>1. CASE from # {}
    <3>1. w' = UpdateBalance(y) BY <1>5, <2>1
    <3> QED BY <1>15, <1>17, <1>18, <3>1, Walks
  <2>2. CASE from = {}
    <3>1. w' = y BY <1>5, <2>2
    <3>2. \A t \in Tx : y.height[t] = w.height[t] BY <1>9, <1>14, <1>15, <2>2
    <3>3. y.height = w.height BY <1>6, <1>8, <1>15, <3>2
    <3>4. AccountHolds(y) /\ ConfirmedCount(y) BY <1>4, <1>15, <3>3, SameAccount DEF l
    <3> QED BY <1>15, <1>17, <3>1, <3>4
  <2> QED BY <2>1, <2>2
<1>21. \A t \in ToSet(w'.list) : ContainsTx(w', t) BY <1>4, <1>19, <1>20 DEF l
<1>22. TypeOK'
  <2>1. OthersAct' BY <1>1, <1>2 DEF OthersAct
  <2>2. DOMAIN mined' \subseteq Tx /\ tip' \in 0..MaxHeight BY <1>1, <1>2
  <2>3. mined' \in [DOMAIN mined' -> 0..tip'] BY <1>1, <1>2
  <2> QED BY <1>1, <1>2, <1>20, <2>1, <2>2, <2>3, TypesNext
<1>23. MinedAgree' BY <1>18 DEF MinedAgree
<1>24. Quiet' BY <1>1, <1>4 DEF Quiet
<1>25. IInv' BY <1>20, <1>21, <1>22, <1>23, <1>24, QuietNext
<1> QED BY <1>20, <1>25 DEF l

-----------------------------------------------------------------------------
LEMMA InvInit == Init => IInv
<1> SUFFICES ASSUME Init PROVE IInv
  OBVIOUS
<1>1. PICK s \in SavedLists :
        /\ w = EmptyWallet
        /\ op = [th \in Thread |-> IF th = PeerThread THEN [at |-> "loading", todo |-> s] ELSE Idle]
        /\ mined = [t \in {s[k].tx : k \in {n \in DOMAIN s : s[n].height # Unconfirmed}} |->
                      s[CHOOSE k \in DOMAIN s : s[k].tx = t].height]
        /\ tip = Max({0} \union {s[k].height : k \in {n \in DOMAIN s : s[n].height # Unconfirmed}})
  BY DEF Init
<1> DEFINE C == {n \in DOMAIN s : s[n].height # Unconfirmed}
           H == {0} \union {s[k].height : k \in C}
<1>2. /\ s \in Seq([tx : Tx, height : 0..Unconfirmed])
      /\ AreOwn(Stored(s))
      /\ \A j, k \in DOMAIN s : s[j].tx = s[k].tx => j = k
      /\ \A j, k \in DOMAIN s :
           Conflicts(s[j].tx, s[k].tx) => Unconfirmed \in {s[j].height, s[k].height}
  BY SavedAssumption DEF Stored
<1>3. \A k \in DOMAIN s : s[k].tx \in Tx /\ s[k].height \in 0..Unconfirmed
  <2>1. \A k \in DOMAIN s : s[k] \in [tx : Tx, height : 0..Unconfirmed] BY <1>2, ElementIs
  <2> QED BY <2>1
<1>4. MaxHeight \in Nat /\ Unconfirmed = MaxHeight + 1 BY WalletAssumption DEF Unconfirmed
<1>5. tip \in 0..MaxHeight /\ \A k \in C : s[k].height \in 0..tip
  <2>1. H \in SUBSET Nat /\ H # {} /\ \A y \in H : y \in 0..MaxHeight BY <1>3, <1>4
  <2>2. tip = Max(H) BY <1>1
  <2>3. \A k \in C : s[k].height \in H /\ s[k].height \in Nat BY <1>3, <1>4
  <2> HIDE DEF H
  <2>4. tip \in H /\ \A y \in H : y <= tip BY <1>4, <2>1, <2>2, MaxIs
  <2>5. tip \in 0..MaxHeight BY <2>1, <2>4
  <2> QED BY <1>4, <2>3, <2>4, <2>5
<1>6. DOMAIN mined = {s[k].tx : k \in C} BY <1>1
<1>7. ASSUME NEW k \in C PROVE s[k].tx \in DOMAIN mined /\ mined[s[k].tx] = s[k].height
  <2> DEFINE c == CHOOSE j \in DOMAIN s : s[j].tx = s[k].tx
  <2>1. c \in DOMAIN s /\ s[c].tx = s[k].tx OBVIOUS
  <2>2. c = k BY <1>2, <2>1
  <2>3. mined[s[k].tx] = s[c].height BY <1>1
  <2> QED BY <1>6, <2>2, <2>3
<1>8. DOMAIN mined \subseteq Tx /\ mined \in [DOMAIN mined -> 0..tip]
  <2>1. \A t \in DOMAIN mined : \E k \in C : t = s[k].tx BY <1>6
  <2>2. \A t \in DOMAIN mined : mined[t] \in 0..tip BY <1>5, <1>7, <2>1
  <2>3. mined = [t \in DOMAIN mined |-> mined[t]] BY <1>1
  <2> QED BY <1>3, <2>1, <2>2, <2>3
<1>9. w \in Wallets
  <2>1. NoAccount \in Accounts BY DEF NoAccount, Accounts
  <2>2. [t \in Tx |-> Unconfirmed] \in [Tx -> 0..Unconfirmed] /\ 0 \in 0..Unconfirmed BY <1>4
  <2>3. [c \in Chain |-> 0] \in [Chain -> Nat] OBVIOUS
  <2> DEFINE hh == [t \in Tx |-> Unconfirmed]
             ll == [c \in Chain |-> 0]
  <2>4. EmptyWallet = [allTx |-> {}, list |-> <<>>, height |-> hh, blockHeight |-> 0, len |-> ll,
                       acct |-> NoAccount]
    BY DEF EmptyWallet
  <2>5. hh \in [Tx -> 0..Unconfirmed] /\ ll \in [Chain -> Nat] BY <2>2, <2>3
  <2> HIDE DEF hh, ll
  <2> QED BY <1>1, <2>1, <2>2, <2>4, <2>5 DEF Wallets, Accounts
<1>10. op[PeerThread] = [at |-> "loading", todo |-> s] BY <1>1, WalletAssumption
<1>11. op \in [Thread -> Ops] /\ OthersAct
  <2>1. [at |-> "loading", todo |-> s] \in Ops /\ Idle \in Ops /\ Idle.at = "idle"
    BY <1>2, OpsOf DEF Idle
  <2>2. \A th \in Thread \ {PeerThread} : op[th] = Idle BY <1>1
  <2>3. op \in [Thread -> Ops] BY <1>1, <2>1
  <2> QED BY <2>1, <2>2, <2>3 DEF OthersAct
<1>12. TypeOK BY <1>5, <1>8, <1>9, <1>11, Types
<1>13. Loading /\ ~Updating BY <1>10 DEF Loading, Updating
<1>14. w.list = <<>> /\ w.allTx = {} /\ w.height = [t \in Tx |-> Unconfirmed] BY <1>1 DEF EmptyWallet
<1>15. \A t : t \notin ToSet(w.list) BY <1>14, InSet
<1>16. ListFits(w, mined)
  <2>1. Distinct(w.list) /\ Ordered(w.list, w.height) BY <1>14 DEF Distinct, Ordered
  <2> QED BY <1>14, <1>15, <2>1 DEF ListFits, IsUnconfirmed
<1>17. ListIsOwn /\ LoadIsOwn
  <2>1. w.allTx \union Stored(op[PeerThread].todo) = Stored(s) BY <1>10, <1>14
  <2>2. w.len = [c \in Chain |-> 0] /\ w.acct.used = {} BY <1>1 DEF EmptyWallet, NoAccount
  <2>3. UNION {OutAddrs(t) : t \in w.allTx} = {} BY <1>14
  <2> QED BY <1>2, <1>15, <2>1, <2>2, <2>3 DEF ListIsOwn, LoadIsOwn
<1>18. MinedAgree
  <2> SUFFICES ASSUME NEW j \in C, NEW k \in C PROVE ~Conflicts(s[j].tx, s[k].tx)
    BY <1>6 DEF MinedAgree
  <2> QED BY <1>2
<1>19. TodoIsMined
  <2>1. \A k \in DOMAIN s : IsMinedAt(mined, s[k].tx, s[k].height) BY <1>7 DEF IsMinedAt
  <2> HIDE DEF C
  <2> QED BY <1>2, <1>10, <1>13, <2>1 DEF TodoIsMined
<1>20. AccountIsKept BY <1>13 DEF AccountIsKept
<1> QED BY <1>12, <1>16, <1>17, <1>18, <1>19, <1>20 DEF IInv

LEMMA InvNext == IInv /\ [Next]_vars => IInv'
<1> SUFFICES ASSUME IInv, [Next]_vars PROVE IInv'
  OBVIOUS
<1>1. CASE LoadTx \/ Loaded \/ UpdateTx \/ Updated
  BY <1>1, LoadTxStep, LoadedStep, UpdateTxStep, UpdatedStep
<1>2. ASSUME NEW th \in Thread, Replenish(th) \/ RemoveStep(th) \/ RemoveReturns(th) PROVE IInv'
  BY <1>2, ReplenishStep, RemoveStepStep, RemoveReturnsStep
<1>3. ASSUME NEW th \in Thread, NEW t \in Tx, RegisterTransaction(th, t) \/ RemoveTransaction(th, t)
      PROVE  IInv'
  BY <1>3, RegisterTransactionStep, RemoveTransactionStep
<1>4. ASSUME NEW t \in Tx, MarkRelayed(t) PROVE IInv' BY <1>4, MarkRelayedStep
<1>5. ASSUME NEW ts \in Blocks, Mine(ts) PROVE IInv' BY <1>5, MineStep
<1>6. ASSUME NEW h \in 0..MaxHeight, Reorganise(h) PROVE IInv' BY <1>6, ReorganiseStep
<1>7. CASE UNCHANGED vars
  BY <1>7 DEF vars, IInv, TypeOK, ListIsOwn, LoadIsOwn, MinedAgree, TodoIsMined, AccountIsKept, Loading, Updating
<1> QED BY <1>1, <1>2, <1>3, <1>4, <1>5, <1>6, <1>7 DEF Next

(* What the invariant says in the terms of the checked properties.          *)
LEMMA InvImplies ==
  IInv => ListIsSound /\ ConfirmedIsRight /\ AccountIsSound
<1> SUFFICES ASSUME IInv PROVE ListIsSound /\ ConfirmedIsRight /\ AccountIsSound
  OBVIOUS
<1>1. ListFits(w, mined) BY DEF IInv
<1>2. \A k \in DOMAIN w.list : w.list[k] \in ToSet(w.list) BY InSet
<1>3. NotFreed BY <1>1, <1>2 DEF ListFits, NotFreed
<1>4. Sorted BY <1>1 DEF ListFits, Ordered, Sorted
<1>5. ~Locked => AccountHolds(w) /\ ConfirmedCount(w) BY QuietIs, UnlockedIsQuiet
<1>6. ConfirmedIsMined BY <1>1, <1>2 DEF ListFits, IsMinedAt, IsUnconfirmed, ConfirmedIsMined
<1>7. ConfirmedCounts BY <1>2, <1>5 DEF ConfirmedCounts, ConfirmedCount, Discounted
<1>8. SpentNotListed BY <1>2, <1>5 DEF SpentNotListed, AccountHolds, SpentIsOff, Discounted
<1>9. DoubleSpendsExclude BY <1>2, <1>5 DEF DoubleSpendsExclude, AccountHolds, OneOfTwoCounts
<1>10. BalanceAddsUp BY <1>5 DEF BalanceAddsUp, AccountHolds, AddsUp
<1> QED BY <1>3, <1>4, <1>6, <1>7, <1>8, <1>9, <1>10
       DEF ListIsSound, ConfirmedIsRight, AccountIsSound

(* The invariant of every reachable state of the wallet.                    *)
THEOREM WalletInvariant == Spec => []IInv
BY InvInit, InvNext, PTL DEF Spec

(* BRWallet's fields and what its callers are in the middle of keep their   *)
(* types; in particular no balance that _BRWalletUpdateBalance computes is  *)
(* below zero.                                                              *)
THEOREM TypeCorrect == Spec => []TypeOK
<1>1. IInv => TypeOK BY DEF IInv
<1> QED BY <1>1, WalletInvariant, PTL

(* wallet->transactions holds no transaction that BRWalletUpdateTransactions*)
(* has freed, and stays sorted by height, between any two steps.            *)
THEOREM ListStaysSound == Spec => []ListIsSound
<1>1. IInv => ListIsSound BY InvImplies
<1> QED BY <1>1, WalletInvariant, PTL

(* What the wallet says is confirmed is in a block of the chain, also after *)
(* BRWalletSetTxUnconfirmedAfter, and it counts.                            *)
THEOREM ConfirmedStaysRight == Spec => []ConfirmedIsRight
<1>1. IInv => ConfirmedIsRight BY InvImplies
<1> QED BY <1>1, WalletInvariant, PTL

(* The account of _BRWalletUpdateBalance lists no spent output as unspent,  *)
(* counts at most one of two double spends, and adds up.                    *)
THEOREM AccountStaysSound == Spec => []AccountIsSound
<1>1. IInv => AccountIsSound BY InvImplies
<1> QED BY <1>1, WalletInvariant, PTL

(* BRWalletRemoveTransaction removes a transaction only after those that    *)
(* spend from it and are no older, whatever is registered between its calls.*)
THEOREM DependentsGo == Spec => DependentsGoFirst
<1> DEFINE A == \A t \in ToSet(w.list) \ ToSet(w'.list) : \A d \in ToSet(w'.list) :
                  t \in Parents(d) => w.height[d] < w.height[t]
<1>1. IInv /\ [Next]_vars => [A]_vars
  <2> SUFFICES ASSUME IInv, Next PROVE A
    OBVIOUS
  <2>1. CASE LoadTx \/ Loaded \/ UpdateTx \/ Updated
    BY <2>1, LoadTxStep, LoadedStep, UpdateTxStep, UpdatedStep
  <2>2. ASSUME NEW th \in Thread, Replenish(th) \/ RemoveStep(th) \/ RemoveReturns(th) PROVE A
    <3>1. CASE Replenish(th) BY <3>1, ReplenishStep
    <3>2. CASE RemoveReturns(th) BY <3>2, RemoveReturnsStep
    <3>3. CASE RemoveStep(th) BY <3>3, RemoveStepStep
    <3> QED BY <2>2, <3>1, <3>2, <3>3
  <2>3. ASSUME NEW th \in Thread, NEW t \in Tx, RegisterTransaction(th, t) \/ RemoveTransaction(th, t)
        PROVE  A
    <3>1. ToSet(w.list) \subseteq ToSet(w'.list) BY <2>3, RegisterTransactionStep, RemoveTransactionStep
    <3> QED BY <3>1
  <2>4. ASSUME NEW t \in Tx, MarkRelayed(t) PROVE A BY <2>4, MarkRelayedStep
  <2>5. ASSUME NEW ts \in Blocks, Mine(ts) PROVE A BY <2>5, MineStep
  <2>6. ASSUME NEW h \in 0..MaxHeight, Reorganise(h) PROVE A BY <2>6, ReorganiseStep
  <2> HIDE DEF A
  <2> QED BY <2>1, <2>2, <2>3, <2>4, <2>5, <2>6 DEF Next
<1>2. Spec => [][A]_vars
  <2> HIDE DEF A
  <2> QED BY <1>1, WalletInvariant, PTL DEF Spec
<1> QED BY <1>2 DEF DependentsGoFirst
=============================================================================
