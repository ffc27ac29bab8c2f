---------------------------- MODULE EthNodeProofs ----------------------------
(***************************************************************************)
(* The light node's list, nonces and blocked transactions are sound for    *)
(* any payments, chain length, reorganisations and number of calls, however *)
(* the user, the polling thread and the server's answers interleave.       *)
(***************************************************************************)
EXTENDS EthNode, TLAPS, FiniteSetTheorems, SequenceTheorems, WellFoundedInduction

-----------------------------------------------------------------------------
(* The invariant.                                                           *)
Nonces == 0..NoNonce
Mined == [name : Names, nonce : Nonces]

NodeOK ==
  /\ state \in {"CREATED", "CONNECTING", "CONNECTED", "DISCONNECTING", "DISCONNECTED", "ERRORED"}
  /\ thread \in {"none", "starting", "running"} /\ polled \in BOOLEAN

(* Each member of T is at one place of list l, and nothing else is.         *)
Lists(l, T) ==
  /\ l \in Seq(Nat)
  /\ \A j \in DOMAIN l : l[j] \in T
  /\ \A t \in T : \E j \in DOMAIN l : l[j] = t
  /\ \A j, k \in DOMAIN l : l[j] = l[k] => j = k

(* The list holds each transaction once, so it can be as long as txs.       *)
ListOK ==
  /\ txs \in Seq(Transaction)
  /\ Lists(wallet, Tids) /\ Len(wallet) = Len(txs)

NonceOK ==
  /\ nonce \in Nonces /\ torn \in BOOLEAN
  /\ signing \in {Idle} \union [step : {"read"}, tid : Tids, nonce : Nonces \ {NoNonce}]
                        \union [step : {"sign"}, tid : Tids]
  /\ raising \in {Idle} \union [step : {"set"}, nonce : Nonces, seen : Nonces]
  /\ raising.step = "set" => raising.seen < raising.nonce

NetworkOK ==
  /\ submitted \subseteq Mined
  /\ chain \in Seq(Mined) /\ Len(chain) <= MaxChain
  /\ former \subseteq [mined : Mined, at : Nat]

Event == Nat \X {"submitted", "mined"}

QueueOK ==
  /\ tells \subseteq Tids
  /\ told \in Seq({"nothing", "submitted", "mined"}) /\ Len(told) = Len(txs)
  /\ handler \in {"check", "block", "wait"}
  /\ pending \in Seq(Event)
  /\ \A j \in DOMAIN pending : About(pending[j]) \in Tids

(* A nonce is assigned to a payment once, and before it is signed.          *)
NoncesAssigned ==
  /\ \A t \in Tids : /\ txs[t].nonce \in Nonces
                     /\ txs[t].status = "signed" /\ txs[t].name \in Drafts => txs[t].nonce # NoNonce
  /\ signing.step = "read" => txs[signing.tid].name \in Drafts /\ txs[signing.tid].nonce = NoNonce
  /\ signing.step = "sign" => txs[signing.tid].name \in Drafts /\ txs[signing.tid].nonce # NoNonce

(* What has no hash was made here.                                          *)
UnhashedAreDrafts == \A t \in Tids : txs[t].hashed \/ txs[t].name \in Drafts

(* What reached the network is held here with the nonce it has there.       *)
SubmittedAreHeld ==
  \A s \in submitted : s.name \in Drafts =>
    /\ s.nonce # NoNonce
    /\ \E t \in Tids : txs[t].name = s.name
    /\ \A t \in Tids : txs[t].name = s.name => txs[t].nonce = s.nonce

(* The network makes up no payment of this node, nor did it before a        *)
(* reorganisation.                                                          *)
MinedAreSubmitted ==
  \A p \in Places :
    /\ p.mined.name \in Drafts => p.mined \in submitted
    /\ Own(p.mined.name) => p.mined.nonce # NoNonce

IInv ==
  /\ NodeOK /\ ListOK /\ NonceOK /\ NetworkOK /\ QueueOK
  /\ NoncesAssigned /\ UnhashedAreDrafts /\ SubmittedAreHeld /\ MinedAreSubmitted
  /\ ListedOnce /\ BlockedIsMined /\ BlockedInOrder /\ NonceIsFresh

-----------------------------------------------------------------------------
(* Numbers and sequences.                                                   *)

LEMMA LeastNumber ==
  ASSUME NEW T \in SUBSET Nat, T # {}
  PROVE  \E x \in T : \A y \in T : x <= y
<1> DEFINE R == {ss \in Nat \X Nat : ss[1] < ss[2]}
<1>1. IsWellFoundedOn(R, Nat) BY NatLessThanWellFounded DEF OpToRel
<1>2. \A x, y \in Nat : y < x => <<y, x>> \in R OBVIOUS
<1> HIDE DEF R
<1>3. PICK x \in T : \A y \in T : ~ (<<y, x>> \in R) BY <1>1, WFMin
<1>4. \A y \in T : ~(y < x) BY <1>2, <1>3
<1> QED BY <1>4

LEMMA MinIs ==
  ASSUME NEW S \in SUBSET Nat, S # {}
  PROVE  Min(S) \in S /\ \A y \in S : Min(S) <= y
BY LeastNumber DEF Min

LEMMA MaxIs ==
  ASSUME NEW S \in SUBSET Nat, S # {}, NEW n \in Nat, \A y \in S : y <= n
  PROVE  Max(S) \in S /\ \A y \in S : y <= Max(S)
<1> DEFINE T == {k \in Nat : \A y \in S : y <= k}
<1>1. T \in SUBSET Nat /\ T # {} OBVIOUS
<1>2. PICK x \in T : \A k \in T : x <= k
  <2> HIDE DEF T
  <2> QED BY <1>1, LeastNumber
<1>3. \A y \in S : y <= x BY <1>2
<1>4. ASSUME x \notin S PROVE FALSE
  <2>1. \A y \in S : y < x BY <1>3, <1>4
  <2>2. PICK y \in S : TRUE OBVIOUS
  <2>3. x - 1 \in T BY <2>1, <2>2
  <2> QED BY <1>2, <2>3
<1> QED BY <1>3, <1>4 DEF Max

LEMMA SeqIs ==
  ASSUME NEW S, NEW s \in Seq(S), NEW m, Len(s) = m
  PROVE  s = [n \in 1..m |-> s[n]]
OBVIOUS

LEMMA ElementIs ==
  ASSUME NEW S, NEW s \in Seq(S), NEW n \in DOMAIN s
  PROVE  s[n] \in S
OBVIOUS

LEMMA AppendIs ==
  ASSUME NEW S, NEW s \in Seq(S), NEW e \in S
  PROVE  /\ Append(s, e) \in Seq(S)
         /\ Len(Append(s, e)) = Len(s) + 1
         /\ DOMAIN Append(s, e) = 1..(Len(s) + 1) /\ DOMAIN s = 1..Len(s)
         /\ DOMAIN Append(s, e) = DOMAIN s \union {Len(s) + 1} /\ Len(s) + 1 \notin DOMAIN s
         /\ \A j \in DOMAIN s : Append(s, e)[j] = s[j]
         /\ Append(s, e)[Len(s) + 1] = e
OBVIOUS

LEMMA PartOf ==
  ASSUME NEW S, NEW s \in Seq(S), NEW m \in 1..(Len(s) + 1), NEW n \in (m - 1)..Len(s)
  PROVE  /\ SubSeq(s, m, n) \in Seq(S)
         /\ Len(SubSeq(s, m, n)) = n - m + 1
         /\ \A i \in 1..(n - m + 1) : SubSeq(s, m, n)[i] = s[m + i - 1]
<1>1. \A i \in m..n : s[i] \in S OBVIOUS
<1>2. m \in Int /\ n \in Int OBVIOUS
<1>3. (IF m <= n THEN n - m + 1 ELSE 0) = n - m + 1 OBVIOUS
<1> QED BY <1>1, <1>2, <1>3, SubSeqProperties

-----------------------------------------------------------------------------
(* The list: t is put in after the first k, and the k-th is taken out.      *)
Inserted(s, k, t) ==
  [n \in 1..(Len(s) + 1) |-> IF n <= k THEN s[n] ELSE IF n = k + 1 THEN t ELSE s[n - 1]]

Without(s, k) == [n \in 1..(Len(s) - 1) |-> IF n < k THEN s[n] ELSE s[n + 1]]

LEMMA SplicedIs ==
  ASSUME NEW S, NEW s \in Seq(S), NEW t \in S, NEW k \in 0..Len(s)
  PROVE  /\ SubSeq(s, 1, k) \o <<t>> \o SubSeq(s, k + 1, Len(s)) = Inserted(s, k, t)
         /\ Inserted(s, k, t) \in Seq(S)
<1> DEFINE a == SubSeq(s, 1, k)
           b == SubSeq(s, k + 1, Len(s))
           c == a \o <<t>>
<1>2. a \in Seq(S) /\ Len(a) = k /\ \A i \in 1..k : a[i] = s[i]
  <2>1. 1 \in 1..(Len(s) + 1) /\ k \in (1 - 1)..Len(s) OBVIOUS
  <2> QED BY <2>1, PartOf
<1>3. b \in Seq(S) /\ Len(b) = Len(s) - k /\ \A i \in 1..(Len(s) - k) : b[i] = s[k + i]
  <2>1. k + 1 \in 1..(Len(s) + 1) /\ Len(s) \in ((k + 1) - 1)..Len(s) OBVIOUS
  <2> QED BY <2>1, PartOf
<1> HIDE DEF a, b
<1>4. <<t>> \in Seq(S) /\ Len(<<t>>) = 1 /\ <<t>>[1] = t OBVIOUS
<1>5. c \in Seq(S) /\ Len(c) = k + 1 /\ \A i \in 1..(k + 1) : c[i] = IF i <= k THEN s[i] ELSE t
  BY <1>2, <1>4, ConcatProperties
<1> HIDE DEF c
<1>6. /\ c \o b \in Seq(S) /\ Len(c \o b) = Len(s) + 1
      /\ \A i \in 1..(Len(s) + 1) : (c \o b)[i] = IF i <= k + 1 THEN c[i] ELSE b[i - (k + 1)]
  BY <1>3, <1>5, ConcatProperties
<1>7. \A i \in 1..(Len(s) + 1) :
        (c \o b)[i] = IF i <= k THEN s[i] ELSE IF i = k + 1 THEN t ELSE s[i - 1]
  BY <1>3, <1>5, <1>6
<1> DEFINE r == c \o b
<1> HIDE DEF r
<1>8. r = Inserted(s, k, t)
  <2>1. r = [n \in 1..(Len(s) + 1) |-> r[n]] BY <1>6, SeqIs DEF r
  <2>2. \A n \in 1..(Len(s) + 1) : r[n] = IF n <= k THEN s[n] ELSE IF n = k + 1 THEN t ELSE s[n - 1]
    BY <1>7 DEF r
  <2> QED BY <2>1, <2>2 DEF Inserted
<1> QED BY <1>6, <1>8 DEF r, a, b, c

LEMMA RemovedIs ==
  ASSUME NEW S, NEW s \in Seq(S), NEW k \in 1..Len(s)
  PROVE  Removed(s, k) = Without(s, k) /\ Without(s, k) \in Seq(S)
<1> DEFINE a == SubSeq(s, 1, k - 1)
           b == SubSeq(s, k + 1, Len(s))
<1>1. Removed(s, k) = a \o b BY DEF Removed
<1>2. a \in Seq(S) /\ Len(a) = k - 1 /\ \A i \in 1..(k - 1) : a[i] = s[i]
  <2>1. 1 \in 1..(Len(s) + 1) /\ k - 1 \in (1 - 1)..Len(s) OBVIOUS
  <2> QED BY <2>1, PartOf
<1>3. b \in Seq(S) /\ Len(b) = Len(s) - k /\ \A i \in 1..(Len(s) - k) : b[i] = s[k + i]
  <2>1. k + 1 \in 1..(Len(s) + 1) /\ Len(s) \in ((k + 1) - 1)..Len(s) OBVIOUS
  <2> QED BY <2>1, PartOf
<1> HIDE DEF a, b
<1>4. /\ a \o b \in Seq(S) /\ Len(a \o b) = Len(s) - 1
      /\ \A i \in 1..(Len(s) - 1) : (a \o b)[i] = IF i <= k - 1 THEN a[i] ELSE b[i - (k - 1)]
  <2>1. /\ a \o b \in Seq(S) /\ Len(a \o b) = Len(a) + Len(b)
        /\ \A i \in 1..(Len(a) + Len(b)) : (a \o b)[i] = IF i <= Len(a) THEN a[i] ELSE b[i - Len(a)]
    BY <1>2, <1>3, ConcatProperties
  <2>2. Len(a) + Len(b) = Len(s) - 1 /\ Len(a) = k - 1 BY <1>2, <1>3
  <2> QED BY <2>1, <2>2
<1>5. ASSUME NEW i \in 1..(Len(s) - 1)
      PROVE  (a \o b)[i] = IF i < k THEN s[i] ELSE s[i + 1]
  <2>1. CASE i < k
    <3>1. i <= k - 1 /\ i \in 1..(k - 1) BY <2>1
    <3>2. (a \o b)[i] = a[i] BY <1>4, <3>1
    <3> QED BY <1>2, <2>1, <3>1, <3>2
  <2>2. CASE ~(i < k)
    <3>1. ~(i <= k - 1) /\ i - (k - 1) \in 1..(Len(s) - k) /\ k + (i - (k - 1)) = i + 1 BY <2>2
    <3>2. (a \o b)[i] = b[i - (k - 1)] BY <1>4, <3>1
    <3>3. b[i - (k - 1)] = s[k + (i - (k - 1))] BY <1>3, <3>1
    <3> QED BY <2>2, <3>1, <3>2, <3>3
  <2> QED BY <2>1, <2>2
<1> DEFINE r == a \o b
<1> HIDE DEF r
<1>6. r = Without(s, k)
  <2>1. r = [n \in 1..(Len(s) - 1) |-> r[n]] BY <1>4, SeqIs DEF r
  <2>2. \A n \in 1..(Len(s) - 1) : r[n] = IF n < k THEN s[n] ELSE s[n + 1] BY <1>5 DEF r
  <2> QED BY <2>1, <2>2 DEF Without
<1> QED BY <1>1, <1>4, <1>6 DEF r

(* The blocked transactions B of list l are in the order of their f.        *)
Ranked(l, B, f) ==
  \A p, q \in DOMAIN l : p < q /\ l[p] \in B /\ l[q] \in B => f[l[p]] <= f[l[q]]

LEMMA InsertedKeeps ==
  ASSUME NEW T, NEW l, Lists(l, T), NEW t \in Nat, t \notin T, NEW k \in 0..Len(l),
         NEW B, NEW f, \A u \in B : f[u] \in Nat, Ranked(l, B, f),
         t \in B => /\ k # 0 => l[k] \in B /\ f[l[k]] <= f[t]
                    /\ \A n \in (k + 1)..Len(l) : l[n] \in B => f[t] <= f[l[n]]
  PROVE  LET s == Inserted(l, k, t)
         IN  Lists(s, T \union {t}) /\ Len(s) = Len(l) + 1 /\ Ranked(s, B, f)
<1> DEFINE s == Inserted(l, k, t)
<1>0. l \in Seq(Nat) BY DEF Lists
<1>1. s \in Seq(Nat) BY <1>0, SplicedIs
<1>2. /\ DOMAIN s = 1..(Len(l) + 1)
      /\ \A n \in 1..(Len(l) + 1) : s[n] = IF n <= k THEN l[n] ELSE IF n = k + 1 THEN t ELSE l[n - 1]
  BY DEF Inserted
<1> HIDE DEF s
<1>3. Len(s) = Len(l) + 1 BY <1>0, <1>1, <1>2
<1>4. /\ DOMAIN l = 1..Len(l) /\ Len(l) \in Nat /\ k \in Nat /\ k <= Len(l)
      /\ \A n \in 1..Len(l) : l[n] \in T /\ l[n] # t
  BY <1>0 DEF Lists
<1> DEFINE at(n) == IF n <= k THEN n ELSE n - 1
<1>6. \A n \in 1..(Len(l) + 1) : n # k + 1 => at(n) \in 1..Len(l) /\ s[n] = l[at(n)]
  BY <1>2, <1>4
<1>7. s[k + 1] = t /\ k + 1 \in 1..(Len(l) + 1)
  <2>1. k + 1 \in 1..(Len(l) + 1) /\ ~(k + 1 <= k) BY <1>4
  <2> QED BY <1>2, <2>1
<1>8. \A m, n \in 1..(Len(l) + 1) :
        m # k + 1 /\ n # k + 1 => (at(m) = at(n) => m = n) /\ (m < n => at(m) < at(n))
  BY <1>4
<1>9. \A n \in 1..(Len(l) + 1) : /\ n < k + 1 => k # 0 /\ at(n) <= k /\ k \in 1..Len(l)
                                 /\ k + 1 < n => at(n) \in (k + 1)..Len(l)
  BY <1>4
<1>10. \A n \in 1..Len(l) : \E m \in 1..(Len(l) + 1) : m # k + 1 /\ at(m) = n
  <2> SUFFICES ASSUME NEW n \in 1..Len(l)
               PROVE  \E m \in 1..(Len(l) + 1) : m # k + 1 /\ at(m) = n
    OBVIOUS
  <2>1. CASE n <= k BY <1>4, <2>1
  <2>2. CASE ~(n <= k)
    <3>1. n + 1 \in 1..(Len(l) + 1) /\ ~(n + 1 <= k) /\ n + 1 # k + 1 /\ (n + 1) - 1 = n
      BY <1>4, <2>2
    <3> QED BY <3>1
  <2> QED BY <2>1, <2>2
<1> HIDE DEF at
<1>11. \A n \in DOMAIN s : s[n] \in T \union {t} BY <1>2, <1>4, <1>6, <1>7
<1>12. \A u \in T \union {t} : \E n \in DOMAIN s : s[n] = u
  <2> SUFFICES ASSUME NEW u \in T \union {t} PROVE \E n \in DOMAIN s : s[n] = u
    OBVIOUS
  <2>1. CASE u = t BY <1>2, <1>7, <2>1
  <2>2. CASE u \in T
    <3>1. PICK n \in 1..Len(l) : l[n] = u BY <1>4, <2>2 DEF Lists
    <3>2. PICK m \in 1..(Len(l) + 1) : m # k + 1 /\ at(m) = n BY <1>10
    <3> QED BY <1>2, <1>6, <3>1, <3>2
  <2> QED BY <2>1, <2>2
<1>13. ASSUME NEW m \in 1..(Len(l) + 1), NEW n \in 1..(Len(l) + 1), s[m] = s[n]
       PROVE  m = n
  <2>1. CASE m = k + 1 BY <1>4, <1>6, <1>7, <1>13, <2>1
  <2>2. CASE n = k + 1 BY <1>4, <1>6, <1>7, <1>13, <2>2
  <2>3. CASE m # k + 1 /\ n # k + 1
    <3>1. at(m) = at(n) BY <1>4, <1>6, <1>13, <2>3 DEF Lists
    <3> QED BY <1>8, <2>3, <3>1
  <2> QED BY <2>1, <2>2, <2>3
<1>14. Lists(s, T \union {t}) BY <1>1, <1>2, <1>11, <1>12, <1>13 DEF Lists
<1>15. Ranked(s, B, f)
  <2> SUFFICES ASSUME NEW m \in 1..(Len(l) + 1), NEW n \in 1..(Len(l) + 1), m < n,
                      s[m] \in B, s[n] \in B
               PROVE  f[s[m]] <= f[s[n]]
    BY <1>2 DEF Ranked
  <2>1. CASE m = k + 1
    <3>1. at(n) \in (k + 1)..Len(l) BY <1>9, <2>1
    <3> QED BY <1>4, <1>6, <1>7, <2>1, <3>1
  <2>2. CASE n = k + 1
    <3>1. k # 0 /\ at(m) <= k /\ k \in 1..Len(l) BY <1>9, <2>2
    <3>2. m # k + 1 BY <1>4, <2>2
    <3>3. at(m) \in 1..Len(l) /\ s[m] = l[at(m)] BY <1>6, <3>2
    <3>4. l[k] \in B /\ f[l[k]] <= f[t] BY <1>7, <2>2, <3>1
    <3>5. f[l[at(m)]] <= f[l[k]]
      <4>1. CASE at(m) = k BY <3>4, <4>1
      <4>2. CASE at(m) < k BY <1>4, <3>1, <3>3, <3>4, <4>2 DEF Ranked
      <4> QED BY <3>1, <3>3, <4>1, <4>2
    <3>6. f[l[k]] \in Nat /\ f[l[at(m)]] \in Nat /\ f[t] \in Nat BY <1>7, <2>2, <3>3, <3>4
    <3>7. f[l[at(m)]] <= f[t] BY <3>4, <3>5, <3>6
    <3>8. s[n] = t BY <1>7, <2>2
    <3> QED BY <3>3, <3>7, <3>8
  <2>3. CASE m # k + 1 /\ n # k + 1
    <3>1. at(m) < at(n) BY <1>8, <2>3
    <3> QED BY <1>4, <1>6, <2>3, <3>1 DEF Ranked
  <2> QED BY <2>1, <2>2, <2>3
<1> QED BY <1>3, <1>14, <1>15 DEF s

LEMMA WithoutKeeps ==
  ASSUME NEW T, NEW l, Lists(l, T), NEW k \in 1..Len(l), NEW B, NEW f, Ranked(l, B, f)
  PROVE  LET s == Without(l, k)
         IN  Lists(s, T \ {l[k]}) /\ Len(s) = Len(l) - 1 /\ Ranked(s, B, f)
<1> DEFINE s == Without(l, k)
<1>0. l \in Seq(Nat) BY DEF Lists
<1>1. s \in Seq(Nat) BY <1>0, RemovedIs
<1>2. /\ DOMAIN s = 1..(Len(l) - 1)
      /\ \A n \in 1..(Len(l) - 1) : s[n] = IF n < k THEN l[n] ELSE l[n + 1]
  BY DEF Without
<1> HIDE DEF s
<1>3. Len(s) = Len(l) - 1 BY <1>0, <1>1, <1>2
<1>4. DOMAIN l = 1..Len(l) /\ Len(l) \in Nat /\ k \in Nat /\ \A n \in 1..Len(l) : l[n] \in T
  BY <1>0 DEF Lists
<1> DEFINE at(n) == IF n < k THEN n ELSE n + 1
<1>5. \A n \in 1..(Len(l) - 1) : at(n) \in 1..Len(l) /\ s[n] = l[at(n)] /\ at(n) # k
  BY <1>2, <1>4
<1>6. \A m, n \in 1..(Len(l) - 1) : (at(m) = at(n) => m = n) /\ (m < n => at(m) < at(n))
  BY <1>4
<1>7. \A n \in 1..Len(l) : n # k => \E m \in 1..(Len(l) - 1) : at(m) = n
  <2> SUFFICES ASSUME NEW n \in 1..Len(l), n # k PROVE \E m \in 1..(Len(l) - 1) : at(m) = n
    OBVIOUS
  <2>1. CASE n < k BY <1>4, <2>1
  <2>2. CASE k < n
    <3>1. n - 1 \in 1..(Len(l) - 1) /\ ~(n - 1 < k) BY <1>4, <2>2
    <3>2. at(n - 1) = n BY <3>1
    <3> QED BY <3>1, <3>2
  <2> QED BY <1>4, <2>1, <2>2
<1> HIDE DEF at
<1>8. \A n \in DOMAIN s : s[n] \in T \ {l[k]}
  <2> SUFFICES ASSUME NEW n \in 1..(Len(l) - 1) PROVE s[n] \in T \ {l[k]}
    BY <1>2
  <2>1. at(n) \in 1..Len(l) /\ s[n] = l[at(n)] /\ at(n) # k BY <1>5
  <2>2. l[at(n)] \in T /\ l[at(n)] # l[k] BY <1>4, <2>1 DEF Lists
  <2> QED BY <2>1, <2>2
<1>9. ASSUME NEW u \in T \ {l[k]} PROVE \E n \in DOMAIN s : s[n] = u
  <2>1. PICK n \in 1..Len(l) : l[n] = u BY <1>4 DEF Lists
  <2>2. PICK m \in 1..(Len(l) - 1) : at(m) = n BY <1>7, <2>1
  <2> QED BY <1>2, <1>5, <2>1, <2>2
<1>10. ASSUME NEW m \in 1..(Len(l) - 1), NEW n \in 1..(Len(l) - 1), s[m] = s[n] PROVE m = n
  <2>1. at(m) = at(n) BY <1>4, <1>5, <1>10 DEF Lists
  <2> QED BY <1>6, <2>1
<1>11. Lists(s, T \ {l[k]}) BY <1>1, <1>2, <1>8, <1>9, <1>10 DEF Lists
<1>12. Ranked(s, B, f)
  <2> SUFFICES ASSUME NEW m \in 1..(Len(l) - 1), NEW n \in 1..(Len(l) - 1), m < n,
                      s[m] \in B, s[n] \in B
               PROVE  f[s[m]] <= f[s[n]]
    BY <1>2 DEF Ranked
  <2>1. at(m) < at(n) BY <1>6
  <2> QED BY <1>4, <1>5, <2>1 DEF Ranked
<1> QED BY <1>3, <1>11, <1>12 DEF s

BlockedOf(ts) == {t \in DOMAIN ts : ts[t].status = "blocked"}
PlaceOf(ts) == [t \in DOMAIN ts |-> ts[t].at]

LEMMA TransactionIs ==
  ASSUME NEW ts \in Seq(Transaction), NEW t \in DOMAIN ts
  PROVE  /\ ts[t].name \in Names /\ ts[t].nonce \in Nat /\ ts[t].hashed \in BOOLEAN
         /\ ts[t].status \in {"created", "signed", "submitted", "blocked"} /\ ts[t].at \in Nat
         /\ ts[t] \in Transaction /\ t \in Nat /\ Len(ts) \in Nat
<1>1. ts[t] \in Transaction BY ElementIs
<1>2. t \in Nat /\ Len(ts) \in Nat OBVIOUS
<1>3. \A x \in Transaction : /\ x.name \in Names /\ x.nonce \in Nat /\ x.hashed \in BOOLEAN
                             /\ x.status \in {"created", "signed", "submitted", "blocked"}
                             /\ x.at \in Nat
  BY DEF Transaction
<1> QED BY <1>1, <1>2, <1>3

(* The loop of walletInsertTransactionSorted keeps the blocked in order.    *)
LEMMA SortedKeeps ==
  ASSUME NEW ts \in Seq(Transaction), NEW T, \A u \in T : u \in DOMAIN ts,
         NEW l, Lists(l, T), NEW t \in DOMAIN ts, t \notin T,
         Ranked(l, BlockedOf(ts), PlaceOf(ts))
  PROVE  LET s == InsertSorted(l, ts, t)
         IN  /\ Lists(s, T \union {t}) /\ Len(s) = Len(l) + 1
             /\ Ranked(s, BlockedOf(ts), PlaceOf(ts))
<1> DEFINE B == BlockedOf(ts)
           f == PlaceOf(ts)
           stops == {j \in DOMAIN l : ~Less(ts[t], ts[l[j]])}
           k == Max({0} \union stops)
<1>1. l \in Seq(Nat) /\ DOMAIN l = 1..Len(l) /\ Len(l) \in Nat /\ \A j \in DOMAIN l : l[j] \in DOMAIN ts
  BY DEF Lists
<1>2. k \in {0} \union stops /\ \A j \in {0} \union stops : j <= k
  <2>1. /\ {0} \union stops \in SUBSET Nat /\ {0} \union stops # {}
        /\ \A j \in {0} \union stops : j <= Len(l)
    BY <1>1
  <2> HIDE DEF stops
  <2> QED BY <1>1, <2>1, MaxIs
<1>3. k \in 0..Len(l) BY <1>1, <1>2
<1>4. ASSUME NEW j \in DOMAIN l, k < j PROVE Less(ts[t], ts[l[j]])
  <2>1. j \in Nat /\ k \in Nat BY <1>1, <1>3
  <2>2. j \notin stops
    <3> HIDE DEF stops, k
    <3> QED BY <1>2, <1>4, <2>1
  <2> QED BY <2>2
<1>5. k # 0 => k \in DOMAIN l /\ ~Less(ts[t], ts[l[k]]) BY <1>2
<1>6. InsertSorted(l, ts, t) = Inserted(l, k, t)
  <2>1. InsertSorted(l, ts, t) = SubSeq(l, 1, k) \o <<t>> \o SubSeq(l, k + 1, Len(l))
    BY DEF InsertSorted
  <2>2. t \in Nat BY TransactionIs
  <2> HIDE DEF k
  <2> QED BY <1>1, <1>3, <2>1, <2>2, SplicedIs
<1> HIDE DEF k, stops
<1>7. \A u \in B : u \in DOMAIN ts /\ ts[u].status = "blocked" BY DEF BlockedOf
<1>8. \A u \in DOMAIN ts : f[u] = ts[u].at /\ ts[u].at \in Nat /\ (ts[u].status = "blocked" => u \in B)
  BY TransactionIs DEF PlaceOf, BlockedOf
<1>9. \A u \in B : f[u] \in Nat BY <1>7, <1>8
<1>10. ASSUME t \in B, k # 0 PROVE l[k] \in B /\ f[l[k]] <= f[t]
  <2>1. l[k] \in DOMAIN ts /\ ~Less(ts[t], ts[l[k]]) BY <1>1, <1>5, <1>10
  <2>2. ts[t].status = "blocked" BY <1>7, <1>10
  <2>3. ts[l[k]].status = "blocked" /\ ~(ts[t].at < ts[l[k]].at) BY <2>1, <2>2 DEF Less
  <2> QED BY <1>8, <2>1, <2>3
<1>11. ASSUME t \in B, NEW n \in (k + 1)..Len(l), l[n] \in B PROVE f[t] <= f[l[n]]
  <2>1. n \in DOMAIN l /\ k < n BY <1>1, <1>3
  <2>2. Less(ts[t], ts[l[n]]) BY <1>4, <2>1
  <2>3. ts[t].status = "blocked" /\ ts[l[n]].status = "blocked" BY <1>7, <1>11
  <2>4. ts[t].at < ts[l[n]].at BY <2>2, <2>3 DEF Less
  <2>5. l[n] \in DOMAIN ts BY <1>1, <2>1
  <2> QED BY <1>8, <2>4, <2>5
<1>12. t \in Nat BY TransactionIs
<1> HIDE DEF B, f
<1>13. LET s == Inserted(l, k, t)
       IN  Lists(s, T \union {t}) /\ Len(s) = Len(l) + 1 /\ Ranked(s, B, f)
  <2>1. t \in B => /\ k # 0 => l[k] \in B /\ f[l[k]] <= f[t]
                   /\ \A n \in (k + 1)..Len(l) : l[n] \in B => f[t] <= f[l[n]]
    BY <1>10, <1>11
  <2>2. Ranked(l, B, f) BY DEF B, f
  <2> QED BY <1>3, <1>9, <1>12, <2>1, <2>2, InsertedKeeps
<1> QED BY <1>6, <1>13 DEF B, f

(* What is not in the list does not matter to its order.                    *)
LEMMA RankedAgree ==
  ASSUME NEW l, NEW B, NEW f, NEW C, NEW g, Ranked(l, B, f),
         \A j \in DOMAIN l : l[j] \in C => l[j] \in B /\ g[l[j]] = f[l[j]]
  PROVE  Ranked(l, C, g)
<1> SUFFICES ASSUME NEW p \in DOMAIN l, NEW q \in DOMAIN l, p < q, l[p] \in C, l[q] \in C
             PROVE  g[l[p]] <= g[l[q]]
  BY DEF Ranked
<1>1. f[l[p]] <= f[l[q]] BY DEF Ranked
<1> QED BY <1>1

(* A transaction of the list that was not blocked is put in again.          *)
LEMMA UpdateKeeps ==
  ASSUME NEW ts \in Seq(Transaction), NEW us \in Seq(Transaction), DOMAIN us = DOMAIN ts,
         NEW l, Lists(l, DOMAIN ts), Ranked(l, BlockedOf(ts), PlaceOf(ts)),
         NEW t \in DOMAIN ts, \A u \in DOMAIN ts : u # t => us[u] = ts[u],
         NEW j \in DOMAIN l, l[j] = t
  PROVE  LET s == InsertSorted(Removed(l, j), us, t)
         IN  Lists(s, DOMAIN ts) /\ Len(s) = Len(l) /\ Ranked(s, BlockedOf(us), PlaceOf(us))
<1> DEFINE r == Removed(l, j)
           T == DOMAIN ts
           B == BlockedOf(ts)
           f == PlaceOf(ts)
           C == BlockedOf(us)
           g == PlaceOf(us)
<1>1. l \in Seq(Nat) /\ j \in 1..Len(l) BY DEF Lists
<1>2. r = Without(l, j) BY <1>1, RemovedIs
<1>3. Lists(r, T \ {t}) /\ Len(r) = Len(l) - 1 /\ Ranked(r, B, f)
  <2> HIDE DEF r, T, B, f
  <2>1. Lists(l, T) /\ Ranked(l, B, f) BY DEF T, B, f
  <2>2. Lists(Without(l, j), T \ {l[j]}) /\ Len(Without(l, j)) = Len(l) - 1 /\ Ranked(Without(l, j), B, f)
    BY <1>1, <2>1, WithoutKeeps
  <2> QED BY <1>2, <2>2
<1> HIDE DEF r
<1>4. \A n \in DOMAIN r : r[n] \in T /\ r[n] # t BY <1>3 DEF Lists
<1>5. \A u \in T : u # t /\ u \in C => u \in B /\ g[u] = f[u]
  BY DEF BlockedOf, PlaceOf
<1> HIDE DEF T, B, f, C, g
<1>6. \A n \in DOMAIN r : r[n] \in C => r[n] \in B /\ g[r[n]] = f[r[n]] BY <1>4, <1>5
<1>7. Ranked(r, C, g) BY <1>3, <1>6, RankedAgree
<1>8. \A u \in T \ {t} : u \in DOMAIN us BY DEF T
<1>9. LET s == InsertSorted(r, us, t)
      IN  Lists(s, (T \ {t}) \union {t}) /\ Len(s) = Len(r) + 1 /\ Ranked(s, C, g)
  <2>1. Lists(r, T \ {t}) /\ t \in DOMAIN us /\ t \notin T \ {t} BY <1>3 DEF T
  <2>2. Ranked(r, BlockedOf(us), PlaceOf(us)) BY <1>7 DEF C, g
  <2>3. LET s == InsertSorted(r, us, t)
        IN  /\ Lists(s, (T \ {t}) \union {t}) /\ Len(s) = Len(r) + 1
            /\ Ranked(s, BlockedOf(us), PlaceOf(us))
    BY <1>8, <2>1, <2>2, SortedKeeps
  <2> QED BY <2>3 DEF C, g
<1>10. (T \ {t}) \union {t} = T BY DEF T
<1>11. Len(l) \in Nat BY <1>1
<1> QED BY <1>3, <1>9, <1>10, <1>11 DEF r, T, C, g

(* The order of the blocked, said of the transactions themselves.           *)
LEMMA OrderIsRanked ==
  ASSUME NEW ts \in Seq(Transaction), NEW l, \A j \in DOMAIN l : l[j] \in DOMAIN ts
  PROVE  Ranked(l, BlockedOf(ts), PlaceOf(ts)) <=>
           \A p, q \in DOMAIN l : p < q /\ ts[l[p]].status = "blocked" /\ ts[l[q]].status = "blocked"
                                    => ts[l[p]].at <= ts[l[q]].at
<1>1. \A j \in DOMAIN l : /\ l[j] \in BlockedOf(ts) <=> ts[l[j]].status = "blocked"
                          /\ PlaceOf(ts)[l[j]] = ts[l[j]].at
  BY DEF BlockedOf, PlaceOf
<1> QED BY <1>1 DEF Ranked

-----------------------------------------------------------------------------
(* What an action leaves alone.                                             *)

LEMMA FrameNode == NodeOK /\ UNCHANGED <<state, thread, polled>> => NodeOK'
BY DEF NodeOK

LEMMA FrameList ==
  ASSUME ListOK, UnhashedAreDrafts, ListedOnce, BlockedInOrder, UNCHANGED listVars
  PROVE  ListOK' /\ UnhashedAreDrafts' /\ ListedOnce' /\ BlockedInOrder'
<1>1. txs' = txs /\ wallet' = wallet BY DEF listVars
<1>2. ListOK' BY <1>1 DEF ListOK, Lists, Tids
<1>3. UnhashedAreDrafts' BY <1>1 DEF UnhashedAreDrafts, Tids
<1>4. ListedOnce' BY <1>1 DEF ListedOnce, Tids
<1>5. BlockedInOrder' BY <1>1 DEF BlockedInOrder
<1> QED BY <1>2, <1>3, <1>4, <1>5

LEMMA FrameNonce ==
  ASSUME NonceOK, NoncesAssigned, NonceIsFresh, UNCHANGED nonceVars, txs' = txs
  PROVE  NonceOK' /\ NoncesAssigned' /\ NonceIsFresh'
<1>1. nonce' = nonce /\ signing' = signing /\ raising' = raising /\ torn' = torn BY DEF nonceVars
<1>2. NonceOK' BY <1>1 DEF NonceOK, Tids
<1>3. NoncesAssigned' BY <1>1 DEF NoncesAssigned, Tids
<1>4. NonceIsFresh' BY <1>1 DEF NonceIsFresh, Tids
<1> QED BY <1>2, <1>3, <1>4

LEMMA FrameNetwork ==
  ASSUME NetworkOK, MinedAreSubmitted, UNCHANGED networkVars
  PROVE  NetworkOK' /\ MinedAreSubmitted'
<1>1. submitted' = submitted /\ chain' = chain /\ former' = former BY DEF networkVars
<1>2. Places' = Places BY <1>1 DEF Places, Place
<1> QED BY <1>1, <1>2 DEF NetworkOK, MinedAreSubmitted

LEMMA FrameHeld ==
  ASSUME SubmittedAreHeld, BlockedIsMined, UNCHANGED networkVars, txs' = txs
  PROVE  SubmittedAreHeld' /\ BlockedIsMined'
<1>1. submitted' = submitted /\ Places' = Places BY DEF networkVars, Places, Place
<1> QED BY <1>1 DEF SubmittedAreHeld, BlockedIsMined, Tids

LEMMA FrameQueue ==
  ASSUME QueueOK, UNCHANGED <<tells, told, queueVars>>,
         Tids' = Tids, Len(txs') = Len(txs)
  PROVE  QueueOK'
<1>1. tells' = tells /\ told' = told /\ pending' = pending /\ handler' = handler BY DEF queueVars
<1> QED BY <1>1 DEF QueueOK

-----------------------------------------------------------------------------
(* Events.                                                                  *)

LEMMA EventIs == \A e \in Event : About(e) \in Nat /\ e[2] \in {"submitted", "mined"}
BY DEF Event, About

LEMMA SignalKeeps ==
  ASSUME NEW T, NEW e \in Event, About(e) \in T, SignalEvent(e),
         pending \in Seq(Event), \A j \in DOMAIN pending : About(pending[j]) \in T,
         handler \in {"check", "block", "wait"}
  PROVE  /\ pending' \in Seq(Event) /\ \A j \in DOMAIN pending' : About(pending'[j]) \in T
         /\ handler' \in {"check", "block", "wait"}
<1>1. pending' = pending \/ pending' = Append(pending, e) BY DEF SignalEvent, Enqueue
<1>2. handler' \in {"check", "block", "wait"} BY DEF SignalEvent, Wake
<1>3. CASE pending' = pending BY <1>2, <1>3
<1>4. CASE pending' = Append(pending, e)
  <2> DEFINE n == Len(pending) + 1
  <2>1. /\ Append(pending, e) \in Seq(Event)
        /\ DOMAIN Append(pending, e) = DOMAIN pending \union {n}
        /\ \A j \in DOMAIN pending : Append(pending, e)[j] = pending[j]
        /\ Append(pending, e)[n] = e
    BY AppendIs
  <2> HIDE DEF n
  <2>2. \A j \in DOMAIN pending' : About(pending'[j]) \in T BY <1>4, <2>1
  <2> QED BY <1>2, <1>4, <2>1, <2>2
<1> QED BY <1>1, <1>3, <1>4

-----------------------------------------------------------------------------
(* One transaction of ts becomes x in us; x is added to ts in us.           *)
Becomes(ts, us, t, x) ==
  /\ us \in Seq(Transaction) /\ DOMAIN us = DOMAIN ts /\ Len(us) = Len(ts)
  /\ us[t] = x /\ \A u \in DOMAIN ts : u # t => us[u] = ts[u]

Gains(ts, us, t, x) ==
  /\ us \in Seq(Transaction) /\ Len(us) = Len(ts) + 1 /\ t = Len(us)
  /\ t \notin DOMAIN ts /\ DOMAIN us = DOMAIN ts \union {t}
  /\ us[t] = x /\ \A u \in DOMAIN ts : us[u] = ts[u]

LEMMA ChangedBecomes ==
  ASSUME NEW ts \in Seq(Transaction), NEW t \in DOMAIN ts, NEW x \in Transaction
  PROVE  Becomes(ts, [ts EXCEPT ![t] = x], t, x)
BY DEF Becomes

LEMMA AppendGains ==
  ASSUME NEW ts \in Seq(Transaction), NEW x \in Transaction
  PROVE  Gains(ts, Append(ts, x), Len(ts) + 1, x)
BY AppendIs DEF Gains

LEMMA GainedBecomes ==
  ASSUME NEW ts, NEW us, NEW vs, NEW t, NEW x, NEW y, Gains(ts, us, t, x), Becomes(us, vs, t, y)
  PROVE  Gains(ts, vs, t, y)
BY DEF Gains, Becomes

WithNonce(x, n) == [x EXCEPT !.nonce = n]
WithStatus(x, s) == [x EXCEPT !.status = s]
AsAnswered(x) == [x EXCEPT !.status = "submitted", !.hashed = TRUE]
AsBlocked(x, i) == [x EXCEPT !.status = "blocked", !.at = i]

LEMMA FieldsAre ==
  ASSUME NEW x \in Transaction, NEW n \in Nat, NEW s \in {"created", "signed", "submitted", "blocked"}
  PROVE  /\ WithNonce(x, n) \in Transaction
         /\ WithNonce(x, n) = [name |-> x.name, nonce |-> n, hashed |-> x.hashed, status |-> x.status, at |-> x.at]
         /\ WithStatus(x, s) \in Transaction
         /\ WithStatus(x, s) = [name |-> x.name, nonce |-> x.nonce, hashed |-> x.hashed, status |-> s, at |-> x.at]
         /\ AsAnswered(x) \in Transaction
         /\ AsAnswered(x) = [name |-> x.name, nonce |-> x.nonce, hashed |-> TRUE, status |-> "submitted", at |-> x.at]
         /\ AsBlocked(x, n) \in Transaction
         /\ AsBlocked(x, n) = [name |-> x.name, nonce |-> x.nonce, hashed |-> x.hashed, status |-> "blocked", at |-> n]
<1>1. WithNonce(x, n) = [name |-> x.name, nonce |-> n, hashed |-> x.hashed, status |-> x.status, at |-> x.at]
  BY DEF Transaction, WithNonce
<1>2. WithStatus(x, s) = [name |-> x.name, nonce |-> x.nonce, hashed |-> x.hashed, status |-> s, at |-> x.at]
  BY DEF Transaction, WithStatus
<1>3. AsAnswered(x) = [name |-> x.name, nonce |-> x.nonce, hashed |-> TRUE, status |-> "submitted", at |-> x.at]
  <2> DEFINE y == WithStatus(x, "submitted")
  <2>1. AsAnswered(x) = [y EXCEPT !.hashed = TRUE] BY DEF AsAnswered, WithStatus
  <2>2. y = [name |-> x.name, nonce |-> x.nonce, hashed |-> x.hashed, status |-> "submitted", at |-> x.at]
    BY DEF Transaction, WithStatus
  <2> HIDE DEF y
  <2> QED BY <2>1, <2>2
<1>4. AsBlocked(x, n) = [name |-> x.name, nonce |-> x.nonce, hashed |-> x.hashed, status |-> "blocked", at |-> n]
  <2> DEFINE y == WithStatus(x, "blocked")
  <2>1. AsBlocked(x, n) = [y EXCEPT !.at = n] BY DEF AsBlocked, WithStatus
  <2>2. y = [name |-> x.name, nonce |-> x.nonce, hashed |-> x.hashed, status |-> "blocked", at |-> x.at]
    BY DEF Transaction, WithStatus
  <2> HIDE DEF y
  <2> QED BY <2>1, <2>2
<1>5. /\ x.name \in Names /\ x.nonce \in Nat /\ x.hashed \in BOOLEAN
      /\ x.status \in {"created", "signed", "submitted", "blocked"} /\ x.at \in Nat
  BY DEF Transaction
<1>6. \A a \in Names, b \in Nat, c \in BOOLEAN, d \in {"created", "signed", "submitted", "blocked"}, e \in Nat :
        [name |-> a, nonce |-> b, hashed |-> c, status |-> d, at |-> e] \in Transaction
  BY DEF Transaction
<1>7. WithNonce(x, n) \in Transaction
  <2>1. [name |-> x.name, nonce |-> n, hashed |-> x.hashed, status |-> x.status, at |-> x.at] \in Transaction
    BY <1>5, <1>6
  <2> QED BY <1>1, <2>1
<1>8. WithStatus(x, s) \in Transaction
  <2>1. [name |-> x.name, nonce |-> x.nonce, hashed |-> x.hashed, status |-> s, at |-> x.at] \in Transaction
    BY <1>5, <1>6
  <2> QED BY <1>2, <2>1
<1>9. AsAnswered(x) \in Transaction
  <2>1. [name |-> x.name, nonce |-> x.nonce, hashed |-> TRUE, status |-> "submitted", at |-> x.at] \in Transaction
    BY <1>5, <1>6
  <2> QED BY <1>3, <2>1
<1>10. AsBlocked(x, n) \in Transaction
  <2>1. [name |-> x.name, nonce |-> x.nonce, hashed |-> x.hashed, status |-> "blocked", at |-> n] \in Transaction
    BY <1>5, <1>6
  <2> QED BY <1>4, <2>1
<1> QED BY <1>1, <1>2, <1>3, <1>4, <1>7, <1>8, <1>9, <1>10

LEMMA WithNonceIs ==
  ASSUME NEW x \in Transaction, NEW n \in Nat
  PROVE  LET y == WithNonce(x, n)
         IN  /\ y \in Transaction /\ y.name = x.name /\ y.nonce = n /\ y.hashed = x.hashed
             /\ y.status = x.status /\ y.at = x.at
<1>1. "signed" \in {"created", "signed", "submitted", "blocked"} OBVIOUS
<1>2. /\ WithNonce(x, n) \in Transaction
      /\ WithNonce(x, n) = [name |-> x.name, nonce |-> n, hashed |-> x.hashed, status |-> x.status, at |-> x.at]
  BY <1>1, FieldsAre
<1> QED BY <1>2

LEMMA WithStatusIs ==
  ASSUME NEW x \in Transaction, NEW s \in {"created", "signed", "submitted", "blocked"}
  PROVE  LET y == WithStatus(x, s)
         IN  /\ y \in Transaction /\ y.name = x.name /\ y.nonce = x.nonce /\ y.hashed = x.hashed
             /\ y.status = s
<1>1. 0 \in Nat OBVIOUS
<1>2. /\ WithStatus(x, s) \in Transaction
      /\ WithStatus(x, s) = [name |-> x.name, nonce |-> x.nonce, hashed |-> x.hashed, status |-> s, at |-> x.at]
  BY <1>1, FieldsAre
<1> QED BY <1>2

LEMMA AsAnsweredIs ==
  ASSUME NEW x \in Transaction
  PROVE  LET y == AsAnswered(x)
         IN  /\ y \in Transaction /\ y.name = x.name /\ y.nonce = x.nonce /\ y.hashed = TRUE
             /\ y.status = "submitted"
<1>1. 0 \in Nat /\ "signed" \in {"created", "signed", "submitted", "blocked"} OBVIOUS
<1>2. /\ AsAnswered(x) \in Transaction
      /\ AsAnswered(x) = [name |-> x.name, nonce |-> x.nonce, hashed |-> TRUE, status |-> "submitted", at |-> x.at]
  BY <1>1, FieldsAre
<1> QED BY <1>2

LEMMA AsBlockedIs ==
  ASSUME NEW x \in Transaction, NEW i \in Nat
  PROVE  LET y == AsBlocked(x, i)
         IN  /\ y \in Transaction /\ y.name = x.name /\ y.nonce = x.nonce /\ y.hashed = x.hashed
             /\ y.status = "blocked" /\ y.at = i
<1>1. "signed" \in {"created", "signed", "submitted", "blocked"} OBVIOUS
<1>2. /\ AsBlocked(x, i) \in Transaction
      /\ AsBlocked(x, i) = [name |-> x.name, nonce |-> x.nonce, hashed |-> x.hashed, status |-> "blocked", at |-> i]
  BY <1>1, FieldsAre
<1> QED BY <1>2

LEMMA ExceptAnsweredIs ==
  ASSUME NEW ts, NEW t \in DOMAIN ts
  PROVE  [ts EXCEPT ![t].status = "submitted", ![t].hashed = TRUE] = [ts EXCEPT ![t] = AsAnswered(ts[t])]
BY DEF AsAnswered

LEMMA ExceptBlockedIs ==
  ASSUME NEW ts, NEW t \in DOMAIN ts, NEW n
  PROVE  [ts EXCEPT ![t].status = "blocked", ![t].at = n] = [ts EXCEPT ![t] = AsBlocked(ts[t], n)]
BY DEF AsBlocked

-----------------------------------------------------------------------------
(* Mined transactions and the account's.                                    *)

LEMMA DraftsAreOwn == \A n \in Drafts : Own(n)
BY NamesAssumption DEF Own

LEMMA MinedIs ==
  ASSUME NetworkOK
  PROVE  /\ Len(chain) \in Nat /\ DOMAIN chain = 1..Len(chain)
         /\ \A i \in DOMAIN chain : chain[i].name \in Names /\ chain[i].nonce \in Nonces
                                    /\ chain[i] \in Mined
<1>1. chain \in Seq(Mined) BY DEF NetworkOK
<1>2. \A i \in DOMAIN chain : chain[i] \in Mined BY <1>1, ElementIs
<1>3. \A c \in Mined : c.name \in Names /\ c.nonce \in Nonces BY DEF Mined
<1>4. Len(chain) \in Nat /\ DOMAIN chain = 1..Len(chain) BY <1>1
<1> QED BY <1>2, <1>3, <1>4

(* Where transactions are or were mined.                                    *)
LEMMA PlacesAre ==
  ASSUME NetworkOK
  PROVE  /\ \A i \in DOMAIN chain : Place(i) \in Places
         /\ \A p \in Places : /\ p.mined \in Mined /\ p.mined.name \in Names
                             /\ p.mined.nonce \in Nonces /\ p.at \in Nat
<1>1. \A i \in DOMAIN chain : Place(i) \in Places BY DEF Places
<1>2. \A c \in Mined : c.name \in Names /\ c.nonce \in Nonces BY DEF Mined
<1>3. \A i \in DOMAIN chain : Place(i).mined \in Mined /\ Place(i).at \in Nat
  <2>1. \A i \in DOMAIN chain : chain[i] \in Mined /\ i \in Nat BY MinedIs
  <2> QED BY <2>1 DEF Place
<1>4. \A f \in former : f.mined \in Mined /\ f.at \in Nat BY DEF NetworkOK
<1>5. \A p \in Places : p.mined \in Mined /\ p.at \in Nat BY <1>3, <1>4 DEF Places
<1> QED BY <1>1, <1>2, <1>5

LEMMA NoncesAreNat == Nonces \subseteq Nat /\ NoNonce \in Nat /\ 0 \in Nonces /\ MaxChain \in Nat
BY BoundsAssumption DEF Nonces

(* A blocked payment of this node has its nonce: it was submitted with it,  *)
(* or another transaction was mined with it.                                *)
LEMMA BlockedHasNonce ==
  ASSUME SubmittedAreHeld, MinedAreSubmitted, BlockedIsMined,
         NEW t \in Tids, txs[t].status = "blocked", txs[t].name \in Drafts
  PROVE  txs[t].nonce # NoNonce
<1>1. PICK p \in Places : p.at = txs[t].at /\ Settles(p.mined, txs[t]) BY DEF BlockedIsMined
<1> DEFINE c == p.mined
<1>2. /\ c.name \in Drafts => c \in submitted
      /\ Own(c.name) => c.nonce # NoNonce
  BY <1>1 DEF MinedAreSubmitted
<1>3. CASE c.name = txs[t].name
  <2>1. c \in submitted BY <1>2, <1>3
  <2>2. txs[t].nonce = c.nonce BY <1>3, <2>1 DEF SubmittedAreHeld
  <2>3. Own(c.name) BY <1>3, DraftsAreOwn
  <2> QED BY <1>2, <2>2, <2>3
<1>4. CASE Own(c.name) /\ c.nonce = txs[t].nonce BY <1>2, <1>4
<1> QED BY <1>1, <1>3, <1>4 DEF Settles

(* What changes of a transaction keeps what is known of it.                 *)
LEMMA OneChanges ==
  ASSUME UnhashedAreDrafts, SubmittedAreHeld, MinedAreSubmitted, ListedOnce, BlockedIsMined,
         UNCHANGED networkVars,
         NEW t \in Tids, NEW x, Becomes(txs, txs', t, x),
         x.name = txs[t].name, txs[t].hashed => x.hashed,
         x.nonce = txs[t].nonce \/ (txs[t].nonce = NoNonce /\ txs[t].name \in Drafts),
         x.status = "blocked" => \/ txs[t].status = "blocked" /\ x.at = txs[t].at
                                 \/ \E p \in Places : p.at = x.at /\ Settles(p.mined, x)
  PROVE  UnhashedAreDrafts' /\ SubmittedAreHeld' /\ ListedOnce' /\ BlockedIsMined'
<1>1. Tids' = Tids /\ txs'[t] = x /\ \A u \in Tids : u # t => txs'[u] = txs[u]
  BY DEF Becomes, Tids
<1>2. submitted' = submitted /\ Places' = Places BY DEF networkVars, Places, Place
<1>3. \A u \in Tids : txs'[u].name = txs[u].name BY <1>1
<1>4. UnhashedAreDrafts' BY <1>1 DEF UnhashedAreDrafts
<1>5. ListedOnce' BY <1>1, <1>3 DEF ListedOnce
<1>6. SubmittedAreHeld'
  <2>1. ASSUME NEW s \in submitted, s.name \in Drafts, NEW u \in Tids, txs[u].name = s.name
        PROVE  txs'[u].nonce = s.nonce
    <3>1. txs[u].nonce = s.nonce /\ s.nonce # NoNonce BY <2>1 DEF SubmittedAreHeld
    <3> QED BY <1>1, <3>1
  <2> QED BY <1>1, <1>2, <1>3, <2>1 DEF SubmittedAreHeld
<1>7. BlockedIsMined'
  <2>1. ASSUME NEW u \in Tids, txs'[u].status = "blocked"
        PROVE  \E p \in Places : p.at = txs'[u].at /\ Settles(p.mined, txs'[u])
    <3>1. CASE u # t BY <1>1, <2>1, <3>1 DEF BlockedIsMined
    <3>2. CASE u = t /\ \E p \in Places : p.at = x.at /\ Settles(p.mined, x) BY <1>1, <3>2
    <3>3. CASE u = t /\ txs[t].status = "blocked" /\ x.at = txs[t].at
      <4>1. x.nonce = txs[t].nonce BY <3>3, BlockedHasNonce
      <4>2. PICK p \in Places : p.at = txs[t].at /\ Settles(p.mined, txs[t]) BY <3>3 DEF BlockedIsMined
      <4>3. p.at = x.at /\ Settles(p.mined, x) BY <3>3, <4>1, <4>2 DEF Settles
      <4> QED BY <1>1, <3>3, <4>2, <4>3
    <3> QED BY <1>1, <2>1, <3>1, <3>2, <3>3
  <2> QED BY <1>1, <1>2, <2>1 DEF BlockedIsMined
<1> QED BY <1>4, <1>5, <1>6, <1>7

(* A transaction that no other bears the name of is added.                  *)
LEMMA OneAdded ==
  ASSUME UnhashedAreDrafts, SubmittedAreHeld, ListedOnce, BlockedIsMined, UNCHANGED networkVars,
         NonceOK, NoncesAssigned, NonceIsFresh, UNCHANGED nonceVars,
         NEW t, NEW x, Gains(txs, txs', t, x),
         \A u \in Tids : txs[u].name # x.name,
         x.hashed \/ x.name \in Drafts,
         x.nonce \in Nonces, x.status # "signed",
         x.name \in Drafts => x.nonce = NoNonce,
         x.status = "blocked" => \E p \in Places : p.at = x.at /\ Settles(p.mined, x)
  PROVE  /\ UnhashedAreDrafts' /\ SubmittedAreHeld' /\ ListedOnce' /\ BlockedIsMined'
         /\ NonceOK' /\ NoncesAssigned' /\ NonceIsFresh'
<1>1. /\ Tids' = Tids \union {t} /\ t \notin Tids /\ txs'[t] = x
      /\ \A u \in Tids : txs'[u] = txs[u]
  BY DEF Gains, Tids
<1>2. submitted' = submitted /\ Places' = Places BY DEF networkVars, Places, Place
<1>3. nonce' = nonce /\ signing' = signing /\ raising' = raising /\ torn' = torn BY DEF nonceVars
<1>4. UnhashedAreDrafts' BY <1>1 DEF UnhashedAreDrafts
<1>5. ListedOnce' BY <1>1 DEF ListedOnce
<1>6. SubmittedAreHeld'
  <2>1. ASSUME NEW s \in submitted, s.name \in Drafts
        PROVE  /\ s.nonce # NoNonce
               /\ \E u \in Tids' : txs'[u].name = s.name
               /\ \A u \in Tids' : txs'[u].name = s.name => txs'[u].nonce = s.nonce
    <3>1. /\ s.nonce # NoNonce
          /\ \A u \in Tids : txs[u].name = s.name => txs[u].nonce = s.nonce
      BY <2>1 DEF SubmittedAreHeld
    <3>2. PICK u \in Tids : txs[u].name = s.name BY <2>1 DEF SubmittedAreHeld
    <3>3. x.name # s.name BY <3>2
    <3> QED BY <1>1, <3>1, <3>2, <3>3
  <2> QED BY <1>2, <2>1 DEF SubmittedAreHeld
<1>7. BlockedIsMined' BY <1>1, <1>2 DEF BlockedIsMined
<1>8. NonceOK'
  <2>1. signing \in {Idle} \union [step : {"read"}, tid : Tids', nonce : Nonces \ {NoNonce}]
                           \union [step : {"sign"}, tid : Tids']
    BY <1>1 DEF NonceOK
  <2> QED BY <1>3, <2>1 DEF NonceOK
<1>9. signing.step \in {"read", "sign"} => signing.tid \in Tids BY DEF NonceOK, Idle
<1>10. NoncesAssigned' BY <1>1, <1>3, <1>9 DEF NoncesAssigned
<1>11. NonceIsFresh' BY <1>1, <1>3 DEF NonceIsFresh
<1> QED BY <1>4, <1>5, <1>6, <1>7, <1>8, <1>10, <1>11

-----------------------------------------------------------------------------
(* The list and the queue when transactions are changed or added.           *)

LEMMA AddedIsSorted ==
  ASSUME NEW ts \in Seq(Transaction), NEW us, NEW t, NEW x, Gains(ts, us, t, x),
         NEW l, Lists(l, DOMAIN ts), Len(l) = Len(ts), Ranked(l, BlockedOf(ts), PlaceOf(ts))
  PROVE  LET s == InsertSorted(l, us, t)
         IN  /\ Lists(s, DOMAIN us) /\ Len(s) = Len(us)
             /\ Ranked(s, BlockedOf(us), PlaceOf(us))
<1> DEFINE T == DOMAIN ts
           B == BlockedOf(ts)
           f == PlaceOf(ts)
           C == BlockedOf(us)
           g == PlaceOf(us)
<1>1. /\ us \in Seq(Transaction) /\ Len(us) = Len(ts) + 1 /\ t \notin T /\ DOMAIN us = T \union {t}
      /\ \A u \in T : us[u] = ts[u]
  BY DEF Gains
<1>2. \A u \in T : u \in C => u \in B /\ g[u] = f[u] BY <1>1 DEF BlockedOf, PlaceOf
<1>3. Lists(l, T) /\ Ranked(l, B, f) OBVIOUS
<1> HIDE DEF T, B, f, C, g
<1>4. \A j \in DOMAIN l : l[j] \in C => l[j] \in B /\ g[l[j]] = f[l[j]] BY <1>2, <1>3 DEF Lists
<1>5. Ranked(l, BlockedOf(us), PlaceOf(us)) BY <1>3, <1>4, RankedAgree DEF C, g
<1>6. (\A u \in T : u \in DOMAIN us) /\ t \in DOMAIN us BY <1>1
<1>7. LET s == InsertSorted(l, us, t)
      IN  /\ Lists(s, T \union {t}) /\ Len(s) = Len(l) + 1
          /\ Ranked(s, BlockedOf(us), PlaceOf(us))
  BY <1>1, <1>3, <1>5, <1>6, SortedKeeps
<1> QED BY <1>1, <1>7

LEMMA ListIsRanked ==
  ASSUME ListOK, BlockedInOrder
  PROVE  Lists(wallet, DOMAIN txs) /\ Ranked(wallet, BlockedOf(txs), PlaceOf(txs))
<1>1. Lists(wallet, DOMAIN txs) /\ txs \in Seq(Transaction) BY DEF ListOK, Tids
<1>2. \A j \in DOMAIN wallet : wallet[j] \in DOMAIN txs BY <1>1 DEF Lists
<1> DEFINE l == wallet
           ts == txs
<1>3. \A p, q \in DOMAIN l : p < q /\ ts[l[p]].status = "blocked" /\ ts[l[q]].status = "blocked"
                               => ts[l[p]].at <= ts[l[q]].at
  BY DEF BlockedInOrder
<1>4. Lists(l, DOMAIN ts) /\ ts \in Seq(Transaction) /\ \A j \in DOMAIN l : l[j] \in DOMAIN ts
  BY <1>1, <1>2
<1> HIDE DEF l, ts
<1>5. Ranked(l, BlockedOf(ts), PlaceOf(ts)) BY <1>3, <1>4, OrderIsRanked
<1> QED BY <1>1, <1>5 DEF l, ts

LEMMA RankedIsOrder ==
  ASSUME txs' \in Seq(Transaction), Lists(wallet', DOMAIN txs'), Len(wallet') = Len(txs'),
         Ranked(wallet', BlockedOf(txs'), PlaceOf(txs'))
  PROVE  ListOK' /\ BlockedInOrder'
<1>1. ListOK' BY DEF ListOK, Tids
<1>2. \A j \in DOMAIN wallet' : wallet'[j] \in DOMAIN txs' BY DEF Lists
<1> DEFINE l == wallet'
           ts == txs'
<1>3. ts \in Seq(Transaction) /\ (\A j \in DOMAIN l : l[j] \in DOMAIN ts)
      /\ Ranked(l, BlockedOf(ts), PlaceOf(ts))
  BY <1>2
<1> HIDE DEF l, ts
<1>4. \A p, q \in DOMAIN l : p < q /\ ts[l[p]].status = "blocked" /\ ts[l[q]].status = "blocked"
                               => ts[l[p]].at <= ts[l[q]].at
  BY <1>3, OrderIsRanked
<1>5. BlockedInOrder' BY <1>4 DEF BlockedInOrder, l, ts
<1> QED BY <1>1, <1>5

(* One that is not blocked by the change leaves the order as it is.         *)
LEMMA ListStays ==
  ASSUME ListOK, BlockedInOrder, wallet' = wallet,
         NEW t \in Tids, NEW x, Becomes(txs, txs', t, x),
         x.status = "blocked" => txs[t].status = "blocked" /\ x.at = txs[t].at
  PROVE  ListOK' /\ BlockedInOrder'
<1>1. /\ Tids' = Tids /\ Len(txs') = Len(txs) /\ txs' \in Seq(Transaction)
      /\ txs'[t] = x /\ \A u \in Tids : u # t => txs'[u] = txs[u]
  BY DEF Becomes, Tids
<1>2. ListOK' BY <1>1 DEF ListOK
<1>3. \A j \in DOMAIN wallet : wallet[j] \in Tids BY DEF ListOK, Lists
<1>4. \A u \in Tids : txs'[u].status = "blocked" => txs[u].status = "blocked" /\ txs'[u].at = txs[u].at
  BY <1>1
<1>5. BlockedInOrder' BY <1>3, <1>4 DEF BlockedInOrder
<1> QED BY <1>2, <1>5

Told == {"nothing", "submitted", "mined"}

LEMMA ToldGrows ==
  ASSUME QueueOK, NEW t, NEW x, Gains(txs, txs', t, x), told' = Append(told, "nothing")
  PROVE  /\ told' \in Seq(Told) /\ Len(told') = Len(txs')
         /\ tells \subseteq Tids' /\ Tids \subseteq Tids'
         /\ \A j \in DOMAIN pending : About(pending[j]) \in Tids'
<1>1. Tids' = Tids \union {t} /\ Len(txs') = Len(txs) + 1 BY DEF Gains, Tids
<1>2. told \in Seq(Told) /\ "nothing" \in Told /\ Len(told) = Len(txs) BY DEF QueueOK, Told
<1>3. Append(told, "nothing") \in Seq(Told) /\ Len(Append(told, "nothing")) = Len(told) + 1
  BY <1>2, AppendIs
<1>4. tells \subseteq Tids /\ \A j \in DOMAIN pending : About(pending[j]) \in Tids BY DEF QueueOK
<1> QED BY <1>1, <1>2, <1>3, <1>4

-----------------------------------------------------------------------------
(* The user.                                                                *)

LEMMA CreateKeeps ==
  ASSUME IInv, NEW n \in Drafts, CreateTransaction(n)
  PROVE  IInv'
<1> DEFINE t == Len(txs) + 1
           x == [name |-> n, nonce |-> NoNonce, hashed |-> FALSE, status |-> "created", at |-> 0]
<1>1. /\ \A u \in Tids : txs[u].name # n
      /\ txs' = Append(txs, x) /\ wallet' = InsertSorted(wallet, txs', t)
      /\ told' = Append(told, "nothing")
      /\ UNCHANGED <<nodeVars, nonceVars, networkVars, tells, queueVars>>
  BY DEF CreateTransaction
<1>2. /\ NodeOK /\ ListOK /\ NonceOK /\ NetworkOK /\ QueueOK
      /\ NoncesAssigned /\ UnhashedAreDrafts /\ SubmittedAreHeld /\ MinedAreSubmitted
      /\ ListedOnce /\ BlockedIsMined /\ BlockedInOrder /\ NonceIsFresh
  BY DEF IInv
<1>3. x \in Transaction /\ x.name = n /\ x.nonce = NoNonce /\ x.status = "created"
  BY NoncesAreNat DEF Transaction, Names
<1>4. txs \in Seq(Transaction) /\ Len(wallet) = Len(txs) BY <1>2 DEF ListOK
<1> HIDE DEF x
<1>5. Gains(txs, txs', t, x) BY <1>1, <1>3, <1>4, AppendGains
<1> HIDE DEF t
<1>6. /\ UnhashedAreDrafts' /\ SubmittedAreHeld' /\ ListedOnce' /\ BlockedIsMined'
      /\ NonceOK' /\ NoncesAssigned' /\ NonceIsFresh'
  <2>1. NoNonce \in Nonces BY NoncesAreNat DEF Nonces
  <2>2. \A u \in Tids : txs[u].name # x.name BY <1>1, <1>3
  <2>3. x.hashed \/ x.name \in Drafts BY <1>3
  <2>4. x.nonce \in Nonces /\ x.status # "signed" /\ x.status # "blocked" /\ x.nonce = NoNonce BY <1>3, <2>1
  <2> QED BY <1>1, <1>2, <1>5, <2>2, <2>3, <2>4, OneAdded
<1>7. ListOK' /\ BlockedInOrder'
  <2>1. Lists(wallet, DOMAIN txs) /\ Ranked(wallet, BlockedOf(txs), PlaceOf(txs))
    BY <1>2, ListIsRanked
  <2>2. /\ Lists(wallet', DOMAIN txs') /\ Len(wallet') = Len(txs')
        /\ Ranked(wallet', BlockedOf(txs'), PlaceOf(txs'))
    BY <1>1, <1>4, <1>5, <2>1, AddedIsSorted
  <2>3. txs' \in Seq(Transaction) BY <1>5 DEF Gains
  <2> QED BY <2>2, <2>3, RankedIsOrder
<1>8. QueueOK'
  <2>1. /\ told' \in Seq(Told) /\ Len(told') = Len(txs')
        /\ tells \subseteq Tids' /\ \A j \in DOMAIN pending : About(pending[j]) \in Tids'
    BY <1>1, <1>2, <1>5, ToldGrows
  <2>2. tells' = tells /\ pending' = pending /\ handler' = handler BY <1>1 DEF queueVars
  <2>3. handler \in {"check", "block", "wait"} /\ pending \in Seq(Event) BY <1>2 DEF QueueOK
  <2> QED BY <2>1, <2>2, <2>3 DEF QueueOK, Told
<1>9. NodeOK' BY <1>1, <1>2, FrameNode DEF nodeVars
<1>10. NetworkOK' /\ MinedAreSubmitted' BY <1>1, <1>2, FrameNetwork
<1> QED BY <1>6, <1>7, <1>8, <1>9, <1>10 DEF IInv

LEMMA SigningIs ==
  ASSUME NonceOK
  PROVE  /\ signing.step = "read" =>
              /\ signing = [step |-> "read", tid |-> signing.tid, nonce |-> signing.nonce]
              /\ signing.tid \in Tids /\ signing.nonce \in Nonces /\ signing.nonce # NoNonce
         /\ signing.step = "sign" => signing.tid \in Tids
BY DEF NonceOK, Idle

LEMMA SignReadsKeeps ==
  ASSUME IInv, NEW t \in Tids, SignReads(t)
  PROVE  IInv'
<1>1. /\ txs[t].name \in Drafts /\ txs[t].nonce = NoNonce /\ nonce < NoNonce
      /\ signing' = [step |-> "read", tid |-> t, nonce |-> nonce]
      /\ UNCHANGED <<nodeVars, listVars, nonce, raising, torn, networkVars, tells, queueVars, told>>
  BY DEF SignReads
<1>2. /\ NodeOK /\ ListOK /\ NonceOK /\ NetworkOK /\ QueueOK
      /\ NoncesAssigned /\ UnhashedAreDrafts /\ SubmittedAreHeld /\ MinedAreSubmitted
      /\ ListedOnce /\ BlockedIsMined /\ BlockedInOrder /\ NonceIsFresh
  BY DEF IInv
<1>3. txs' = txs /\ Tids' = Tids /\ nonce' = nonce /\ raising' = raising /\ torn' = torn
  BY <1>1 DEF listVars, Tids
<1>4. NonceOK'
  <2>1. nonce \in Nonces \ {NoNonce} BY <1>1, <1>2 DEF NonceOK, Nonces
  <2>2. signing' \in [step : {"read"}, tid : Tids', nonce : Nonces \ {NoNonce}] BY <1>1, <1>3, <2>1
  <2> QED BY <1>2, <1>3, <2>2 DEF NonceOK
<1>5. NoncesAssigned' BY <1>1, <1>2, <1>3 DEF NoncesAssigned
<1>6. NonceIsFresh' BY <1>2, <1>3 DEF NonceIsFresh
<1>7. ListOK' /\ UnhashedAreDrafts' /\ ListedOnce' /\ BlockedInOrder' BY <1>1, <1>2, FrameList
<1>8. NetworkOK' /\ MinedAreSubmitted' BY <1>1, <1>2, FrameNetwork
<1>9. SubmittedAreHeld' /\ BlockedIsMined' BY <1>1, <1>2, <1>3, FrameHeld
<1>10. QueueOK' BY <1>1, <1>2, <1>3, FrameQueue
<1>11. NodeOK' BY <1>1, <1>2, FrameNode DEF nodeVars
<1> QED BY <1>4, <1>5, <1>6, <1>7, <1>8, <1>9, <1>10, <1>11 DEF IInv

LEMMA SignWritesKeeps ==
  ASSUME IInv, SignWrites
  PROVE  IInv'
<1> DEFINE t == signing.tid
           n == signing.nonce
           x == WithNonce(txs[t], n)
<1>1. /\ signing.step = "read" /\ nonce' = n + 1 /\ torn' = (torn \/ nonce # n)
      /\ txs' = [txs EXCEPT ![t].nonce = n]
      /\ signing' = [step |-> "sign", tid |-> t]
      /\ UNCHANGED <<nodeVars, wallet, raising, networkVars, tells, queueVars, told>>
  BY DEF SignWrites
<1>2. /\ NodeOK /\ ListOK /\ NonceOK /\ NetworkOK /\ QueueOK
      /\ NoncesAssigned /\ UnhashedAreDrafts /\ SubmittedAreHeld /\ MinedAreSubmitted
      /\ ListedOnce /\ BlockedIsMined /\ BlockedInOrder /\ NonceIsFresh
  BY DEF IInv
<1>3. t \in Tids /\ n \in Nonces /\ n # NoNonce BY <1>1, <1>2, SigningIs
<1>4. txs[t].name \in Drafts /\ txs[t].nonce = NoNonce BY <1>1, <1>2 DEF NoncesAssigned
<1>5. n \in Nat /\ n + 1 \in Nonces BY <1>3, NoncesAreNat DEF Nonces
<1> HIDE DEF t, n
<1>6. txs[t] \in Transaction /\ txs \in Seq(Transaction) BY <1>2, <1>3, TransactionIs DEF ListOK, Tids
<1>7. /\ x \in Transaction /\ x.name = txs[t].name /\ x.nonce = n /\ x.hashed = txs[t].hashed
      /\ x.status = txs[t].status /\ x.at = txs[t].at
  BY <1>5, <1>6, WithNonceIs
<1>8. Becomes(txs, txs', t, x)
  <2>1. t \in DOMAIN txs BY <1>3 DEF Tids
  <2>2. txs' = [txs EXCEPT ![t] = x]
    <3>1. [txs EXCEPT ![t].nonce = n] = [txs EXCEPT ![t] = x] BY <2>1 DEF WithNonce
    <3> QED BY <1>1, <3>1
  <2> HIDE DEF x
  <2> QED BY <1>6, <1>7, <2>1, <2>2, ChangedBecomes
<1> HIDE DEF x
<1>9. UnhashedAreDrafts' /\ SubmittedAreHeld' /\ ListedOnce' /\ BlockedIsMined'
  BY <1>1, <1>2, <1>3, <1>4, <1>7, <1>8, OneChanges
<1>10. ListOK' /\ BlockedInOrder' BY <1>1, <1>2, <1>3, <1>7, <1>8, ListStays
<1>11. /\ Tids' = Tids /\ Len(txs') = Len(txs) /\ txs'[t] = x
       /\ \A u \in Tids : u # t => txs'[u] = txs[u]
  BY <1>8 DEF Becomes, Tids
<1>12. NonceOK'
  <2>1. signing' \in [step : {"sign"}, tid : Tids'] BY <1>1, <1>3, <1>11
  <2>2. torn' \in BOOLEAN BY <1>1, <1>2 DEF NonceOK
  <2>3. raising' = raising BY <1>1
  <2> QED BY <1>1, <1>2, <1>5, <2>1, <2>2, <2>3 DEF NonceOK
<1>13. NoncesAssigned' BY <1>1, <1>2, <1>3, <1>4, <1>7, <1>11 DEF NoncesAssigned
<1>14. NonceIsFresh'
  <2>1. SUFFICES ASSUME ~torn', NEW u \in Tids, txs'[u].name \in Drafts, txs'[u].nonce # NoNonce
                 PROVE  txs'[u].nonce < nonce'
    BY <1>11 DEF NonceIsFresh
  <2>2. ~torn /\ nonce = n BY <1>1, <2>1
  <2>3. CASE u = t BY <1>1, <1>5, <1>7, <1>11, <2>3
  <2>4. CASE u # t
    <3>1. txs[u].nonce < n BY <1>2, <1>11, <2>1, <2>2, <2>4 DEF NonceIsFresh
    <3>2. txs[u].nonce \in Nonces BY <1>2 DEF NoncesAssigned
    <3> QED BY <1>1, <1>5, <1>11, <2>4, <3>1, <3>2, NoncesAreNat DEF Nonces
  <2> QED BY <2>3, <2>4
<1>15. NetworkOK' /\ MinedAreSubmitted' BY <1>1, <1>2, FrameNetwork
<1>16. QueueOK' BY <1>1, <1>2, <1>11, FrameQueue
<1>17. NodeOK' BY <1>1, <1>2, FrameNode DEF nodeVars
<1> QED BY <1>9, <1>10, <1>12, <1>13, <1>14, <1>15, <1>16, <1>17 DEF IInv

LEMMA SignEndsKeeps ==
  ASSUME IInv, SignEnds
  PROVE  IInv'
<1> DEFINE t == signing.tid
           x == WithStatus(txs[t], "signed")
<1>1. /\ signing.step = "sign" /\ signing' = Idle
      /\ txs' = [txs EXCEPT ![t].status = "signed"]
      /\ UNCHANGED <<nodeVars, wallet, nonce, raising, torn, networkVars, tells, queueVars, told>>
  BY DEF SignEnds
<1>2. /\ NodeOK /\ ListOK /\ NonceOK /\ NetworkOK /\ QueueOK
      /\ NoncesAssigned /\ UnhashedAreDrafts /\ SubmittedAreHeld /\ MinedAreSubmitted
      /\ ListedOnce /\ BlockedIsMined /\ BlockedInOrder /\ NonceIsFresh
  BY DEF IInv
<1>3. t \in Tids BY <1>1, <1>2, SigningIs
<1>4. txs[t].name \in Drafts /\ txs[t].nonce # NoNonce BY <1>1, <1>2 DEF NoncesAssigned
<1> HIDE DEF t
<1>5. txs[t] \in Transaction /\ txs \in Seq(Transaction) BY <1>2, <1>3, TransactionIs DEF ListOK, Tids
<1>6. /\ x \in Transaction /\ x.name = txs[t].name /\ x.nonce = txs[t].nonce
      /\ x.hashed = txs[t].hashed /\ x.status = "signed"
  BY <1>5, WithStatusIs
<1>7. Becomes(txs, txs', t, x)
  <2>1. t \in DOMAIN txs BY <1>3 DEF Tids
  <2>2. txs' = [txs EXCEPT ![t] = x]
    <3>1. [txs EXCEPT ![t].status = "signed"] = [txs EXCEPT ![t] = x] BY <2>1 DEF WithStatus
    <3> QED BY <1>1, <3>1
  <2> HIDE DEF x
  <2> QED BY <1>5, <1>6, <2>1, <2>2, ChangedBecomes
<1> HIDE DEF x
<1>8. UnhashedAreDrafts' /\ SubmittedAreHeld' /\ ListedOnce' /\ BlockedIsMined'
  BY <1>1, <1>2, <1>3, <1>6, <1>7, OneChanges
<1>9. ListOK' /\ BlockedInOrder' BY <1>1, <1>2, <1>3, <1>6, <1>7, ListStays
<1>10. /\ Tids' = Tids /\ Len(txs') = Len(txs) /\ txs'[t] = x
       /\ \A u \in Tids : u # t => txs'[u] = txs[u]
  BY <1>7 DEF Becomes, Tids
<1>11. NonceOK'
  <2>1. raising' = raising /\ nonce' = nonce /\ torn' = torn BY <1>1
  <2>2. signing' \in {Idle} \union [step : {"read"}, tid : Tids', nonce : Nonces \ {NoNonce}]
                          \union [step : {"sign"}, tid : Tids']
    BY <1>1
  <2> QED BY <1>2, <2>1, <2>2 DEF NonceOK
<1>12. NoncesAssigned'
  <2>1. signing'.step = "idle" BY <1>1 DEF Idle
  <2>2. \A u \in Tids : txs'[u].nonce \in Nonces BY <1>2, <1>6, <1>10 DEF NoncesAssigned
  <2>3. \A u \in Tids : txs'[u].status = "signed" /\ txs'[u].name \in Drafts => txs'[u].nonce # NoNonce
    BY <1>2, <1>4, <1>6, <1>10 DEF NoncesAssigned
  <2> QED BY <1>10, <2>1, <2>2, <2>3 DEF NoncesAssigned
<1>13. NonceIsFresh' BY <1>1, <1>2, <1>6, <1>10 DEF NonceIsFresh
<1>14. NetworkOK' /\ MinedAreSubmitted' BY <1>1, <1>2, FrameNetwork
<1>15. QueueOK' BY <1>1, <1>2, <1>10, FrameQueue
<1>16. NodeOK' BY <1>1, <1>2, FrameNode DEF nodeVars
<1> QED BY <1>8, <1>9, <1>11, <1>12, <1>13, <1>14, <1>15, <1>16 DEF IInv

LEMMA SubmitKeeps ==
  ASSUME IInv, NEW t \in Tids, Submit(t)
  PROVE  IInv'
<1> DEFINE s == [name |-> txs[t].name, nonce |-> txs[t].nonce]
<1>1. /\ txs[t].name \in Drafts /\ txs[t].status = "signed" /\ submitted' = submitted \union {s}
      /\ UNCHANGED <<nodeVars, listVars, nonceVars, chain, former, tells, queueVars, told>>
  BY DEF Submit
<1>2. /\ NodeOK /\ ListOK /\ NonceOK /\ NetworkOK /\ QueueOK
      /\ NoncesAssigned /\ UnhashedAreDrafts /\ SubmittedAreHeld /\ MinedAreSubmitted
      /\ ListedOnce /\ BlockedIsMined /\ BlockedInOrder /\ NonceIsFresh
  BY DEF IInv
<1>3. txs[t].nonce \in Nonces /\ txs[t].nonce # NoNonce BY <1>1, <1>2 DEF NoncesAssigned
<1>4. s \in Mined /\ s.name = txs[t].name /\ s.nonce = txs[t].nonce
  BY <1>1, <1>3 DEF Mined, Names
<1> HIDE DEF s
<1>5. txs' = txs /\ Tids' = Tids /\ Places' = Places BY <1>1 DEF listVars, Tids, Places, Place
<1>6. NetworkOK' BY <1>1, <1>2, <1>4 DEF NetworkOK
<1>7. MinedAreSubmitted' BY <1>1, <1>2, <1>5 DEF MinedAreSubmitted
<1>8. SubmittedAreHeld'
  <2>1. \A u \in Tids : txs[u].name = s.name => txs[u].nonce = s.nonce
    BY <1>2, <1>4 DEF ListedOnce
  <2> QED BY <1>1, <1>2, <1>3, <1>4, <1>5, <2>1 DEF SubmittedAreHeld
<1>9. BlockedIsMined' BY <1>2, <1>5 DEF BlockedIsMined
<1>10. ListOK' /\ UnhashedAreDrafts' /\ ListedOnce' /\ BlockedInOrder' BY <1>1, <1>2, FrameList
<1>11. NonceOK' /\ NoncesAssigned' /\ NonceIsFresh' BY <1>1, <1>2, <1>5, FrameNonce
<1>12. QueueOK' BY <1>1, <1>2, <1>5, FrameQueue
<1>13. NodeOK' BY <1>1, <1>2, FrameNode DEF nodeVars
<1> QED BY <1>6, <1>7, <1>8, <1>9, <1>10, <1>11, <1>12, <1>13 DEF IInv

-----------------------------------------------------------------------------
(* The answers.                                                             *)

(* An answer changes no nonce of a transaction and signs none.              *)
LEMMA NoncesStay ==
  ASSUME NonceOK, NoncesAssigned, NonceIsFresh, UNCHANGED nonceVars,
         NEW t \in Tids, NEW x, Becomes(txs, txs', t, x),
         x.name = txs[t].name, x.nonce = txs[t].nonce, x.status # "signed"
  PROVE  NonceOK' /\ NoncesAssigned' /\ NonceIsFresh'
<1>1. /\ Tids' = Tids /\ txs'[t] = x /\ \A u \in Tids : u # t => txs'[u] = txs[u]
  BY DEF Becomes, Tids
<1>2. nonce' = nonce /\ signing' = signing /\ raising' = raising /\ torn' = torn BY DEF nonceVars
<1>3. NonceOK' BY <1>1, <1>2 DEF NonceOK
<1>4. \A u \in Tids : txs'[u].name = txs[u].name /\ txs'[u].nonce = txs[u].nonce BY <1>1
<1>5. \A u \in Tids : txs'[u].status = "signed" => txs[u].status = "signed" BY <1>1
<1>6. signing.step \in {"read", "sign"} => signing.tid \in Tids BY SigningIs
<1>7. NoncesAssigned' BY <1>1, <1>2, <1>4, <1>5, <1>6 DEF NoncesAssigned
<1>8. NonceIsFresh' BY <1>1, <1>2, <1>4 DEF NonceIsFresh
<1> QED BY <1>3, <1>7, <1>8

LEMMA SubmitAnsweredKeeps ==
  ASSUME IInv, NEW t \in Tids, SubmitAnswered(t)
  PROVE  IInv'
<1> DEFINE x == AsAnswered(txs[t])
<1>1. /\ txs' = [txs EXCEPT ![t].status = "submitted", ![t].hashed = TRUE]
      /\ tells' = tells \union {t}
      /\ UNCHANGED <<nodeVars, wallet, nonceVars, networkVars, queueVars, told>>
  BY DEF SubmitAnswered
<1>2. /\ NodeOK /\ ListOK /\ NonceOK /\ NetworkOK /\ QueueOK
      /\ NoncesAssigned /\ UnhashedAreDrafts /\ SubmittedAreHeld /\ MinedAreSubmitted
      /\ ListedOnce /\ BlockedIsMined /\ BlockedInOrder /\ NonceIsFresh
  BY DEF IInv
<1>3. txs[t] \in Transaction /\ txs \in Seq(Transaction) BY <1>2, TransactionIs DEF ListOK, Tids
<1>4. /\ x \in Transaction /\ x.name = txs[t].name /\ x.nonce = txs[t].nonce
      /\ x.hashed = TRUE /\ x.status = "submitted"
  BY <1>3, AsAnsweredIs
<1>5. Becomes(txs, txs', t, x)
  <2>1. t \in DOMAIN txs BY DEF Tids
  <2>2. txs' = [txs EXCEPT ![t] = x]
    <3>1. [txs EXCEPT ![t].status = "submitted", ![t].hashed = TRUE] = [txs EXCEPT ![t] = x]
      BY <2>1, Zenon, ExceptAnsweredIs
    <3> QED BY <1>1, <3>1
  <2> HIDE DEF x
  <2> QED BY <1>3, <1>4, <2>1, <2>2, ChangedBecomes
<1> HIDE DEF x
<1>6. UnhashedAreDrafts' /\ SubmittedAreHeld' /\ ListedOnce' /\ BlockedIsMined'
  BY <1>1, <1>2, <1>4, <1>5, OneChanges
<1>7. ListOK' /\ BlockedInOrder' BY <1>1, <1>2, <1>4, <1>5, ListStays
<1>8. /\ Tids' = Tids /\ Len(txs') = Len(txs) /\ txs'[t] = x
      /\ \A u \in Tids : u # t => txs'[u] = txs[u]
  BY <1>5 DEF Becomes, Tids
<1>9. NonceOK' /\ NoncesAssigned' /\ NonceIsFresh' BY <1>1, <1>2, <1>4, <1>5, NoncesStay
<1>10. NetworkOK' /\ MinedAreSubmitted' BY <1>1, <1>2, FrameNetwork
<1>11. QueueOK' BY <1>1, <1>2, <1>8 DEF QueueOK, queueVars
<1>12. NodeOK' BY <1>1, <1>2, FrameNode DEF nodeVars
<1> QED BY <1>6, <1>7, <1>9, <1>10, <1>11, <1>12 DEF IInv

LEMMA SubmitToldKeeps ==
  ASSUME IInv, NEW t \in Tids, SubmitTold(t)
  PROVE  IInv'
<1> DEFINE e == <<t, "submitted">>
<1>1. /\ tells' = tells \ {t} /\ SignalEvent(e)
      /\ UNCHANGED <<nodeVars, listVars, nonceVars, networkVars, told>>
  BY DEF SubmitTold
<1>2. /\ NodeOK /\ ListOK /\ NonceOK /\ NetworkOK /\ QueueOK
      /\ NoncesAssigned /\ UnhashedAreDrafts /\ SubmittedAreHeld /\ MinedAreSubmitted
      /\ ListedOnce /\ BlockedIsMined /\ BlockedInOrder /\ NonceIsFresh
  BY DEF IInv
<1>3. txs' = txs /\ Tids' = Tids /\ told' = told BY <1>1 DEF listVars, Tids
<1>4. e \in Event /\ About(e) \in Tids
  <2>1. t \in Nat BY <1>2, TransactionIs DEF ListOK, Tids
  <2> QED BY <2>1 DEF Event, About
<1> HIDE DEF e
<1>5. QueueOK'
  <2>1. /\ pending \in Seq(Event) /\ handler \in {"check", "block", "wait"}
        /\ \A j \in DOMAIN pending : About(pending[j]) \in Tids
    BY <1>2 DEF QueueOK
  <2>2. /\ pending' \in Seq(Event) /\ handler' \in {"check", "block", "wait"}
        /\ \A j \in DOMAIN pending' : About(pending'[j]) \in Tids
    BY <1>1, <1>4, <2>1, SignalKeeps
  <2>3. tells' \subseteq Tids BY <1>1, <1>2 DEF QueueOK
  <2> QED BY <1>2, <1>3, <2>2, <2>3 DEF QueueOK
<1>6. ListOK' /\ UnhashedAreDrafts' /\ ListedOnce' /\ BlockedInOrder' BY <1>1, <1>2, FrameList
<1>7. NonceOK' /\ NoncesAssigned' /\ NonceIsFresh' BY <1>1, <1>2, <1>3, FrameNonce
<1>8. NetworkOK' /\ MinedAreSubmitted' BY <1>1, <1>2, FrameNetwork
<1>9. SubmittedAreHeld' /\ BlockedIsMined' BY <1>1, <1>2, <1>3, FrameHeld
<1>10. NodeOK' BY <1>1, <1>2, FrameNode DEF nodeVars
<1> QED BY <1>5, <1>6, <1>7, <1>8, <1>9, <1>10 DEF IInv

LEMMA OwnMinedIs ==
  ASSUME NetworkOK
  PROVE  OwnMined \in 0..Len(chain)
<1> DEFINE S == {i \in DOMAIN chain : Own(chain[i].name)}
<1>1. DOMAIN chain = 1..Len(chain) /\ Len(chain) \in Nat BY MinedIs
<1>2. IsFiniteSet(DOMAIN chain) /\ Cardinality(DOMAIN chain) = Len(chain)
  <2>1. 1 \in Int /\ Len(chain) \in Int BY <1>1
  <2>2. IsFiniteSet(1..Len(chain)) /\ Cardinality(1..Len(chain)) = IF 1 > Len(chain) THEN 0 ELSE Len(chain) - 1 + 1
    BY <2>1, FS_Interval
  <2> QED BY <1>1, <2>2
<1>3. S \subseteq DOMAIN chain OBVIOUS
<1>4. OwnMined = Cardinality(S) BY DEF OwnMined
<1> HIDE DEF S
<1>5. IsFiniteSet(S) /\ Cardinality(S) <= Len(chain) BY <1>2, <1>3, FS_Subset
<1>6. Cardinality(S) \in Nat BY <1>5, FS_CardinalityType
<1> QED BY <1>1, <1>4, <1>5, <1>6

LEMMA AnnounceNonceKeeps ==
  ASSUME IInv, NEW n \in Counts, AnnounceNonce(n)
  PROVE  IInv'
<1>1. /\ raising' = IF NonceRises(n) THEN [step |-> "set", nonce |-> n, seen |-> nonce] ELSE Idle
      /\ UNCHANGED <<nodeVars, listVars, nonce, signing, torn, networkVars, tells, queueVars, told>>
  BY DEF AnnounceNonce
<1>2. /\ NodeOK /\ ListOK /\ NonceOK /\ NetworkOK /\ QueueOK
      /\ NoncesAssigned /\ UnhashedAreDrafts /\ SubmittedAreHeld /\ MinedAreSubmitted
      /\ ListedOnce /\ BlockedIsMined /\ BlockedInOrder /\ NonceIsFresh
  BY DEF IInv
<1>3. /\ txs' = txs /\ Tids' = Tids /\ nonce' = nonce /\ signing' = signing /\ torn' = torn
  BY <1>1 DEF listVars, Tids
<1>4. n \in Nonces
  <2>1. CASE n = 0 BY <2>1, NoncesAreNat
  <2>2. CASE n # 0
    <3>1. PICK p \in Places : Own(p.mined.name) /\ n = p.mined.nonce + 1 BY <2>2 DEF Counts
    <3>2. p.mined.nonce \in Nonces /\ p.mined.nonce # NoNonce
      BY <1>2, <3>1, PlacesAre DEF MinedAreSubmitted
    <3> QED BY <3>1, <3>2, NoncesAreNat DEF Nonces
  <2> QED BY <2>1, <2>2
<1>5. NonceOK'
  <2>1. nonce \in Nonces BY <1>2 DEF NonceOK
  <2>2. CASE NonceRises(n)
    <3>1. raising' = [step |-> "set", nonce |-> n, seen |-> nonce] /\ nonce < n
      BY <1>1, <2>1, <2>2, NoncesAreNat DEF NonceRises, Nonces
    <3>2. raising' \in [step : {"set"}, nonce : Nonces, seen : Nonces] BY <1>4, <2>1, <3>1
    <3>3. raising'.seen < raising'.nonce BY <3>1
    <3> QED BY <1>2, <1>3, <3>2, <3>3 DEF NonceOK
  <2>3. CASE ~NonceRises(n)
    <3>1. raising' = Idle BY <1>1, <2>3
    <3>2. raising'.step # "set" BY <3>1 DEF Idle
    <3> QED BY <1>2, <1>3, <3>1, <3>2 DEF NonceOK
  <2> QED BY <2>2, <2>3
<1>6. NoncesAssigned' BY <1>2, <1>3 DEF NoncesAssigned
<1>7. NonceIsFresh' BY <1>2, <1>3 DEF NonceIsFresh
<1>8. ListOK' /\ UnhashedAreDrafts' /\ ListedOnce' /\ BlockedInOrder' BY <1>1, <1>2, FrameList
<1>9. NetworkOK' /\ MinedAreSubmitted' BY <1>1, <1>2, FrameNetwork
<1>10. SubmittedAreHeld' /\ BlockedIsMined' BY <1>1, <1>2, <1>3, FrameHeld
<1>11. QueueOK' BY <1>1, <1>2, <1>3, FrameQueue
<1>12. NodeOK' BY <1>1, <1>2, FrameNode DEF nodeVars
<1> QED BY <1>5, <1>6, <1>7, <1>8, <1>9, <1>10, <1>11, <1>12 DEF IInv

LEMMA SetNonceKeeps ==
  ASSUME IInv, SetNonce
  PROVE  IInv'
<1>1. /\ raising.step = "set" /\ nonce' = raising.nonce /\ torn' = (torn \/ nonce # raising.seen)
      /\ raising' = Idle
      /\ UNCHANGED <<nodeVars, listVars, signing, networkVars, tells, queueVars, told>>
  BY DEF SetNonce
<1>2. /\ NodeOK /\ ListOK /\ NonceOK /\ NetworkOK /\ QueueOK
      /\ NoncesAssigned /\ UnhashedAreDrafts /\ SubmittedAreHeld /\ MinedAreSubmitted
      /\ ListedOnce /\ BlockedIsMined /\ BlockedInOrder /\ NonceIsFresh
  BY DEF IInv
<1>3. txs' = txs /\ Tids' = Tids /\ signing' = signing BY <1>1 DEF listVars, Tids
<1>4. raising.nonce \in Nonces /\ raising.seen \in Nonces /\ raising.seen < raising.nonce
  BY <1>1, <1>2 DEF NonceOK, Idle
<1>5. NonceOK'
  <2>1. raising'.step # "set" BY <1>1 DEF Idle
  <2>2. torn' \in BOOLEAN BY <1>1, <1>2 DEF NonceOK
  <2>3. nonce' \in Nonces BY <1>1, <1>4
  <2> QED BY <1>1, <1>2, <1>3, <2>1, <2>2, <2>3 DEF NonceOK
<1>6. NoncesAssigned' BY <1>2, <1>3 DEF NoncesAssigned
<1>7. NonceIsFresh'
  <2>1. SUFFICES ASSUME ~torn', NEW u \in Tids, txs[u].name \in Drafts, txs[u].nonce # NoNonce
                 PROVE  txs[u].nonce < nonce'
    BY <1>3 DEF NonceIsFresh
  <2>2. ~torn /\ nonce = raising.seen BY <1>1, <2>1
  <2>3. txs[u].nonce < nonce BY <1>2, <2>1, <2>2 DEF NonceIsFresh
  <2>4. txs[u].nonce \in Nonces BY <1>2 DEF NoncesAssigned
  <2>5. nonce' = raising.nonce BY <1>1
  <2> QED BY <1>4, <2>2, <2>3, <2>4, <2>5, NoncesAreNat DEF Nonces
<1>8. ListOK' /\ UnhashedAreDrafts' /\ ListedOnce' /\ BlockedInOrder' BY <1>1, <1>2, FrameList
<1>9. NetworkOK' /\ MinedAreSubmitted' BY <1>1, <1>2, FrameNetwork
<1>10. SubmittedAreHeld' /\ BlockedIsMined' BY <1>1, <1>2, <1>3, FrameHeld
<1>11. QueueOK' BY <1>1, <1>2, <1>3, FrameQueue
<1>12. NodeOK' BY <1>1, <1>2, FrameNode DEF nodeVars
<1> QED BY <1>5, <1>6, <1>7, <1>8, <1>9, <1>10, <1>11, <1>12 DEF IInv

(* What the lookups find is in the list, and what they do not find is not.  *)
LEMMA FirstIs ==
  ASSUME ListOK, NEW T
  PROVE  \/ First(T) = Unknown /\ \A t \in Tids : t \notin T
         \/ First(T) # Unknown /\ First(T) \in Tids /\ First(T) \in T
<1> DEFINE places == {j \in DOMAIN wallet : wallet[j] \in T}
<1>1. /\ wallet \in Seq(Nat) /\ \A j \in DOMAIN wallet : wallet[j] \in Tids
      /\ \A t \in Tids : \E j \in DOMAIN wallet : wallet[j] = t
  BY DEF ListOK, Lists
<1>2. First(T) = IF places = {} THEN Unknown ELSE wallet[Min(places)] BY DEF First
<1>3. Unknown \notin Tids
  <2>1. txs \in Seq(Transaction) BY DEF ListOK
  <2> QED BY <2>1 DEF Unknown, Tids
<1>4. CASE places = {} BY <1>1, <1>2, <1>4
<1>5. CASE places # {}
  <2>1. places \in SUBSET Nat BY <1>1
  <2> HIDE DEF places
  <2>2. Min(places) \in places BY <1>5, <2>1, MinIs
  <2> QED BY <1>1, <1>2, <1>3, <1>5, <2>2 DEF places
<1> QED BY <1>4, <1>5

LEMMA LookupFinds ==
  ASSUME ListOK, NEW c, Lookup(c) # Unknown
  PROVE  Lookup(c) \in Tids /\ Settles(c, txs[Lookup(c)])
<1> DEFINE H == {t \in Tids : txs[t].hashed /\ txs[t].name = c.name}
           N == {t \in Tids : Own(txs[t].name) /\ txs[t].nonce = c.nonce}
<1>1. ByHash(c) = First(H) /\ ByNonce(c) = First(N) BY DEF ByHash, ByNonce
<1>2. /\ First(H) # Unknown => First(H) \in H
      /\ First(N) # Unknown => First(N) \in N
  <2> HIDE DEF H, N
  <2> QED BY FirstIs
<1>3. CASE First(H) = Unknown
  <2>1. Own(c.name) /\ Lookup(c) = First(N) /\ First(N) # Unknown BY <1>1, <1>3 DEF Lookup
  <2> QED BY <1>2, <2>1 DEF Settles
<1>4. CASE First(H) # Unknown
  <2>1. Lookup(c) = First(H) BY <1>1, <1>4 DEF Lookup
  <2> QED BY <1>2, <1>4, <2>1 DEF Settles
<1> QED BY <1>3, <1>4

(* What is not found is new to the list, also when the answer to its        *)
(* submission, and with it its hash, never came.                            *)
LEMMA LookupMisses ==
  ASSUME ListOK, UnhashedAreDrafts, SubmittedAreHeld, MinedAreSubmitted,
         NEW p \in Places, Lookup(p.mined) = Unknown
  PROVE  /\ \A t \in Tids : txs[t].name # p.mined.name
         /\ p.mined.name \notin Drafts
<1> DEFINE c == p.mined
           H == {t \in Tids : txs[t].hashed /\ txs[t].name = c.name}
           N == {t \in Tids : Own(txs[t].name) /\ txs[t].nonce = c.nonce}
<1>1. ByHash(c) = First(H) /\ ByNonce(c) = First(N) BY DEF ByHash, ByNonce
<1>2. First(H) = Unknown /\ (Own(c.name) => First(N) = Unknown)
  BY <1>1 DEF Lookup
<1>3. \A t \in Tids : t \notin H /\ (Own(c.name) => t \notin N)
  <2> HIDE DEF H, N
  <2> QED BY <1>2, FirstIs
<1>4. \A t \in Tids : txs[t].name = c.name => txs[t].name \in Drafts BY <1>3 DEF UnhashedAreDrafts
<1>5. c.name \notin Drafts
  <2>1. SUFFICES ASSUME c.name \in Drafts PROVE FALSE
    OBVIOUS
  <2>2. Own(c.name) BY <2>1, DraftsAreOwn
  <2>3. c \in submitted BY <2>1 DEF MinedAreSubmitted
  <2>4. PICK t \in Tids : txs[t].name = c.name BY <2>1, <2>3 DEF SubmittedAreHeld
  <2>5. txs[t].nonce = c.nonce BY <2>1, <2>3, <2>4 DEF SubmittedAreHeld
  <2> QED BY <1>3, <2>2, <2>4, <2>5
<1> QED BY <1>4, <1>5

(* walletTransactionBlocked.                                                *)
LEMMA UpdateSortedKeeps ==
  ASSUME NEW ts \in Seq(Transaction), NEW us, NEW t \in DOMAIN ts, NEW x, Becomes(ts, us, t, x),
         NEW l, Lists(l, DOMAIN ts), Len(l) = Len(ts), Ranked(l, BlockedOf(ts), PlaceOf(ts)),
         UpdateSorted(l, us, t)
  PROVE  /\ Lists(wallet', DOMAIN us) /\ Len(wallet') = Len(us)
         /\ Ranked(wallet', BlockedOf(us), PlaceOf(us))
<1>1. PICK j \in DOMAIN l : l[j] = t /\ wallet' = InsertSorted(Removed(l, j), us, t)
  BY DEF UpdateSorted
<1>2. /\ us \in Seq(Transaction) /\ DOMAIN us = DOMAIN ts /\ Len(us) = Len(ts)
      /\ \A u \in DOMAIN ts : u # t => us[u] = ts[u]
  BY DEF Becomes
<1>3. LET s == InsertSorted(Removed(l, j), us, t)
      IN  Lists(s, DOMAIN ts) /\ Len(s) = Len(l) /\ Ranked(s, BlockedOf(us), PlaceOf(us))
  BY <1>1, <1>2, UpdateKeeps
<1> QED BY <1>1, <1>2, <1>3

LEMMA KnownIsAnnounced ==
  ASSUME IInv, NEW p \in Places, AnnounceTransaction(p), Lookup(p.mined) # Unknown
  PROVE  IInv'
<1> DEFINE t == Lookup(p.mined)
           x == AsBlocked(txs[t], p.at)
           e == <<t, "mined">>
<1>1. /\ Blocked(txs, wallet, t, p.at) /\ told' = told /\ SignalEvent(e)
      /\ UNCHANGED <<nodeVars, nonceVars, networkVars, tells>>
  BY DEF AnnounceTransaction
<1>2. /\ NodeOK /\ ListOK /\ NonceOK /\ NetworkOK /\ QueueOK
      /\ NoncesAssigned /\ UnhashedAreDrafts /\ SubmittedAreHeld /\ MinedAreSubmitted
      /\ ListedOnce /\ BlockedIsMined /\ BlockedInOrder /\ NonceIsFresh
  BY DEF IInv
<1>3. t \in Tids /\ Settles(p.mined, txs[t]) BY <1>2, LookupFinds
<1> HIDE DEF t
<1>4. txs[t] \in Transaction /\ txs \in Seq(Transaction) /\ t \in Nat /\ p.at \in Nat
  BY <1>2, <1>3, TransactionIs, PlacesAre DEF ListOK, Tids
<1>5. NodeOK' /\ NetworkOK' /\ MinedAreSubmitted' BY <1>1, <1>2, FrameNode, FrameNetwork DEF nodeVars
<1>6. /\ pending' \in Seq(Event) /\ handler' \in {"check", "block", "wait"}
      /\ \A j \in DOMAIN pending' : About(pending'[j]) \in Tids
  <2>1. e \in Event /\ About(e) \in Tids BY <1>3, <1>4 DEF Event, About
  <2>2. /\ pending \in Seq(Event) /\ handler \in {"check", "block", "wait"}
        /\ \A j \in DOMAIN pending : About(pending[j]) \in Tids
    BY <1>2 DEF QueueOK
  <2> HIDE DEF e
  <2> QED BY <1>1, <2>1, <2>2, SignalKeeps
<1>7. tells' = tells /\ told' = told BY <1>1
<1>8. CASE txs[t].status = "blocked"
  <2>1. txs' = txs /\ wallet' = wallet /\ Tids' = Tids BY <1>1, <1>8 DEF Blocked, Tids
  <2>2. UNCHANGED listVars BY <2>1 DEF listVars
  <2>3. ListOK' /\ UnhashedAreDrafts' /\ ListedOnce' /\ BlockedInOrder' BY <1>2, <2>2, FrameList
  <2>4. NonceOK' /\ NoncesAssigned' /\ NonceIsFresh' BY <1>1, <1>2, <2>1, FrameNonce
  <2>5. SubmittedAreHeld' /\ BlockedIsMined' BY <1>1, <1>2, <2>1, FrameHeld
  <2>6. QueueOK' BY <1>2, <1>6, <1>7, <2>1 DEF QueueOK
  <2> QED BY <1>5, <2>3, <2>4, <2>5, <2>6 DEF IInv
<1>9. CASE txs[t].status # "blocked"
  <2>1. /\ txs' = [txs EXCEPT ![t].status = "blocked", ![t].at = p.at]
        /\ UpdateSorted(wallet, txs', t)
    BY <1>1, <1>9 DEF Blocked
  <2>2. /\ x \in Transaction /\ x.name = txs[t].name /\ x.nonce = txs[t].nonce
        /\ x.hashed = txs[t].hashed /\ x.status = "blocked" /\ x.at = p.at
    BY <1>4, AsBlockedIs
  <2>3. Becomes(txs, txs', t, x)
    <3>1. t \in DOMAIN txs BY <1>3 DEF Tids
    <3>2. txs' = [txs EXCEPT ![t] = x]
      <4>1. [txs EXCEPT ![t].status = "blocked", ![t].at = p.at] = [txs EXCEPT ![t] = x]
        BY <3>1, Zenon, ExceptBlockedIs
      <4> QED BY <2>1, <4>1
    <3> HIDE DEF x
    <3> QED BY <1>4, <2>2, <3>1, <3>2, ChangedBecomes
  <2> HIDE DEF x
  <2>4. p.at = x.at /\ Settles(p.mined, x) BY <1>3, <2>2 DEF Settles
  <2>5. UnhashedAreDrafts' /\ SubmittedAreHeld' /\ ListedOnce' /\ BlockedIsMined'
    BY <1>1, <1>2, <1>3, <2>2, <2>3, <2>4, OneChanges
  <2>6. ListOK' /\ BlockedInOrder'
    <3>1. Lists(wallet, DOMAIN txs) /\ Ranked(wallet, BlockedOf(txs), PlaceOf(txs))
      BY <1>2, ListIsRanked
    <3>2. t \in DOMAIN txs /\ Len(wallet) = Len(txs) BY <1>2, <1>3 DEF Tids, ListOK
    <3>3. /\ Lists(wallet', DOMAIN txs') /\ Len(wallet') = Len(txs')
          /\ Ranked(wallet', BlockedOf(txs'), PlaceOf(txs'))
      BY <1>4, <2>1, <2>3, <3>1, <3>2, UpdateSortedKeeps
    <3>4. txs' \in Seq(Transaction) BY <2>3 DEF Becomes
    <3> QED BY <3>3, <3>4, RankedIsOrder
  <2>7. NonceOK' /\ NoncesAssigned' /\ NonceIsFresh' BY <1>1, <1>2, <1>3, <2>2, <2>3, NoncesStay
  <2>8. Tids' = Tids /\ Len(txs') = Len(txs) BY <2>3 DEF Becomes, Tids
  <2>9. QueueOK' BY <1>2, <1>6, <1>7, <2>8 DEF QueueOK
  <2> QED BY <1>5, <2>5, <2>6, <2>7, <2>9 DEF IInv
<1> QED BY <1>8, <1>9

LEMMA NewIsAnnounced ==
  ASSUME IInv, NEW p \in Places, AnnounceTransaction(p), Lookup(p.mined) = Unknown
  PROVE  IInv'
<1> DEFINE t == Len(txs) + 1
           new == [name |-> p.mined.name, nonce |-> p.mined.nonce, hashed |-> TRUE,
                   status |-> "submitted", at |-> 0]
           all == Append(txs, new)
           list == InsertSorted(wallet, all, t)
           x == AsBlocked(new, p.at)
           e == <<t, "mined">>
<1>1. /\ Blocked(all, list, t, p.at) /\ told' = Append(told, "nothing") /\ SignalEvent(e)
      /\ UNCHANGED <<nodeVars, nonceVars, networkVars, tells>>
  BY DEF AnnounceTransaction
<1>2. /\ NodeOK /\ ListOK /\ NonceOK /\ NetworkOK /\ QueueOK
      /\ NoncesAssigned /\ UnhashedAreDrafts /\ SubmittedAreHeld /\ MinedAreSubmitted
      /\ ListedOnce /\ BlockedIsMined /\ BlockedInOrder /\ NonceIsFresh
  BY DEF IInv
<1>3. txs \in Seq(Transaction) /\ Len(wallet) = Len(txs) /\ p.at \in Nat
  BY <1>2, PlacesAre DEF ListOK
<1>4. p.mined.name \in Names /\ p.mined.nonce \in Nonces BY <1>2, PlacesAre
<1>5. new \in Transaction BY <1>4, NoncesAreNat DEF Transaction
<1>6. /\ x \in Transaction /\ x.name = p.mined.name /\ x.nonce = p.mined.nonce /\ x.hashed = TRUE
      /\ x.status = "blocked" /\ x.at = p.at
  <2>1. /\ new.name = p.mined.name /\ new.nonce = p.mined.nonce /\ new.hashed = TRUE OBVIOUS
  <2> HIDE DEF new
  <2> QED BY <1>3, <1>5, <2>1, AsBlockedIs
<1>7. Gains(txs, all, t, new)
  <2> HIDE DEF new
  <2> QED BY <1>3, <1>5, AppendGains
<1>8. all \in Seq(Transaction) /\ t \in DOMAIN all /\ all[t] = new /\ new.status = "submitted"
  <2>1. new.status = "submitted" OBVIOUS
  <2> HIDE DEF new, all, t
  <2> QED BY <1>7, <2>1 DEF Gains
<1> HIDE DEF new, all, t, list
<1>9. /\ txs' = [all EXCEPT ![t].status = "blocked", ![t].at = p.at]
      /\ UpdateSorted(list, txs', t)
  BY <1>1, <1>8 DEF Blocked
<1>10. Becomes(all, txs', t, x)
  <2>1. x = AsBlocked(all[t], p.at) BY <1>8
  <2> HIDE DEF x
  <2>2. txs' = [all EXCEPT ![t] = x]
    <3>1. [all EXCEPT ![t].status = "blocked", ![t].at = p.at] = [all EXCEPT ![t] = AsBlocked(all[t], p.at)]
      BY <1>8, Zenon, ExceptBlockedIs
    <3> QED BY <1>9, <2>1, <3>1
  <2> QED BY <1>6, <1>8, <2>2, ChangedBecomes
<1> HIDE DEF x
<1>11. Gains(txs, txs', t, x) BY <1>7, <1>10, GainedBecomes
<1>12. /\ UnhashedAreDrafts' /\ SubmittedAreHeld' /\ ListedOnce' /\ BlockedIsMined'
       /\ NonceOK' /\ NoncesAssigned' /\ NonceIsFresh'
  <2>1. (\A u \in Tids : txs[u].name # x.name) /\ x.name \notin Drafts BY <1>2, <1>6, LookupMisses
  <2>2. p.at = x.at /\ Settles(p.mined, x) BY <1>6 DEF Settles
  <2>3. x.nonce \in Nonces /\ x.status # "signed" BY <1>4, <1>6
  <2> QED BY <1>1, <1>2, <1>6, <1>11, <2>1, <2>2, <2>3, OneAdded
<1>13. ListOK' /\ BlockedInOrder'
  <2>1. Lists(wallet, DOMAIN txs) /\ Ranked(wallet, BlockedOf(txs), PlaceOf(txs))
    BY <1>2, ListIsRanked
  <2>2. /\ Lists(list, DOMAIN all) /\ Len(list) = Len(all)
        /\ Ranked(list, BlockedOf(all), PlaceOf(all))
    BY <1>3, <1>7, <2>1, AddedIsSorted DEF list
  <2>3. /\ Lists(wallet', DOMAIN txs') /\ Len(wallet') = Len(txs')
        /\ Ranked(wallet', BlockedOf(txs'), PlaceOf(txs'))
    BY <1>8, <1>9, <1>10, <2>2, UpdateSortedKeeps
  <2>4. txs' \in Seq(Transaction) BY <1>11 DEF Gains
  <2> QED BY <2>3, <2>4, RankedIsOrder
<1>14. QueueOK'
  <2>1. /\ told' \in Seq(Told) /\ Len(told') = Len(txs') /\ tells \subseteq Tids'
        /\ \A j \in DOMAIN pending : About(pending[j]) \in Tids'
    BY <1>1, <1>2, <1>11, ToldGrows
  <2>2. pending \in Seq(Event) /\ handler \in {"check", "block", "wait"} BY <1>2 DEF QueueOK
  <2>3. e \in Event /\ About(e) \in Tids'
    <3>1. t \in Nat BY <1>3 DEF t
    <3>2. t \in Tids' BY <1>11 DEF Gains, Tids
    <3> QED BY <3>1, <3>2 DEF Event, About
  <2> HIDE DEF e
  <2> DEFINE T == Tids'
  <2>4. About(e) \in T /\ \A j \in DOMAIN pending : About(pending[j]) \in T BY <2>1, <2>3
  <2> HIDE DEF T
  <2>5. /\ pending' \in Seq(Event) /\ handler' \in {"check", "block", "wait"}
        /\ \A j \in DOMAIN pending' : About(pending'[j]) \in T
    BY <1>1, <2>2, <2>3, <2>4, SignalKeeps
  <2>6. tells' = tells BY <1>1
  <2> QED BY <2>1, <2>5, <2>6 DEF QueueOK, Told, T
<1>15. NodeOK' /\ NetworkOK' /\ MinedAreSubmitted' BY <1>1, <1>2, FrameNode, FrameNetwork DEF nodeVars
<1> QED BY <1>12, <1>13, <1>14, <1>15 DEF IInv

-----------------------------------------------------------------------------
(* The node's thread, the handler's and the network.                        *)

LEMMA NodeStepKeeps ==
  ASSUME IInv, Connect \/ Disconnect \/ ThreadStep
  PROVE  IInv'
<1>1. /\ NodeOK /\ ListOK /\ NonceOK /\ NetworkOK /\ QueueOK
      /\ NoncesAssigned /\ UnhashedAreDrafts /\ SubmittedAreHeld /\ MinedAreSubmitted
      /\ ListedOnce /\ BlockedIsMined /\ BlockedInOrder /\ NonceIsFresh
  BY DEF IInv
<1>2. UNCHANGED <<listVars, nonceVars, networkVars, tells, queueVars, told>>
  BY DEF Connect, Disconnect, ThreadStep, Begin, Poll, ThreadEnds
<1>3. NodeOK' BY <1>1 DEF NodeOK, Connect, Disconnect, ThreadStep, Begin, Poll, ThreadEnds
<1>4. txs' = txs /\ Tids' = Tids BY <1>2 DEF listVars, Tids
<1>5. ListOK' /\ UnhashedAreDrafts' /\ ListedOnce' /\ BlockedInOrder' BY <1>1, <1>2, FrameList
<1>6. NonceOK' /\ NoncesAssigned' /\ NonceIsFresh' BY <1>1, <1>2, <1>4, FrameNonce
<1>7. NetworkOK' /\ MinedAreSubmitted' BY <1>1, <1>2, FrameNetwork
<1>8. SubmittedAreHeld' /\ BlockedIsMined' BY <1>1, <1>2, <1>4, FrameHeld
<1>9. QueueOK' BY <1>1, <1>2, <1>4, FrameQueue
<1> QED BY <1>3, <1>5, <1>6, <1>7, <1>8, <1>9 DEF IInv

LEMMA TakeKeeps ==
  ASSUME QueueOK, Dispatch
  PROVE  /\ pending' \in Seq(Event) /\ \A j \in DOMAIN pending' : About(pending'[j]) \in Tids
         /\ handler' = handler /\ told' \in Seq(Told) /\ Len(told') = Len(told)
<1> DEFINE e == Head(pending)
<1>1. /\ pending # <<>> /\ pending' = Tail(pending) /\ handler' = handler
      /\ told' = [told EXCEPT ![About(e)] = e[2]]
  BY DEF Dispatch, Take
<1>2. /\ pending \in Seq(Event) /\ told \in Seq(Told)
      /\ \A j \in DOMAIN pending : About(pending[j]) \in Tids
  BY DEF QueueOK, Told
<1>3. \A j \in DOMAIN pending : pending[j] \in Event BY <1>2
<1>4. /\ pending' \in Seq(Event)
      /\ \A j \in DOMAIN pending' : j + 1 \in DOMAIN pending /\ pending'[j] = pending[j + 1]
  BY <1>1, <1>2
<1>5. \A j \in DOMAIN pending' : About(pending'[j]) \in Tids BY <1>2, <1>4
<1>6. e \in Event
  <2>1. 1 \in DOMAIN pending /\ e = pending[1] BY <1>1, <1>2
  <2> QED BY <1>3, <2>1
<1>7. e[2] \in Told BY <1>6, EventIs DEF Told
<1> HIDE DEF e
<1>8. told' \in Seq(Told) /\ Len(told') = Len(told)
  <2> DEFINE k == About(e)
             v == e[2]
  <2>1. told' = [told EXCEPT ![k] = v] /\ v \in Told BY <1>1, <1>7
  <2> HIDE DEF k, v
  <2>2. DOMAIN told' = DOMAIN told /\ \A j \in DOMAIN told' : told'[j] \in Told
    BY <1>2, <2>1
  <2>3. DOMAIN told = 1..Len(told) /\ Len(told) \in Nat BY <1>2
  <2>4. told' = [j \in 1..Len(told) |-> told'[j]] BY <2>1, <2>3
  <2> QED BY <2>2, <2>3, <2>4
<1> QED BY <1>1, <1>4, <1>5, <1>8

LEMMA HandlerKeeps ==
  ASSUME IInv, HandlerStep \/ HandlerWakes
  PROVE  IInv'
<1>1. /\ NodeOK /\ ListOK /\ NonceOK /\ NetworkOK /\ QueueOK
      /\ NoncesAssigned /\ UnhashedAreDrafts /\ SubmittedAreHeld /\ MinedAreSubmitted
      /\ ListedOnce /\ BlockedIsMined /\ BlockedInOrder /\ NonceIsFresh
  BY DEF IInv
<1>2. UNCHANGED <<nodeVars, listVars, nonceVars, networkVars, tells>>
  BY DEF HandlerStep, HandlerWakes
<1>3. txs' = txs /\ Tids' = Tids /\ tells' = tells BY <1>2 DEF listVars, Tids
<1>4. QueueOK'
  <2>1. CASE Dispatch
    <3>1. /\ pending' \in Seq(Event) /\ \A j \in DOMAIN pending' : About(pending'[j]) \in Tids
          /\ handler' = handler /\ told' \in Seq(Told) /\ Len(told') = Len(told)
      BY <1>1, <2>1, TakeKeeps
    <3> QED BY <1>1, <1>3, <3>1 DEF QueueOK, Told
  <2>2. CASE ~Dispatch
    <3>1. told' = told /\ pending' = pending /\ handler' \in {"check", "block", "wait"}
      BY <2>2 DEF HandlerStep, HandlerWakes, FindNone, Block, WakeSpuriously
    <3> QED BY <1>1, <1>3, <3>1 DEF QueueOK
  <2> QED BY <2>1, <2>2
<1>5. ListOK' /\ UnhashedAreDrafts' /\ ListedOnce' /\ BlockedInOrder' BY <1>1, <1>2, FrameList
<1>6. NonceOK' /\ NoncesAssigned' /\ NonceIsFresh' BY <1>1, <1>2, <1>3, FrameNonce
<1>7. NetworkOK' /\ MinedAreSubmitted' BY <1>1, <1>2, FrameNetwork
<1>8. SubmittedAreHeld' /\ BlockedIsMined' BY <1>1, <1>2, <1>3, FrameHeld
<1>9. NodeOK' BY <1>1, <1>2, FrameNode DEF nodeVars
<1> QED BY <1>4, <1>5, <1>6, <1>7, <1>8, <1>9 DEF IInv

LEMMA MineKeeps ==
  ASSUME IInv, Mine
  PROVE  IInv'
<1>1. PICK c \in submitted \union [name : Others, nonce : {OwnMined}] \union [name : Incoming, nonce : {0}] :
        (Own(c.name) => c.nonce = OwnMined) /\ chain' = Append(chain, c)
  BY DEF Mine
<1>2. /\ NodeOK /\ ListOK /\ NonceOK /\ NetworkOK /\ QueueOK
      /\ NoncesAssigned /\ UnhashedAreDrafts /\ SubmittedAreHeld /\ MinedAreSubmitted
      /\ ListedOnce /\ BlockedIsMined /\ BlockedInOrder /\ NonceIsFresh
  BY DEF IInv
<1>3. /\ Len(chain) < MaxChain /\ submitted' = submitted
      /\ UNCHANGED <<nodeVars, listVars, nonceVars, submitted, former, tells, queueVars, told>>
  BY DEF Mine
<1>4. OwnMined \in Nonces /\ OwnMined # NoNonce
  <2>1. OwnMined \in 0..Len(chain) /\ Len(chain) \in Nat BY <1>2, OwnMinedIs, MinedIs
  <2> QED BY <1>3, <2>1, BoundsAssumption DEF Nonces
<1>5. /\ c \in Mined /\ (c.name \in Drafts => c \in submitted)
      /\ (Own(c.name) => c.nonce # NoNonce)
  <2>1. CASE c \in submitted
    <3>1. c \in Mined BY <1>2, <2>1 DEF NetworkOK
    <3> QED BY <1>1, <1>4, <2>1, <3>1
  <2>2. CASE c \in [name : Others, nonce : {OwnMined}]
    BY <1>1, <1>4, <2>2, NamesAssumption DEF Mined, Names
  <2>3. CASE c \in [name : Incoming, nonce : {0}]
    BY <1>1, <1>4, <2>3, NamesAssumption, NoncesAreNat DEF Mined, Names
  <2> QED BY <1>1, <2>1, <2>2, <2>3
<1> DEFINE n == Len(chain) + 1
<1>6. /\ chain' \in Seq(Mined) /\ Len(chain') = n
      /\ DOMAIN chain' = DOMAIN chain \union {n}
      /\ \A i \in DOMAIN chain : chain'[i] = chain[i]
      /\ chain'[n] = c
  <2>1. chain \in Seq(Mined) BY <1>2 DEF NetworkOK
  <2> QED BY <1>1, <1>5, <2>1, AppendIs
<1>7. n <= MaxChain BY <1>2, <1>3, MinedIs, NoncesAreNat
<1> HIDE DEF n
<1>8. txs' = txs /\ Tids' = Tids /\ submitted' = submitted /\ former' = former
  BY <1>3 DEF listVars, Tids
<1>9. NetworkOK' BY <1>2, <1>6, <1>7, <1>8 DEF NetworkOK
<1>10. Places \subseteq Places' /\ \A p \in Places' : p \in Places \/ p.mined = c
  <2>1. \A i \in DOMAIN chain : i \in DOMAIN chain' /\ Place(i)' = Place(i) BY <1>6 DEF Place
  <2>2. \A i \in DOMAIN chain' : i \in DOMAIN chain \/ Place(i)'.mined = c BY <1>6 DEF Place
  <2>3. Places' = {Place(i)' : i \in DOMAIN chain'} \union former BY <1>8 DEF Places
  <2>4. Places = {Place(i) : i \in DOMAIN chain} \union former BY DEF Places
  <2>5. \A p \in Places : p \in Places' BY <2>1, <2>3, <2>4
  <2>6. \A p \in Places' : p \in Places \/ p.mined = c BY <2>1, <2>2, <2>3, <2>4
  <2> QED BY <2>5, <2>6
<1>11. MinedAreSubmitted' /\ SubmittedAreHeld'
  BY <1>2, <1>5, <1>8, <1>10 DEF MinedAreSubmitted, SubmittedAreHeld
<1>12. BlockedIsMined' BY <1>2, <1>8, <1>10 DEF BlockedIsMined
<1>13. ListOK' /\ UnhashedAreDrafts' /\ ListedOnce' /\ BlockedInOrder' BY <1>2, <1>3, FrameList
<1>14. NonceOK' /\ NoncesAssigned' /\ NonceIsFresh' BY <1>2, <1>3, <1>8, FrameNonce
<1>15. QueueOK' BY <1>2, <1>3, <1>8, FrameQueue
<1>16. NodeOK' BY <1>2, <1>3, FrameNode DEF nodeVars
<1> QED BY <1>9, <1>11, <1>12, <1>13, <1>14, <1>15, <1>16 DEF IInv

LEMMA ReorganiseKeeps ==
  ASSUME IInv, NEW k \in 0..MaxChain, Reorganise(k)
  PROVE  IInv'
<1> DEFINE gone == {Place(i) : i \in k + 1..Len(chain)}
<1>1. /\ former' = former \union gone /\ former' # former
      /\ chain' = SubSeq(chain, 1, k)
      /\ submitted' = submitted \union {p.mined : p \in gone}
      /\ UNCHANGED <<nodeVars, listVars, nonceVars, tells, queueVars, told>>
  BY DEF Reorganise
<1>2. /\ NodeOK /\ ListOK /\ NonceOK /\ NetworkOK /\ QueueOK
      /\ NoncesAssigned /\ UnhashedAreDrafts /\ SubmittedAreHeld /\ MinedAreSubmitted
      /\ ListedOnce /\ BlockedIsMined /\ BlockedInOrder /\ NonceIsFresh
  BY DEF IInv
<1>3. /\ chain \in Seq(Mined) /\ Len(chain) \in Nat /\ DOMAIN chain = 1..Len(chain)
      /\ Len(chain) <= MaxChain /\ k \in Nat
  BY <1>2, MinedIs, NoncesAreNat DEF NetworkOK
<1>4. k < Len(chain)
  <2>1. gone # {} BY <1>1
  <2> QED BY <1>3, <2>1
<1>5. \A i \in k + 1..Len(chain) : i \in DOMAIN chain BY <1>3
<1>6. \A p \in gone : p \in Places
  <2>1. \A i \in k + 1..Len(chain) : Place(i) \in Places BY <1>2, <1>5, PlacesAre
  <2> QED BY <2>1
<1>7. /\ chain' \in Seq(Mined) /\ Len(chain') = k /\ DOMAIN chain' = 1..k
      /\ \A i \in 1..k : chain'[i] = chain[i]
  <2>1. 1 \in 1..(Len(chain) + 1) /\ k \in (1 - 1)..Len(chain) BY <1>3, <1>4
  <2>2. /\ SubSeq(chain, 1, k) \in Seq(Mined) /\ Len(SubSeq(chain, 1, k)) = k - 1 + 1
        /\ \A i \in 1..(k - 1 + 1) : SubSeq(chain, 1, k)[i] = chain[1 + i - 1]
    BY <1>3, <2>1, PartOf
  <2> QED BY <1>1, <1>3, <2>2
<1>8. Places' = Places
  <2>1. Places' = {Place(i)' : i \in 1..k} \union former' BY <1>7 DEF Places
  <2>2. Places = {Place(i) : i \in 1..Len(chain)} \union former BY <1>3 DEF Places
  <2>3. \A i \in 1..k : i \in 1..Len(chain) /\ Place(i)' = Place(i) BY <1>3, <1>4, <1>7 DEF Place
  <2>4. \A i \in 1..Len(chain) : i \in 1..k \/ Place(i) \in gone BY <1>3
  <2>5. \A p \in Places' : p \in Places
    <3> HIDE DEF gone
    <3> QED BY <1>1, <1>6, <2>1, <2>2, <2>3
  <2>6. \A p \in Places : p \in Places'
    <3> HIDE DEF gone
    <3> QED BY <1>1, <2>1, <2>2, <2>3, <2>4
  <2> QED BY <2>5, <2>6
<1> HIDE DEF gone
<1>9. txs' = txs /\ Tids' = Tids BY <1>1 DEF listVars, Tids
<1>10. NetworkOK'
  <2>1. \A p \in gone : p.mined \in Mined BY <1>2, <1>6, PlacesAre
  <2>2. submitted' \subseteq Mined BY <1>1, <1>2, <2>1 DEF NetworkOK
  <2>3. \A p \in gone : p \in [mined : Mined, at : Nat]
    <3>1. \A i \in DOMAIN chain : chain[i] \in Mined /\ i \in Nat BY <1>2, MinedIs
    <3> QED BY <1>5, <3>1 DEF gone, Place
  <2> QED BY <1>1, <1>2, <1>3, <1>4, <1>7, <2>2, <2>3 DEF NetworkOK
<1>11. MinedAreSubmitted' BY <1>1, <1>2, <1>8 DEF MinedAreSubmitted
<1>12. SubmittedAreHeld'
  <2>1. \A s \in submitted' : s.name \in Drafts => s \in submitted
    BY <1>1, <1>2, <1>6 DEF MinedAreSubmitted
  <2> QED BY <1>2, <1>9, <2>1 DEF SubmittedAreHeld
<1>13. BlockedIsMined' BY <1>2, <1>8, <1>9 DEF BlockedIsMined
<1>14. ListOK' /\ UnhashedAreDrafts' /\ ListedOnce' /\ BlockedInOrder' BY <1>1, <1>2, FrameList
<1>15. NonceOK' /\ NoncesAssigned' /\ NonceIsFresh' BY <1>1, <1>2, <1>9, FrameNonce
<1>16. QueueOK' BY <1>1, <1>2, <1>9, FrameQueue
<1>17. NodeOK' BY <1>1, <1>2, FrameNode DEF nodeVars
<1> QED BY <1>10, <1>11, <1>12, <1>13, <1>14, <1>15, <1>16, <1>17 DEF IInv

-----------------------------------------------------------------------------
(* The invariant holds of every behaviour.                                  *)

LEMMA InvInit == Init => IInv
<1> SUFFICES ASSUME Init PROVE IInv
  OBVIOUS
<1>1. /\ state = "CREATED" /\ thread = "none" /\ polled = FALSE
      /\ txs = <<>> /\ wallet = <<>> /\ told = <<>>
      /\ nonce = 0 /\ signing = Idle /\ raising = Idle /\ torn = FALSE
      /\ submitted = {} /\ chain = <<>> /\ former = {} /\ tells = {}
      /\ pending = <<>> /\ handler = "check"
  BY DEF Init, HandlerInit
<1>2. Tids = {} /\ DOMAIN wallet = {} /\ Places = {} /\ DOMAIN pending = {}
  BY <1>1 DEF Tids, Places
<1>3. NodeOK BY <1>1 DEF NodeOK
<1>4. ListOK BY <1>1, <1>2 DEF ListOK, Lists
<1>5. NonceOK
  <2>1. raising.step # "set" BY <1>1 DEF Idle
  <2> QED BY <1>1, <2>1, NoncesAreNat DEF NonceOK
<1>6. NetworkOK BY <1>1, NoncesAreNat DEF NetworkOK
<1>7. QueueOK BY <1>1, <1>2 DEF QueueOK
<1>8. NoncesAssigned BY <1>1, <1>2 DEF NoncesAssigned, Idle
<1>9. UnhashedAreDrafts /\ ListedOnce /\ BlockedIsMined /\ NonceIsFresh
  BY <1>2 DEF UnhashedAreDrafts, ListedOnce, BlockedIsMined, NonceIsFresh
<1>10. SubmittedAreHeld /\ MinedAreSubmitted BY <1>1, <1>2 DEF SubmittedAreHeld, MinedAreSubmitted
<1>11. BlockedInOrder BY <1>2 DEF BlockedInOrder
<1> QED BY <1>3, <1>4, <1>5, <1>6, <1>7, <1>8, <1>9, <1>10, <1>11 DEF IInv

LEMMA InvStep == IInv /\ [Next]_vars => IInv'
<1> SUFFICES ASSUME IInv, [Next]_vars PROVE IInv'
  OBVIOUS
<1>1. CASE UNCHANGED vars
  <2>1. /\ NodeOK /\ ListOK /\ NonceOK /\ NetworkOK /\ QueueOK
        /\ NoncesAssigned /\ UnhashedAreDrafts /\ SubmittedAreHeld /\ MinedAreSubmitted
        /\ ListedOnce /\ BlockedIsMined /\ BlockedInOrder /\ NonceIsFresh
    BY DEF IInv
  <2>2. /\ UNCHANGED <<nodeVars, listVars, nonceVars, networkVars, tells, queueVars, told>>
        /\ txs' = txs /\ Tids' = Tids
    BY <1>1 DEF vars, listVars, Tids
  <2>3. ListOK' /\ UnhashedAreDrafts' /\ ListedOnce' /\ BlockedInOrder' BY <2>1, <2>2, FrameList
  <2>4. NonceOK' /\ NoncesAssigned' /\ NonceIsFresh' BY <2>1, <2>2, FrameNonce
  <2>5. NetworkOK' /\ MinedAreSubmitted' BY <2>1, <2>2, FrameNetwork
  <2>6. SubmittedAreHeld' /\ BlockedIsMined' BY <2>1, <2>2, FrameHeld
  <2>7. QueueOK' BY <2>1, <2>2, FrameQueue
  <2>8. NodeOK' BY <2>1, <2>2, FrameNode DEF nodeVars
  <2> QED BY <2>3, <2>4, <2>5, <2>6, <2>7, <2>8 DEF IInv
<1>2. CASE Connect \/ Disconnect \/ ThreadStep BY <1>2, NodeStepKeeps
<1>3. CASE UserStep
  <2>1. CASE \E n \in Drafts : CreateTransaction(n) BY <2>1, CreateKeeps
  <2>2. CASE \E t \in Tids : SignReads(t) BY <2>2, SignReadsKeeps
  <2>3. CASE \E t \in Tids : Submit(t) BY <2>3, SubmitKeeps
  <2>4. CASE SignWrites BY <2>4, SignWritesKeeps
  <2>5. CASE SignEnds BY <2>5, SignEndsKeeps
  <2> QED BY <1>3, <2>1, <2>2, <2>3, <2>4, <2>5 DEF UserStep
<1>4. CASE AnswerStep
  <2>1. CASE \E t \in Tids : SubmitAnswered(t) BY <2>1, SubmitAnsweredKeeps
  <2>2. CASE \E t \in Tids : SubmitTold(t) BY <2>2, SubmitToldKeeps
  <2>3. CASE \E n \in Counts : AnnounceNonce(n) BY <2>3, AnnounceNonceKeeps
  <2>4. CASE SetNonce BY <2>4, SetNonceKeeps
  <2>5. CASE \E p \in Places : AnnounceTransaction(p)
    <3>1. PICK p \in Places : AnnounceTransaction(p) BY <2>5
    <3>2. CASE Lookup(p.mined) = Unknown BY <3>1, <3>2, NewIsAnnounced
    <3>3. CASE Lookup(p.mined) # Unknown BY <3>1, <3>3, KnownIsAnnounced
    <3> QED BY <3>2, <3>3
  <2> QED BY <1>4, <2>1, <2>2, <2>3, <2>4, <2>5 DEF AnswerStep
<1>5. CASE HandlerStep \/ HandlerWakes BY <1>5, HandlerKeeps
<1>6. CASE Mine BY <1>6, MineKeeps
<1>7. CASE \E k \in 0..MaxChain : Reorganise(k) BY <1>7, ReorganiseKeeps
<1> QED BY <1>1, <1>2, <1>3, <1>4, <1>5, <1>6, <1>7 DEF Next

LEMMA Invariance == Spec => []IInv
BY InvInit, InvStep, PTL DEF Spec

(* The parts of the type invariant the run checks.                          *)
LEMMA TypeFollows == IInv => TypeOK
<1> SUFFICES ASSUME IInv PROVE TypeOK
  OBVIOUS
<1>1. NodeOK /\ ListOK /\ NonceOK /\ QueueOK BY DEF IInv
<1>2. /\ state \in {"CREATED", "CONNECTING", "CONNECTED", "DISCONNECTING", "DISCONNECTED", "ERRORED"}
      /\ thread \in {"none", "starting", "running"} /\ polled \in BOOLEAN
  BY <1>1 DEF NodeOK
<1>3. torn \in BOOLEAN /\ nonce \in Nat BY <1>1, NoncesAreNat DEF NonceOK
<1>4. txs \in Seq(Transaction) /\ Len(wallet) = Len(txs) BY <1>1 DEF ListOK
<1>5. wallet \in Seq(Tids) /\ Range(wallet) = Tids
  <2>1. /\ wallet \in Seq(Nat) /\ \A j \in DOMAIN wallet : wallet[j] \in Tids
        /\ \A t \in Tids : \E j \in DOMAIN wallet : wallet[j] = t
    BY <1>1 DEF ListOK, Lists
  <2>2. wallet \in Seq(Tids) BY <2>1
  <2>3. Range(wallet) = Tids BY <2>1 DEF Range
  <2> QED BY <2>2, <2>3
<1>6. tells \subseteq Tids /\ handler \in {"check", "block", "wait"} BY <1>1 DEF QueueOK
<1>7. DOMAIN told = Tids BY <1>1, <1>4 DEF QueueOK, Tids
<1>8. signing.step \in {"read", "sign"} => signing.tid \in Tids BY <1>1, SigningIs
<1>9. \A j \in DOMAIN pending : About(pending[j]) \in Tids BY <1>1 DEF QueueOK
<1> QED BY <1>2, <1>3, <1>4, <1>5, <1>6, <1>7, <1>8, <1>9 DEF TypeOK

(* Types: the list holds every transaction of the node once, and the        *)
(* listener has heard of each at most.                                      *)
THEOREM TypeCorrect == Spec => []TypeOK
BY Invariance, TypeFollows, PTL

(* A payment is listed once, however late its hash comes.                   *)
THEOREM PaymentsAreListedOnce == Spec => []ListedOnce
<1>1. IInv => ListedOnce BY DEF IInv
<1> QED BY <1>1, Invariance, PTL

(* What is listed as mined was mined there, if not before a reorganisation  *)
(* that took it back, or displaced by what was; and it is listed in the     *)
(* order of the places it was announced at.                                 *)
THEOREM ListFollowsChain == Spec => []BlockedFollowChain
<1>1. IInv => BlockedFollowChain BY DEF IInv, BlockedFollowChain
<1> QED BY <1>1, Invariance, PTL

(* No nonce is given twice unless two unprotected writes of it met.         *)
THEOREM NoncesAreFresh == Spec => []NonceIsFresh
<1>1. IInv => NonceIsFresh BY DEF IInv
<1> QED BY <1>1, Invariance, PTL

=============================================================================
