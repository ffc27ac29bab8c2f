--------------------------- MODULE FriendBookProofs ---------------------------
(***************************************************************************)
(* The contact screen shows who is online, the table has the library's     *)
(* data, and what it once knew is never lost: for any number of friends,   *)
(* and however often they come, go and change their data.                  *)
(***************************************************************************)
EXTENDS FriendBook, TLAPS

-----------------------------------------------------------------------------
(* The invariant.  A friend who is or was online is known.                  *)
KnownOnline ==
  /\ \A f \in Friends : /\ book[f].status = "online" => book[f].data # None
                        /\ taken[f].status = "online" => taken[f].data # None
  /\ \A i \in 1..Len(calls) : calls[i].info.data # None

(* The status in a call that waits is the library's, unless another         *)
(* connection call about the friend follows.                                *)
CallsTrueOf(s, b) ==
  \A i \in 1..Len(s) :
    \/ \E j \in i+1..Len(s) : s[j].kind = "connection" /\ s[j].friend = s[i].friend
    \/ s[i].info.status = b[s[i].friend].status

(* So is the last broadcast about a friend, unless a call is due.           *)
ToldTrue ==
  \A i \in 1..Len(inbox) :
    \/ Due("connection", inbox[i].friend)
    \/ \E j \in i+1..Len(inbox) : inbox[j].friend = inbox[i].friend
    \/ inbox[i].status = book[inbox[i].friend].status

(* Where the status shown will come from.                                   *)
StatusOnTheWay ==
  fetched =>
    /\ pc \in {"write", "refresh", "open"}
    /\ \A f \in members :
         \/ Due("connection", f)
         \/ InTheAir(f)
         \/ /\ f \in todo => taken[f].status = book[f].status
            /\ f \in rowed \ todo /\ pc # "open" => row[f].status = book[f].status
            /\ f \in listed /\ pc = "open" => list[f] = book[f].status

(* The data in a call of a friend who was online is the library's, unless   *)
(* another one follows.                                                     *)
Online(c) == c.kind = "info" /\ c.info.status = "online"

DataTrueOf(s, b) ==
  \A i \in 1..Len(s) :
    Online(s[i]) =>
      \/ \E j \in i+1..Len(s) : Online(s[j]) /\ s[j].friend = s[i].friend
      \/ s[i].info.data = b[s[i].friend].data

DueOnlineIn(s, f) == \E i \in 1..Len(s) : Online(s[i]) /\ s[i].friend = f

(* Where the data will be: in the list being written or in the row.         *)
DataKept ==
  \A f \in (rowed \cup todo) \ raced :
    \/ DueOnlineIn(calls, f)
    \/ book[f].data = None
    \/ book[f].data = IF Overwrites(f) THEN taken[f].data ELSE row[f].data

IInv ==
  /\ TypeOK
  /\ KnownOnline
  /\ CallsTrueOf(calls, book) /\ ToldTrue /\ StatusOnTheWay
  /\ DataTrueOf(calls, book) /\ DataKept
-----------------------------------------------------------------------------

(* Sequences: the calls and broadcasts are queues.                          *)

LEMMA TailFacts ==
  ASSUME NEW S, NEW s \in Seq(S), s # <<>>
  PROVE  /\ Tail(s) \in Seq(S) /\ Len(s) \in Nat \ {0} /\ Len(Tail(s)) = Len(s) - 1
         /\ \A i \in 1..Len(Tail(s)) : Tail(s)[i] = s[i + 1]
         /\ Head(s) = s[1] /\ Head(s) \in S
OBVIOUS

LEMMA AppendFacts ==
  ASSUME NEW S, NEW s \in Seq(S), NEW x \in S
  PROVE  /\ Append(s, x) \in Seq(S) /\ Len(s) \in Nat /\ Len(Append(s, x)) = Len(s) + 1
         /\ \A i \in 1..Len(s) : Append(s, x)[i] = s[i]
         /\ Append(s, x)[Len(s) + 1] = x
OBVIOUS

LEMMA TwoCalls ==
  ASSUME NEW S, NEW s \in Seq(S), NEW x \in S
  PROVE  s \o <<>> = s /\ s \o <<x>> = Append(s, x)
OBVIOUS

LEMMA CallsInTail ==
  ASSUME NEW s \in Seq(Call), s # <<>>, NEW b, CallsTrueOf(s, b)
  PROVE  CallsTrueOf(Tail(s), b)
<1> SUFFICES ASSUME NEW i \in 1..Len(Tail(s))
             PROVE  \/ \E j \in i+1..Len(Tail(s)) :
                         Tail(s)[j].kind = "connection" /\ Tail(s)[j].friend = Tail(s)[i].friend
                    \/ Tail(s)[i].info.status = b[Tail(s)[i].friend].status
  BY DEF CallsTrueOf
<1>1. /\ Len(s) \in Nat \ {0} /\ Len(Tail(s)) = Len(s) - 1
      /\ \A k \in 1..Len(Tail(s)) : Tail(s)[k] = s[k + 1]
  BY TailFacts
<1>2. i + 1 \in 1..Len(s) /\ Tail(s)[i] = s[i + 1]
  BY <1>1
<1>3. CASE s[i + 1].info.status = b[s[i + 1].friend].status
  BY <1>2, <1>3
<1>4. CASE \E j \in (i + 1)+1..Len(s) : s[j].kind = "connection" /\ s[j].friend = s[i + 1].friend
  <2>1. PICK j \in (i + 1)+1..Len(s) : s[j].kind = "connection" /\ s[j].friend = s[i + 1].friend
    BY <1>4
  <2>2. j - 1 \in i+1..Len(Tail(s)) /\ Tail(s)[j - 1] = s[j]
    BY <1>1, <2>1
  <2>3. QED
    BY <1>2, <2>1, <2>2
<1>5. QED
  BY <1>2, <1>3, <1>4 DEF CallsTrueOf

LEMMA DataInTail ==
  ASSUME NEW s \in Seq(Call), s # <<>>, NEW b, DataTrueOf(s, b)
  PROVE  DataTrueOf(Tail(s), b)
<1> SUFFICES ASSUME NEW i \in 1..Len(Tail(s)), Online(Tail(s)[i])
             PROVE  \/ \E j \in i+1..Len(Tail(s)) :
                         Online(Tail(s)[j]) /\ Tail(s)[j].friend = Tail(s)[i].friend
                    \/ Tail(s)[i].info.data = b[Tail(s)[i].friend].data
  BY DEF DataTrueOf
<1>1. /\ Len(s) \in Nat \ {0} /\ Len(Tail(s)) = Len(s) - 1
      /\ \A k \in 1..Len(Tail(s)) : Tail(s)[k] = s[k + 1]
  BY TailFacts
<1>2. i + 1 \in 1..Len(s) /\ Tail(s)[i] = s[i + 1]
  BY <1>1
<1>3. CASE s[i + 1].info.data = b[s[i + 1].friend].data
  BY <1>2, <1>3
<1>4. CASE \E j \in (i + 1)+1..Len(s) : Online(s[j]) /\ s[j].friend = s[i + 1].friend
  <2>1. PICK j \in (i + 1)+1..Len(s) : Online(s[j]) /\ s[j].friend = s[i + 1].friend
    BY <1>4
  <2>2. j - 1 \in i+1..Len(Tail(s)) /\ Tail(s)[j - 1] = s[j]
    BY <1>1, <2>1
  <2>3. QED
    BY <1>2, <2>1, <2>2
<1>5. QED
  BY <1>2, <1>3, <1>4 DEF DataTrueOf

(* A connection call makes up for everything said of its friend before.     *)
LEMMA AppendConnection ==
  ASSUME NEW s \in Seq(Call), NEW b \in [Friends -> Info], NEW c \in Call, c.kind = "connection",
         CallsTrueOf(s, b)
  PROVE  CallsTrueOf(Append(s, c), [b EXCEPT ![c.friend] = c.info])
<1> DEFINE t == Append(s, c)
           b2 == [b EXCEPT ![c.friend] = c.info]
<1> SUFFICES ASSUME NEW i \in 1..Len(t)
             PROVE  \/ \E j \in i+1..Len(t) : t[j].kind = "connection" /\ t[j].friend = t[i].friend
                    \/ t[i].info.status = b2[t[i].friend].status
  BY DEF CallsTrueOf
<1>1. /\ Len(s) \in Nat /\ Len(t) = Len(s) + 1
      /\ \A k \in 1..Len(s) : t[k] = s[k] /\ s[k] \in Call
      /\ t[Len(s) + 1] = c
  BY AppendFacts
<1>2. c.friend \in Friends
  BY DEF Call
<1> HIDE DEF t
<1>3. CASE i = Len(s) + 1
  BY <1>1, <1>2, <1>3
<1>4. CASE i \in 1..Len(s) /\ s[i].friend = c.friend
  BY <1>1, <1>4
<1>5. CASE i \in 1..Len(s) /\ s[i].friend # c.friend
  <2>1. s[i].friend \in Friends /\ b2[s[i].friend] = b[s[i].friend]
    BY <1>1, <1>5 DEF Call
  <2>2. CASE s[i].info.status = b[s[i].friend].status
    BY <1>1, <1>5, <2>1, <2>2
  <2>3. CASE \E j \in i+1..Len(s) : s[j].kind = "connection" /\ s[j].friend = s[i].friend
    <3>1. PICK j \in i+1..Len(s) : s[j].kind = "connection" /\ s[j].friend = s[i].friend
      BY <2>3
    <3>2. j \in i+1..Len(t) /\ t[j] = s[j] /\ t[i] = s[i]
      BY <1>1, <1>5, <3>1
    <3>3. QED
      BY <3>1, <3>2
  <2>4. QED
    BY <1>5, <2>2, <2>3 DEF CallsTrueOf
<1>6. QED
  BY <1>1, <1>3, <1>4, <1>5

(* A call that says what the library says. *)
LEMMA AppendTrue ==
  ASSUME NEW s \in Seq(Call), NEW b, NEW c \in Call, c.info.status = b[c.friend].status,
         CallsTrueOf(s, b)
  PROVE  CallsTrueOf(Append(s, c), b)
<1> DEFINE t == Append(s, c)
<1> SUFFICES ASSUME NEW i \in 1..Len(t)
             PROVE  \/ \E j \in i+1..Len(t) : t[j].kind = "connection" /\ t[j].friend = t[i].friend
                    \/ t[i].info.status = b[t[i].friend].status
  BY DEF CallsTrueOf
<1>1. /\ Len(s) \in Nat /\ Len(t) = Len(s) + 1
      /\ \A k \in 1..Len(s) : t[k] = s[k]
      /\ t[Len(s) + 1] = c
  BY AppendFacts
<1> HIDE DEF t
<1>2. CASE i = Len(s) + 1
  BY <1>1, <1>2
<1>3. CASE i \in 1..Len(s) /\ s[i].info.status = b[s[i].friend].status
  BY <1>1, <1>3
<1>4. CASE i \in 1..Len(s) /\ \E j \in i+1..Len(s) : s[j].kind = "connection" /\ s[j].friend = s[i].friend
  <2>1. PICK j \in i+1..Len(s) : s[j].kind = "connection" /\ s[j].friend = s[i].friend
    BY <1>4
  <2>2. j \in i+1..Len(t) /\ t[j] = s[j] /\ t[i] = s[i]
    BY <1>1, <1>4, <2>1
  <2>3. QED
    BY <2>1, <2>2
<1>5. QED
  BY <1>1, <1>2, <1>3, <1>4 DEF CallsTrueOf

(* The data of friends changes only with a call that has the new data. *)
LEMMA AppendData ==
  ASSUME NEW s \in Seq(Call), NEW b, NEW b2, NEW c \in Call,
         \A g \in Friends : b2[g].data = b[g].data \/ (Online(c) /\ c.friend = g),
         Online(c) => c.info.data = b2[c.friend].data,
         DataTrueOf(s, b)
  PROVE  DataTrueOf(Append(s, c), b2)
<1> DEFINE t == Append(s, c)
<1> SUFFICES ASSUME NEW i \in 1..Len(t), Online(t[i])
             PROVE  \/ \E j \in i+1..Len(t) : Online(t[j]) /\ t[j].friend = t[i].friend
                    \/ t[i].info.data = b2[t[i].friend].data
  BY DEF DataTrueOf
<1>1. /\ Len(s) \in Nat /\ Len(t) = Len(s) + 1
      /\ \A k \in 1..Len(s) : t[k] = s[k] /\ s[k] \in Call
      /\ t[Len(s) + 1] = c
  BY AppendFacts
<1> HIDE DEF t
<1>2. CASE i = Len(s) + 1
  BY <1>1, <1>2
<1>3. CASE i \in 1..Len(s) /\ Online(c) /\ s[i].friend = c.friend
  <2>1. Len(s) + 1 \in i+1..Len(t) /\ t[i] = s[i]
    BY <1>1, <1>3
  <2>2. QED
    BY <1>1, <1>3, <2>1
<1>4. CASE i \in 1..Len(s) /\ ~(Online(c) /\ s[i].friend = c.friend)
  <2>1. t[i] = s[i] /\ s[i].friend \in Friends
    BY <1>1, <1>4 DEF Call
  <2>2. b2[s[i].friend].data = b[s[i].friend].data
    BY <1>4, <2>1
  <2>3. CASE s[i].info.data = b[s[i].friend].data
    BY <2>1, <2>2, <2>3
  <2>4. CASE \E j \in i+1..Len(s) : Online(s[j]) /\ s[j].friend = s[i].friend
    <3>1. PICK j \in i+1..Len(s) : Online(s[j]) /\ s[j].friend = s[i].friend
      BY <2>4
    <3>2. j \in i+1..Len(t) /\ t[j] = s[j]
      BY <1>1, <1>4, <3>1
    <3>3. QED
      BY <2>1, <3>1, <3>2
  <2>5. QED
    BY <1>4, <2>1, <2>3, <2>4 DEF DataTrueOf
<1>5. QED
  BY <1>1, <1>2, <1>3, <1>4

-----------------------------------------------------------------------------
(* What the library does.                                                   *)

LEMMA InfoFacts ==
  ASSUME NEW i \in Info
  PROVE  i.status \in Status /\ i.data \in Data
BY DEF Info

LEMMA StatusInfo ==
  ASSUME NEW st \in Status, NEW d \in Data
  PROVE  /\ [status |-> st, data |-> d] \in Info
         /\ [status |-> st, data |-> d].status = st
         /\ [status |-> st, data |-> d].data = d
BY DEF Info

LEMMA CallFacts ==
  ASSUME NEW f \in Friends, NEW i \in Info, NEW k \in {"connection", "info"}
  PROVE  /\ CallOf(k, f, i) \in Call
         /\ CallOf(k, f, i).kind = k /\ CallOf(k, f, i).friend = f /\ CallOf(k, f, i).info = i
BY DEF CallOf, Call

(* The properties of a change of the library that matter for the rest:      *)
(* it is announced.                                                         *)
Announced(f) ==
  /\ f \in Friends
  /\ book' \in [Friends -> Info] /\ calls' \in Seq(Call)
  /\ \A g \in Friends \ {f} : book'[g] = book[g]
  /\ book'[f].data # None
  /\ \A i \in 1..Len(calls') : calls'[i].info.data # None
  /\ Len(calls) <= Len(calls') /\ \A i \in 1..Len(calls) : calls'[i] = calls[i]
  /\ CallsTrueOf(calls', book') /\ DataTrueOf(calls', book')
  /\ book'[f].status = book[f].status \/ DueIn(calls', "connection", f)
  /\ book'[f].data = book[f].data \/ DueOnlineIn(calls', f)
  /\ UNCHANGED <<members, table, screen, raced>>

LEMMA ComesOnlineAnnounced ==
  ASSUME IInv, NEW f \in Friends, ComesOnline(f)
  PROVE  Announced(f)
<1> DEFINE info == [status |-> "online", data |-> version[f]]
           c == CallOf("connection", f, info)
           d == CallOf("info", f, info)
           s1 == Append(calls, c)
           s2 == Append(s1, d)
<1>1. /\ book \in [Friends -> Info] /\ calls \in Seq(Call) /\ version[f] \in Nat
      /\ CallsTrueOf(calls, book) /\ DataTrueOf(calls, book)
      /\ \A i \in 1..Len(calls) : calls[i].info.data # None
  BY DEF IInv, TypeOK, LibraryOK, KnownOnline
<1>2. version[f] # None /\ version[f] \in Data
  BY <1>1, FriendsAssumption DEF Data
<1>3. info \in Info /\ info.status = "online" /\ info.data = version[f]
  BY <1>2, StatusInfo DEF Status
<1>4. /\ c \in Call /\ c.kind = "connection" /\ c.friend = f /\ c.info = info
      /\ d \in Call /\ d.kind = "info" /\ d.friend = f /\ d.info = info
  BY <1>3, CallFacts
<1>5. /\ book' = [book EXCEPT ![f] = info]
      /\ calls' = s1 \o (IF book[f].data = version[f] THEN <<>> ELSE <<d>>)
      /\ UNCHANGED <<members, table, screen, raced>>
  BY DEF ComesOnline
<1> HIDE DEF info, c, d
<1>6. /\ book' \in [Friends -> Info] /\ book'[f] = info
      /\ \A g \in Friends \ {f} : book'[g] = book[g]
  BY <1>1, <1>3, <1>5
<1>7. /\ s1 \in Seq(Call) /\ Len(s1) = Len(calls) + 1 /\ Len(calls) \in Nat
      /\ \A i \in 1..Len(calls) : s1[i] = calls[i]
      /\ s1[Len(calls) + 1] = c
  BY <1>1, <1>4, AppendFacts
<1>8. CallsTrueOf(s1, book')
  BY <1>1, <1>4, <1>5, AppendConnection
<1> HIDE DEF s1
<1>9. CASE book[f].data = version[f]
  <2>1. calls' = s1
    BY <1>5, <1>7, <1>9
  <2>2. ~Online(c)
    BY <1>4 DEF Online
  <2>3. \A g \in Friends : book'[g].data = book[g].data
    BY <1>3, <1>6, <1>9
  <2>4. DataTrueOf(s1, book')
    BY <1>1, <1>4, <2>2, <2>3, AppendData DEF s1
  <2>5. \A i \in 1..Len(s1) : s1[i].info.data # None
    BY <1>1, <1>2, <1>3, <1>4, <1>7
  <2>6. DueIn(calls', "connection", f)
    BY <1>4, <1>7, <2>1 DEF DueIn
  <2>7. Len(calls) <= Len(s1)
    BY <1>7
  <2>8. /\ calls' \in Seq(Call) /\ Len(calls) <= Len(calls')
        /\ \A i \in 1..Len(calls) : calls'[i] = calls[i]
        /\ \A i \in 1..Len(calls') : calls'[i].info.data # None
        /\ CallsTrueOf(calls', book') /\ DataTrueOf(calls', book')
    BY <1>7, <1>8, <2>1, <2>4, <2>5, <2>7
  <2>9. book'[f].data # None
    BY <1>2, <1>3, <1>6
  <2>10. QED
    BY <1>5, <1>6, <2>3, <2>6, <2>8, <2>9 DEF Announced
<1>10. CASE book[f].data # version[f]
  <2>1. calls' = s2
    BY <1>4, <1>5, <1>7, <1>10, TwoCalls
  <2>2. Online(d) /\ ~Online(c)
    BY <1>3, <1>4 DEF Online
  <2>3. DataTrueOf(s1, book)
    BY <1>1, <1>4, <2>2, AppendData DEF s1
  <2>4. DataTrueOf(s2, book')
    BY <1>4, <1>6, <1>7, <2>2, <2>3, AppendData
  <2>5. CallsTrueOf(s2, book')
    BY <1>4, <1>6, <1>7, <1>8, AppendTrue
  <2>6. /\ s2 \in Seq(Call) /\ Len(s2) = Len(s1) + 1
        /\ \A i \in 1..Len(s1) : s2[i] = s1[i]
        /\ s2[Len(s1) + 1] = d
    BY <1>4, <1>7, AppendFacts
  <2> HIDE DEF s2
  <2>7. \A i \in 1..Len(s2) : s2[i].info.data # None
    BY <1>1, <1>2, <1>3, <1>4, <1>7, <2>6
  <2>8. DueIn(calls', "connection", f) /\ DueOnlineIn(s2, f)
    <3>1. Len(calls) + 1 \in 1..Len(s2) /\ s2[Len(calls) + 1] = c
      BY <1>7, <2>6
    <3>2. Len(s1) + 1 \in 1..Len(s2)
      BY <1>7, <2>6
    <3>3. QED
      BY <1>4, <2>1, <2>2, <2>6, <3>1, <3>2 DEF DueIn, DueOnlineIn
  <2>9. \A i \in 1..Len(calls) : s2[i] = calls[i]
    BY <1>7, <2>6
  <2>10. Len(calls) <= Len(s2)
    BY <1>7, <2>6
  <2>11. QED
    BY <1>2, <1>3, <1>5, <1>6, <2>1, <2>4, <2>5, <2>6, <2>7, <2>8, <2>9, <2>10 DEF Announced
<1>11. QED
  BY <1>9, <1>10

LEMMA GoesOfflineAnnounced ==
  ASSUME IInv, NEW f \in Friends, GoesOffline(f)
  PROVE  Announced(f)
<1> DEFINE info == [book[f] EXCEPT !.status = "offline"]
           c == CallOf("connection", f, info)
           d == CallOf("info", f, info)
           s1 == Append(calls, c)
           s2 == Append(s1, d)
<1>1. /\ book \in [Friends -> Info] /\ calls \in Seq(Call)
      /\ CallsTrueOf(calls, book) /\ DataTrueOf(calls, book)
      /\ \A i \in 1..Len(calls) : calls[i].info.data # None
      /\ book[f].status = "online" => book[f].data # None
  BY DEF IInv, TypeOK, LibraryOK, KnownOnline
<1>2. /\ book[f].status = "online"
      /\ book' = [book EXCEPT ![f] = info]
      /\ \E more \in {<<>>, <<d>>} : calls' = s1 \o more
      /\ UNCHANGED <<members, table, screen, raced>>
  BY DEF GoesOffline
<1>3. info \in Info /\ info.status = "offline" /\ info.data = book[f].data /\ info.data # None
  BY <1>1, <1>2 DEF Info, Status
<1>4. /\ c \in Call /\ c.kind = "connection" /\ c.friend = f /\ c.info = info
      /\ d \in Call /\ d.kind = "info" /\ d.friend = f /\ d.info = info
  BY <1>3, CallFacts
<1>5. ~Online(c) /\ ~Online(d)
  BY <1>3, <1>4 DEF Online
<1> HIDE DEF info, c, d
<1>6. /\ book' \in [Friends -> Info] /\ book'[f] = info
      /\ \A g \in Friends \ {f} : book'[g] = book[g]
  BY <1>1, <1>2, <1>3
<1>7. \A g \in Friends : book'[g].data = book[g].data
  BY <1>3, <1>6
<1>8. /\ s1 \in Seq(Call) /\ Len(s1) = Len(calls) + 1 /\ Len(calls) \in Nat
      /\ \A i \in 1..Len(calls) : s1[i] = calls[i]
      /\ s1[Len(calls) + 1] = c
  BY <1>1, <1>4, AppendFacts
<1>9. CallsTrueOf(s1, book')
  BY <1>1, <1>2, <1>4, AppendConnection
<1>10. DataTrueOf(s1, book')
  BY <1>1, <1>4, <1>5, <1>7, AppendData
<1> HIDE DEF s1
<1>11. /\ Len(calls) <= Len(s1)
       /\ \A i \in 1..Len(s1) : s1[i].info.data # None
       /\ Len(s1) \in 1..Len(s1) /\ s1[Len(s1)] = c
  BY <1>1, <1>3, <1>4, <1>8
<1>12. CASE calls' = s1 \o <<>>
  <2>1. calls' = s1
    BY <1>8, <1>12
  <2>2. /\ calls' \in Seq(Call) /\ Len(calls) <= Len(calls')
        /\ \A i \in 1..Len(calls) : calls'[i] = calls[i]
        /\ \A i \in 1..Len(calls') : calls'[i].info.data # None
        /\ CallsTrueOf(calls', book') /\ DataTrueOf(calls', book')
    BY <1>8, <1>9, <1>10, <1>11, <2>1
  <2>3. DueIn(calls', "connection", f)
    BY <1>4, <1>11, <2>1 DEF DueIn
  <2>4. QED
    BY <1>2, <1>3, <1>6, <1>7, <2>2, <2>3 DEF Announced
<1>13. CASE calls' = s1 \o <<d>>
  <2>1. calls' = s2
    BY <1>4, <1>8, <1>13, TwoCalls
  <2>2. /\ s2 \in Seq(Call) /\ Len(s2) = Len(s1) + 1 /\ Len(s1) \in Nat
        /\ \A i \in 1..Len(s1) : s2[i] = s1[i]
        /\ s2[Len(s1) + 1] = d
    BY <1>4, <1>8, AppendFacts
  <2>3. CallsTrueOf(s2, book')
    BY <1>4, <1>6, <1>8, <1>9, AppendTrue
  <2>4. DataTrueOf(s2, book')
    BY <1>4, <1>5, <1>8, <1>10, AppendData
  <2> HIDE DEF s2
  <2>5. /\ Len(calls) <= Len(s2)
        /\ \A i \in 1..Len(calls) : s2[i] = calls[i]
    BY <1>8, <2>2
  <2>6. \A i \in 1..Len(s2) : s2[i].info.data # None
    BY <1>3, <1>4, <1>11, <2>2
  <2>7. Len(s1) \in 1..Len(s2) /\ s2[Len(s1)] = c
    BY <1>11, <2>2
  <2>8. DueIn(calls', "connection", f)
    BY <1>4, <2>1, <2>7 DEF DueIn
  <2>9. /\ calls' \in Seq(Call) /\ Len(calls) <= Len(calls')
        /\ \A i \in 1..Len(calls) : calls'[i] = calls[i]
        /\ \A i \in 1..Len(calls') : calls'[i].info.data # None
        /\ CallsTrueOf(calls', book') /\ DataTrueOf(calls', book')
    BY <2>1, <2>2, <2>3, <2>4, <2>5, <2>6
  <2>10. QED
    BY <1>2, <1>3, <1>6, <1>7, <2>8, <2>9 DEF Announced
<1>14. QED
  BY <1>2, <1>12, <1>13

LEMMA ChangesDataAnnounced ==
  ASSUME IInv, NEW f \in Friends, ChangesData(f), book[f].status = "online"
  PROVE  Announced(f)
<1> DEFINE info == [status |-> "online", data |-> version'[f]]
           d == CallOf("info", f, info)
           s1 == Append(calls, d)
<1>1. /\ book \in [Friends -> Info] /\ calls \in Seq(Call) /\ version \in [Friends -> Nat]
      /\ CallsTrueOf(calls, book) /\ DataTrueOf(calls, book)
      /\ \A i \in 1..Len(calls) : calls[i].info.data # None
  BY DEF IInv, TypeOK, LibraryOK, KnownOnline
<1>2. /\ book' = [book EXCEPT ![f] = info] /\ calls' = s1
      /\ version' = [version EXCEPT ![f] = @ + 1]
      /\ UNCHANGED <<members, table, screen, raced>>
  BY DEF ChangesData
<1>3. version'[f] \in Data /\ version'[f] # None
  BY <1>1, <1>2, FriendsAssumption DEF Data
<1>4. info \in Info /\ info.status = "online" /\ info.data = version'[f]
  BY <1>3, StatusInfo DEF Status
<1>5. d \in Call /\ d.kind = "info" /\ d.friend = f /\ d.info = info
  BY <1>4, CallFacts
<1>6. Online(d)
  BY <1>4, <1>5 DEF Online
<1> HIDE DEF info, d
<1>7. /\ book' \in [Friends -> Info] /\ book'[f] = info
      /\ \A g \in Friends \ {f} : book'[g] = book[g]
      /\ \A g \in Friends : book'[g].status = book[g].status
  BY <1>1, <1>2, <1>4
<1>8. /\ s1 \in Seq(Call) /\ Len(s1) = Len(calls) + 1 /\ Len(calls) \in Nat
      /\ \A i \in 1..Len(calls) : s1[i] = calls[i]
      /\ s1[Len(calls) + 1] = d
  BY <1>1, <1>5, AppendFacts
<1>9. CallsTrueOf(calls, book')
  <2>1. \A i \in 1..Len(calls) : calls[i].friend \in Friends
    <3>1. \A i \in 1..Len(calls) : calls[i] \in Call
      BY <1>1
    <3>2. QED
      BY <3>1 DEF Call
  <2>2. \A i \in 1..Len(calls) : book'[calls[i].friend].status = book[calls[i].friend].status
    BY <1>7, <2>1
  <2>3. CallsTrueOf(calls, book)
    BY <1>1
  <2>4. QED
    BY <2>2, <2>3 DEF CallsTrueOf
<1>10. CallsTrueOf(s1, book')
  BY <1>1, <1>5, <1>7, <1>9, AppendTrue
<1>11. DataTrueOf(s1, book')
  BY <1>1, <1>5, <1>6, <1>7, AppendData
<1> HIDE DEF s1
<1>12. /\ Len(calls) <= Len(s1)
       /\ \A i \in 1..Len(s1) : s1[i].info.data # None
       /\ Len(s1) \in 1..Len(s1) /\ s1[Len(s1)] = d
  BY <1>1, <1>3, <1>4, <1>5, <1>8
<1>13. DueOnlineIn(calls', f)
  BY <1>2, <1>5, <1>6, <1>12 DEF DueOnlineIn
<1>14. /\ calls' \in Seq(Call) /\ Len(calls) <= Len(calls')
       /\ \A i \in 1..Len(calls) : calls'[i] = calls[i]
       /\ \A i \in 1..Len(calls') : calls'[i].info.data # None
       /\ CallsTrueOf(calls', book') /\ DataTrueOf(calls', book')
  BY <1>2, <1>8, <1>10, <1>11, <1>12
<1>15. QED
  BY <1>2, <1>3, <1>4, <1>7, <1>13, <1>14 DEF Announced

(* A change that is announced leaves the invariant as it was.               *)
LEMMA AnnouncedKeeps ==
  ASSUME IInv, NEW f, Announced(f), LibraryOK'
  PROVE  IInv'
<1>1. /\ f \in Friends /\ book' \in [Friends -> Info] /\ calls' \in Seq(Call)
      /\ \A g \in Friends \ {f} : book'[g] = book[g]
      /\ Len(calls) <= Len(calls') /\ Len(calls) \in Nat /\ Len(calls') \in Nat
      /\ \A i \in 1..Len(calls) : calls'[i] = calls[i]
      /\ book'[f].status = book[f].status \/ DueIn(calls', "connection", f)
      /\ book'[f].data = book[f].data \/ DueOnlineIn(calls', f)
      /\ UNCHANGED <<members, table, screen, raced>>
  BY DEF Announced, IInv, TypeOK, LibraryOK
<1>2. UNCHANGED <<members, rowed, row, pc, taken, todo, listed, list, inbox, fetched, raced>>
  BY <1>1 DEF table, screen
<1>3. TypeOK'
  <2>1. TableOK' /\ ScreenOK'
    BY <1>2 DEF IInv, TypeOK, TableOK, ScreenOK, Registered
  <2>2. QED
    BY <2>1 DEF TypeOK
<1>4. KnownOnline'
  BY <1>1, <1>2 DEF Announced, IInv, KnownOnline
<1>5. CallsTrueOf(calls, book)' /\ DataTrueOf(calls, book)'
  BY DEF Announced
<1>6. ASSUME NEW k, NEW g, DueIn(calls, k, g) PROVE DueIn(calls', k, g)
  <2>1. PICK i \in 1..Len(calls) : calls[i].kind = k /\ calls[i].friend = g
    BY <1>6 DEF DueIn
  <2>2. i \in 1..Len(calls') /\ calls'[i] = calls[i]
    BY <1>1
  <2>3. QED
    BY <2>1, <2>2 DEF DueIn
<1>7. ASSUME NEW g, DueOnlineIn(calls, g) PROVE DueOnlineIn(calls', g)
  <2>1. PICK i \in 1..Len(calls) : Online(calls[i]) /\ calls[i].friend = g
    BY <1>7 DEF DueOnlineIn
  <2>2. i \in 1..Len(calls') /\ calls'[i] = calls[i]
    BY <1>1
  <2>3. QED
    BY <2>1, <2>2 DEF DueOnlineIn
<1>8. \A g \in Friends : book'[g].status = book[g].status \/ DueIn(calls', "connection", g)
  BY <1>1
<1>9. ToldTrue'
  <2>1. \A i \in 1..Len(inbox) : inbox[i].friend \in Friends
    <3>1. inbox \in Seq(Told)
      BY DEF IInv, TypeOK, ScreenOK
    <3>2. \A i \in 1..Len(inbox) : inbox[i] \in Told
      BY <3>1
    <3>3. QED
      BY <3>2 DEF Told
  <2>2. ToldTrue
    BY DEF IInv
  <2>3. QED
    BY <1>2, <1>6, <1>8, <2>1, <2>2 DEF ToldTrue, Due
<1>10. StatusOnTheWay'
  <2>1. \A g : ToldIn(inbox', g) <=> ToldIn(inbox, g)
    BY <1>2 DEF ToldIn
  <2>2. members \subseteq Friends /\ StatusOnTheWay
    BY DEF IInv, TypeOK, LibraryOK
  <2>3. QED
    BY <1>2, <1>6, <1>8, <2>1, <2>2 DEF StatusOnTheWay, Due, InTheAir
<1>11. DataKept'
  <2>1. \A g : Overwrites(g)' <=> Overwrites(g)
    BY <1>2 DEF Overwrites
  <2>2. rowed \cup todo \subseteq Friends /\ DataKept
    BY DEF IInv, TypeOK, LibraryOK, TableOK, ScreenOK
  <2>3. \A g \in Friends : book'[g].data = book[g].data \/ DueOnlineIn(calls', g)
    BY <1>1
  <2>4. QED
    BY <1>2, <1>7, <2>1, <2>2, <2>3 DEF DataKept
<1>12. QED
  BY <1>3, <1>4, <1>5, <1>9, <1>10, <1>11 DEF IInv

LEMMA FriendStep ==
  ASSUME IInv, NEW f \in Friends,
         ComesOnline(f) \/ GoesOffline(f) \/ (ChangesData(f) /\ book[f].status = "online")
  PROVE  IInv'
<1>1. Announced(f)
  BY ComesOnlineAnnounced, GoesOfflineAnnounced, ChangesDataAnnounced
<1>2. events' \in Nat /\ version' \in [Friends -> Nat]
  BY DEF ComesOnline, GoesOffline, ChangesData, Event, IInv, TypeOK, LibraryOK
<1>3. members' \subseteq Friends /\ book' \in [Friends -> Info] /\ calls' \in Seq(Call)
  BY <1>1 DEF Announced, IInv, TypeOK, LibraryOK
<1>4. QED
  BY <1>1, <1>2, <1>3, AnnouncedKeeps DEF LibraryOK

(* A friend who is offline changes its data, a friend is added: nothing     *)
(* here knows of it.                                                        *)
LEMMA SilentStep ==
  ASSUME IInv, NEW f \in Friends,
         Added(f) \/ (ChangesData(f) /\ book[f].status # "online")
  PROVE  IInv'
<1>1. /\ members \subseteq members' /\ members' \subseteq Friends
      /\ version' \in [Friends -> Nat] /\ events' \in Nat
      /\ UNCHANGED <<book, calls, rowed, row, pc, taken, todo, listed, list, inbox, fetched, raced>>
  BY DEF Added, ChangesData, Event, IInv, TypeOK, LibraryOK, table, screen
<1>2. TypeOK'
  <2>1. LibraryOK'
    BY <1>1 DEF IInv, TypeOK, LibraryOK
  <2>2. TableOK'
    BY <1>1 DEF IInv, TypeOK, TableOK
  <2>3. ScreenOK'
    BY <1>1 DEF IInv, TypeOK, ScreenOK, Registered
  <2>4. QED
    BY <2>1, <2>2, <2>3 DEF TypeOK
<1>3. KnownOnline' /\ CallsTrueOf(calls, book)' /\ DataTrueOf(calls, book)'
  BY <1>1 DEF IInv, KnownOnline, CallsTrueOf, DataTrueOf
<1>4. ToldTrue'
  BY <1>1 DEF IInv, ToldTrue, Due, DueIn
<1>5. StatusOnTheWay'
  <2>1. rowed \subseteq members /\ todo \subseteq members /\ listed \subseteq members
    BY DEF IInv, TypeOK, TableOK, ScreenOK
  <2>2. \A g : (DueIn(calls', "connection", g) <=> DueIn(calls, "connection", g)) /\ (ToldIn(inbox', g) <=> ToldIn(inbox, g))
    BY <1>1 DEF DueIn, ToldIn
  <2>3. QED
    BY <1>1, <2>1, <2>2 DEF IInv, StatusOnTheWay, Due, InTheAir
<1>6. DataKept'
  BY <1>1 DEF IInv, DataKept, Overwrites
<1>7. QED
  BY <1>2, <1>3, <1>4, <1>5, <1>6 DEF IInv

-----------------------------------------------------------------------------
(* The handler.                                                             *)

LEMMA HeadFacts ==
  ASSUME IInv, calls # <<>>
  PROVE  /\ Head(calls) \in Call /\ Head(calls) = calls[1] /\ 1 \in 1..Len(calls)
         /\ Head(calls).friend \in Friends /\ Head(calls).info \in Info
         /\ Head(calls).info.data # None
         /\ Tail(calls) \in Seq(Call) /\ Len(Tail(calls)) = Len(calls) - 1 /\ Len(calls) \in Nat
         /\ \A i \in 1..Len(Tail(calls)) : Tail(calls)[i] = calls[i + 1]
<1>1. calls \in Seq(Call) /\ \A i \in 1..Len(calls) : calls[i].info.data # None
  BY DEF IInv, TypeOK, LibraryOK, KnownOnline
<1>2. /\ Head(calls) \in Call /\ Head(calls) = calls[1] /\ Len(calls) \in Nat \ {0}
      /\ Tail(calls) \in Seq(Call) /\ Len(Tail(calls)) = Len(calls) - 1
      /\ \A i \in 1..Len(Tail(calls)) : Tail(calls)[i] = calls[i + 1]
  BY <1>1, TailFacts
<1>3. 1 \in 1..Len(calls)
  BY <1>2
<1>4. Head(calls).friend \in Friends /\ Head(calls).info \in Info
  BY <1>2 DEF Call
<1>5. QED
  BY <1>1, <1>2, <1>3, <1>4

(* What is left when the first call has been made.                          *)
LEMMA CallMade ==
  ASSUME IInv, calls # <<>>, calls' = Tail(calls), UNCHANGED <<book, taken>>
  PROVE  /\ KnownOnline' /\ CallsTrueOf(calls, book)' /\ DataTrueOf(calls, book)'
         /\ \A g : g # Head(calls).friend \/ Head(calls).kind # "connection"
                   => (DueIn(calls', "connection", g) <=> DueIn(calls, "connection", g))
         /\ \A g : g # Head(calls).friend \/ ~Online(Head(calls))
                   => (DueOnlineIn(calls', g) <=> DueOnlineIn(calls, g))
         /\ \/ DueIn(calls', "connection", Head(calls).friend)
            \/ Head(calls).info.status = book[Head(calls).friend].status
         /\ Online(Head(calls)) => \/ DueOnlineIn(calls', Head(calls).friend)
                                   \/ Head(calls).info.data = book[Head(calls).friend].data
<1> DEFINE c == Head(calls)
           f == Head(calls).friend
           s == Tail(calls)
<1>1. /\ c = calls[1] /\ 1 \in 1..Len(calls) /\ calls \in Seq(Call)
      /\ Len(s) = Len(calls) - 1 /\ Len(calls) \in Nat
      /\ \A i \in 1..Len(s) : s[i] = calls[i + 1] /\ i + 1 \in 1..Len(calls)
      /\ \A j \in 1+1..Len(calls) : j - 1 \in 1..Len(s) /\ calls[j] = s[j - 1]
  <2>1. calls \in Seq(Call)
    BY DEF IInv, TypeOK, LibraryOK
  <2>2. /\ c = calls[1] /\ 1 \in 1..Len(calls) /\ Len(s) = Len(calls) - 1 /\ Len(calls) \in Nat
        /\ \A i \in 1..Len(s) : s[i] = calls[i + 1]
    BY HeadFacts
  <2>3. \A j \in 1+1..Len(calls) : j - 1 \in 1..Len(s) /\ (j - 1) + 1 = j
    BY <2>2
  <2>4. \A i \in 1..Len(s) : i + 1 \in 1..Len(calls)
    BY <2>2
  <2>5. \A j \in 1+1..Len(calls) : s[j - 1] = calls[(j - 1) + 1]
    BY <2>2, <2>3
  <2>6. QED
    BY <2>1, <2>2, <2>3, <2>4, <2>5
<1>2. CallsTrueOf(s, book) /\ DataTrueOf(s, book)
  BY <1>1, CallsInTail, DataInTail DEF IInv
<1>3. KnownOnline'
  BY <1>1 DEF IInv, KnownOnline
<1> HIDE DEF s, c, f
<1>4. ASSUME NEW g, g # f \/ c.kind # "connection" PROVE DueIn(calls', "connection", g) <=> DueIn(calls, "connection", g)
  <2>1. ASSUME DueIn(calls', "connection", g) PROVE DueIn(calls, "connection", g)
    <3>1. PICK i \in 1..Len(s) : s[i].kind = "connection" /\ s[i].friend = g
      BY <2>1 DEF DueIn, s
    <3>2. QED
      BY <1>1, <3>1 DEF DueIn
  <2>2. ASSUME DueIn(calls, "connection", g) PROVE DueIn(calls', "connection", g)
    <3>1. PICK i \in 1..Len(calls) : calls[i].kind = "connection" /\ calls[i].friend = g
      BY <2>2 DEF DueIn
    <3>2. i \in 1+1..Len(calls)
      <4>1. i # 1
        BY <1>1, <1>4, <3>1 DEF c, f
      <4>2. QED
        BY <1>1, <4>1
    <3>3. i - 1 \in 1..Len(s) /\ s[i - 1] = calls[i]
      BY <1>1, <3>2
    <3>4. calls' = s
      BY DEF s
    <3>5. QED
      BY <3>1, <3>3, <3>4 DEF DueIn
  <2>3. QED
    BY <2>1, <2>2
<1>5. ASSUME NEW g, g # f \/ ~Online(c) PROVE DueOnlineIn(calls', g) <=> DueOnlineIn(calls, g)
  <2>1. ASSUME DueOnlineIn(calls', g) PROVE DueOnlineIn(calls, g)
    <3>1. PICK i \in 1..Len(s) : Online(s[i]) /\ s[i].friend = g
      BY <2>1 DEF DueOnlineIn, s
    <3>2. QED
      BY <1>1, <3>1 DEF DueOnlineIn
  <2>2. ASSUME DueOnlineIn(calls, g) PROVE DueOnlineIn(calls', g)
    <3>1. PICK i \in 1..Len(calls) : Online(calls[i]) /\ calls[i].friend = g
      BY <2>2 DEF DueOnlineIn
    <3>2. i \in 1+1..Len(calls)
      <4>1. i # 1
        BY <1>1, <1>5, <3>1 DEF c, f
      <4>2. QED
        BY <1>1, <4>1
    <3>3. i - 1 \in 1..Len(s) /\ s[i - 1] = calls[i]
      BY <1>1, <3>2
    <3>4. calls' = s
      BY DEF s
    <3>5. QED
      BY <3>1, <3>3, <3>4 DEF DueOnlineIn
  <2>3. QED
    BY <2>1, <2>2
<1>6. DueIn(calls', "connection", f) \/ c.info.status = book[f].status
  <2>1. CASE calls[1].info.status = book[calls[1].friend].status
    BY <1>1, <2>1 DEF c, f
  <2>2. CASE \E j \in 1+1..Len(calls) :
               calls[j].kind = "connection" /\ calls[j].friend = calls[1].friend
    <3>1. PICK j \in 1+1..Len(calls) :
            calls[j].kind = "connection" /\ calls[j].friend = calls[1].friend
      BY <2>2
    <3>2. j - 1 \in 1..Len(s) /\ s[j - 1] = calls[j] /\ calls[1].friend = f
      BY <1>1 DEF c, f
    <3>3. calls' = s
      BY DEF s
    <3>4. QED
      BY <3>1, <3>2, <3>3 DEF DueIn
  <2>3. CallsTrueOf(calls, book)
    BY DEF IInv
  <2>4. QED
    BY <1>1, <2>1, <2>2, <2>3 DEF CallsTrueOf
<1>7. Online(c) => DueOnlineIn(calls', f) \/ c.info.data = book[f].data
  <2>1. CASE calls[1].info.data = book[calls[1].friend].data
    BY <1>1, <2>1 DEF c, f
  <2>2. CASE \E j \in 1+1..Len(calls) : Online(calls[j]) /\ calls[j].friend = calls[1].friend
    <3>1. PICK j \in 1+1..Len(calls) : Online(calls[j]) /\ calls[j].friend = calls[1].friend
      BY <2>2
    <3>2. j - 1 \in 1..Len(s) /\ s[j - 1] = calls[j] /\ calls[1].friend = f
      BY <1>1 DEF c, f
    <3>3. calls' = s
      BY DEF s
    <3>4. QED
      BY <3>1, <3>2, <3>3 DEF DueOnlineIn
  <2>3. DataTrueOf(calls, book) /\ c = calls[1]
    BY <1>1 DEF IInv
  <2>4. QED
    BY <1>1, <2>1, <2>2, <2>3 DEF DataTrueOf
<1>8. CallsTrueOf(calls, book)' /\ DataTrueOf(calls, book)'
  BY <1>2 DEF s
<1>9. QED
  BY <1>3, <1>4, <1>5, <1>6, <1>7, <1>8 DEF c, f

LEMMA ConnectionStep ==
  ASSUME IInv, OnFriendConnection
  PROVE  IInv'
<1> DEFINE c == Head(calls)
           m == [friend |-> c.friend, status |-> c.info.status]
<1>1. /\ calls # <<>> /\ c.kind = "connection" /\ calls' = Tail(calls)
      /\ inbox' = IF Registered THEN Append(inbox, m) ELSE inbox
      /\ UNCHANGED <<members, book, version, rowed, row, pc, taken, todo, listed, list,
                     fetched, events, raced>>
  BY DEF OnFriendConnection, table
<1>2. /\ c \in Call /\ c.friend \in Friends /\ c.info \in Info /\ Tail(calls) \in Seq(Call)
  BY <1>1, HeadFacts
<1>3. /\ KnownOnline' /\ CallsTrueOf(calls, book)' /\ DataTrueOf(calls, book)'
      /\ \A g : g # c.friend => (DueIn(calls', "connection", g) <=> DueIn(calls, "connection", g))
      /\ \A g : DueOnlineIn(calls', g) <=> DueOnlineIn(calls, g)
      /\ DueIn(calls', "connection", c.friend) \/ c.info.status = book[c.friend].status
  <2>1. ~Online(c)
    BY <1>1 DEF Online
  <2>2. QED
    BY <1>1, <2>1, CallMade
<1>4. /\ m \in Told /\ m.friend = c.friend /\ m.status = c.info.status
      /\ inbox \in Seq(Told)
  BY <1>2, InfoFacts DEF Told, IInv, TypeOK, ScreenOK
<1> HIDE DEF c, m
<1>5. Registered' <=> Registered
  BY <1>1 DEF Registered
<1>6. inbox' \in Seq(Told) /\ (~Registered => inbox = <<>> /\ inbox' = <<>>)
  BY <1>1, <1>4 DEF IInv, TypeOK, ScreenOK
<1>7. TypeOK'
  <2>1. LibraryOK'
    BY <1>1, <1>2 DEF IInv, TypeOK, LibraryOK
  <2>2. TableOK'
    BY <1>1 DEF IInv, TypeOK, TableOK
  <2>3. ScreenOK'
    BY <1>1, <1>5, <1>6 DEF IInv, TypeOK, ScreenOK
  <2>4. QED
    BY <2>1, <2>2, <2>3 DEF TypeOK
<1>8. DataKept'
  <2>1. \A g : Overwrites(g)' <=> Overwrites(g)
    BY <1>1 DEF Overwrites
  <2>2. QED
    BY <1>1, <1>3, <2>1 DEF IInv, DataKept
<1>9. CASE ~Registered
  <2>1. ToldTrue'
    BY <1>6, <1>9 DEF ToldTrue, Due
  <2>2. ~fetched'
    BY <1>1, <1>9 DEF Registered, IInv, StatusOnTheWay, Due, InTheAir
  <2>3. StatusOnTheWay'
    BY <2>2 DEF StatusOnTheWay, Due, InTheAir
  <2>4. QED
    BY <1>3, <1>7, <1>8, <2>1, <2>3 DEF IInv
<1>10. CASE Registered
  <2>1. /\ inbox' = Append(inbox, m) /\ Len(inbox) \in Nat /\ Len(inbox') = Len(inbox) + 1
        /\ \A i \in 1..Len(inbox) : inbox'[i] = inbox[i]
        /\ inbox'[Len(inbox) + 1] = m
    BY <1>1, <1>4, <1>10, AppendFacts
  <2>2. ToldTrue'
    <3> SUFFICES ASSUME NEW i \in 1..Len(inbox')
                 PROVE  \/ DueIn(calls', "connection", inbox'[i].friend)
                        \/ \E j \in i+1..Len(inbox') : inbox'[j].friend = inbox'[i].friend
                        \/ inbox'[i].status = book'[inbox'[i].friend].status
      BY DEF ToldTrue, Due
    <3>1. CASE i = Len(inbox) + 1
      BY <1>1, <1>3, <1>4, <2>1, <3>1
    <3>2. CASE i \in 1..Len(inbox) /\ inbox[i].friend = c.friend
      <4>1. Len(inbox) + 1 \in i+1..Len(inbox')
        BY <2>1, <3>2
      <4>2. QED
        BY <1>4, <2>1, <3>2, <4>1
    <3>3. CASE i \in 1..Len(inbox) /\ inbox[i].friend # c.friend
      <4>1. inbox'[i] = inbox[i] /\ book' = book
        BY <1>1, <2>1, <3>3
      <4>2. CASE DueIn(calls, "connection", inbox[i].friend)
        BY <1>3, <3>3, <4>1, <4>2
      <4>3. CASE inbox[i].status = book[inbox[i].friend].status
        BY <4>1, <4>3
      <4>4. CASE \E j \in i+1..Len(inbox) : inbox[j].friend = inbox[i].friend
        <5>1. PICK j \in i+1..Len(inbox) : inbox[j].friend = inbox[i].friend
          BY <4>4
        <5>2. j \in i+1..Len(inbox') /\ inbox'[j] = inbox[j]
          BY <2>1, <3>3, <5>1
        <5>3. QED
          BY <4>1, <5>1, <5>2
      <4>5. QED
        BY <3>3, <4>2, <4>3, <4>4 DEF IInv, ToldTrue, Due
    <3>4. QED
      BY <2>1, <3>1, <3>2, <3>3
  <2>3. ToldIn(inbox', c.friend)
    <3>1. Len(inbox) + 1 \in 1..Len(inbox')
      BY <2>1
    <3>2. QED
      BY <1>4, <2>1, <3>1 DEF ToldIn
  <2>4. ASSUME NEW g, ToldIn(inbox, g) PROVE ToldIn(inbox', g)
    <3>1. PICK i \in 1..Len(inbox) : inbox[i].friend = g
      BY <2>4 DEF ToldIn
    <3>2. i \in 1..Len(inbox') /\ inbox'[i] = inbox[i]
      BY <2>1
    <3>3. QED
      BY <3>1, <3>2 DEF ToldIn
  <2>5. StatusOnTheWay'
    BY <1>1, <1>3, <2>3, <2>4 DEF IInv, StatusOnTheWay, Due, InTheAir
  <2>6. QED
    BY <1>3, <1>7, <1>8, <2>2, <2>5 DEF IInv
<1>11. QED
  BY <1>9, <1>10

LEMMA InfoStep ==
  ASSUME IInv, OnFriendInfoChanged
  PROVE  IInv'
<1> DEFINE c == Head(calls)
           f == c.friend
<1>1. /\ calls # <<>> /\ c.kind = "info" /\ calls' = Tail(calls)
      /\ row' = IF c.info.status = "online" /\ c.friend \in rowed
                THEN [row EXCEPT ![c.friend] = c.info] ELSE row
      /\ raced' = IF c.info.status = "offline" THEN raced
                  ELSE IF Overwrites(c.friend) /\ taken[c.friend].data # c.info.data
                  THEN raced \cup {c.friend} ELSE raced \ {c.friend}
      /\ UNCHANGED <<members, book, version, rowed, pc, taken, todo, listed, list, inbox,
                     fetched, events>>
  BY DEF OnFriendInfoChanged, screen
<1>2. /\ c.friend \in Friends /\ c.info \in Info /\ Tail(calls) \in Seq(Call)
      /\ c.info.status \in Status /\ row \in [Friends -> Info]
  BY <1>1, HeadFacts, InfoFacts DEF IInv, TypeOK, TableOK
<1>3. /\ KnownOnline' /\ CallsTrueOf(calls, book)' /\ DataTrueOf(calls, book)'
      /\ \A g : DueIn(calls', "connection", g) <=> DueIn(calls, "connection", g)
      /\ \A g : g # c.friend \/ ~Online(c) => (DueOnlineIn(calls', g) <=> DueOnlineIn(calls, g))
      /\ DueIn(calls', "connection", c.friend) \/ c.info.status = book[c.friend].status
      /\ Online(c) => DueOnlineIn(calls', c.friend) \/ c.info.data = book[c.friend].data
  BY <1>1, CallMade
<1>4. Online(c) <=> c.info.status = "online"
  BY <1>1 DEF Online
<1> HIDE DEF c
<1>5. row' \in [Friends -> Info] /\ \A g \in Friends \ {f} : row'[g] = row[g]
  BY <1>1, <1>2
<1>6. TypeOK'
  <2>1. LibraryOK'
    BY <1>1, <1>2 DEF IInv, TypeOK, LibraryOK
  <2>2. raced' \subseteq Friends
    BY <1>1, <1>2 DEF IInv, TypeOK, TableOK
  <2>3. TableOK'
    BY <1>1, <1>5, <2>2 DEF IInv, TypeOK, TableOK
  <2>4. ScreenOK'
    BY <1>1 DEF IInv, TypeOK, ScreenOK, Registered
  <2>5. QED
    BY <2>1, <2>3, <2>4 DEF TypeOK
<1>7. ToldTrue'
  BY <1>1, <1>3 DEF IInv, ToldTrue, Due
<1>8. StatusOnTheWay'
  <2>1. ASSUME ~DueIn(calls', "connection", f)
        PROVE  row'[f].status = row[f].status \/ row'[f].status = book[f].status
    BY <1>1, <1>2, <1>3, <2>1
  <2>2. members \subseteq Friends /\ StatusOnTheWay
    BY DEF IInv, TypeOK, LibraryOK
  <2>3. \A g \in members :
          \/ DueIn(calls', "connection", g)
          \/ row'[g].status = row[g].status \/ row'[g].status = book[g].status
    BY <1>5, <2>1, <2>2
  <2>4. QED
    BY <1>1, <1>3, <2>2, <2>3 DEF StatusOnTheWay, Due, InTheAir
<1>9. DataKept'
  <2>1. \A g : Overwrites(g)' <=> Overwrites(g)
    BY <1>1 DEF Overwrites
  <2>2. DataKept /\ rowed \cup todo \subseteq Friends
    BY DEF IInv, TypeOK, LibraryOK, TableOK, ScreenOK
  <2> SUFFICES ASSUME NEW g \in (rowed \cup todo) \ raced', ~DueOnlineIn(calls', g),
                      book[g].data # None
               PROVE  book[g].data = IF Overwrites(g) THEN taken[g].data ELSE row'[g].data
    BY <1>1, <2>1 DEF DataKept
  <2>3. CASE c.info.status = "offline"
    <3>1. row' = row /\ raced' = raced /\ ~DueOnlineIn(calls, g)
      BY <1>1, <1>3, <1>4, <2>3
    <3>2. QED
      BY <2>2, <3>1 DEF DataKept
  <2>4. CASE c.info.status = "online" /\ g # f
    <3>1. row'[g] = row[g] /\ g \notin raced /\ ~DueOnlineIn(calls, g)
      BY <1>1, <1>3, <1>5, <2>2, <2>4
    <3>2. QED
      BY <2>2, <3>1 DEF DataKept
  <2>5. CASE c.info.status = "online" /\ g = f
    <3>1. c.info.data = book[g].data
      BY <1>3, <1>4, <2>5
    <3>2. CASE Overwrites(g)
      BY <1>1, <2>5, <3>1, <3>2
    <3>3. CASE ~Overwrites(g)
      <4>1. g \in rowed
        BY <3>3 DEF Overwrites
      <4>2. row'[g] = c.info
        BY <1>1, <1>2, <2>5, <4>1
      <4>3. QED
        BY <3>1, <3>3, <4>2
    <3>4. QED
      BY <3>2, <3>3
  <2>6. QED
    BY <1>2, <2>3, <2>4, <2>5 DEF Status
<1>10. QED
  BY <1>3, <1>6, <1>7, <1>8, <1>9 DEF IInv

-----------------------------------------------------------------------------
(* The screen.                                                              *)

(* What a step of the screen leaves alone, whatever it does to the rest.    *)
LEMMA LibraryStays ==
  ASSUME IInv, UNCHANGED library, events' \in Nat
  PROVE  /\ LibraryOK' /\ CallsTrueOf(calls, book)' /\ DataTrueOf(calls, book)'
         /\ UNCHANGED <<members, book, version, calls>>
         /\ UNCHANGED taken => KnownOnline'
         /\ UNCHANGED inbox => ToldTrue'
<1>1. UNCHANGED <<members, book, version, calls>>
  BY DEF library
<1>2. LibraryOK' /\ CallsTrueOf(calls, book)' /\ DataTrueOf(calls, book)'
  BY <1>1 DEF IInv, TypeOK, LibraryOK, CallsTrueOf, DataTrueOf
<1>3. UNCHANGED taken => KnownOnline'
  BY <1>1 DEF IInv, KnownOnline
<1>4. UNCHANGED inbox => ToldTrue'
  BY <1>1 DEF IInv, ToldTrue, Due
<1>5. QED
  BY <1>1, <1>2, <1>3, <1>4

LEMMA WriteStep ==
  ASSUME IInv, NEW f \in Friends, WriteRow(f)
  PROVE  IInv'
<1>1. /\ pc = "write" /\ f \in todo
      /\ row' = [row EXCEPT ![f] =
                   IF f \in rowed /\ taken[f].status = "offline"
                   THEN [row[f] EXCEPT !.status = "offline"] ELSE taken[f]]
      /\ rowed' = rowed \cup {f} /\ todo' = todo \ {f}
      /\ UNCHANGED library
      /\ UNCHANGED <<pc, taken, listed, list, inbox, fetched, events, raced>>
  BY DEF WriteRow
<1>2. /\ row \in [Friends -> Info] /\ taken[f] \in Info /\ taken[f].status \in Status
      /\ rowed \subseteq members /\ todo \subseteq members /\ events \in Nat
      /\ members \subseteq Friends
  BY InfoFacts DEF IInv, TypeOK, LibraryOK, TableOK, ScreenOK
<1>3. /\ LibraryOK' /\ CallsTrueOf(calls, book)' /\ DataTrueOf(calls, book)'
      /\ UNCHANGED <<members, book, version, calls>> /\ KnownOnline' /\ ToldTrue'
  BY <1>1, <1>2, LibraryStays
<1>4. [row[f] EXCEPT !.status = "offline"] \in Info
  BY <1>2 DEF Info, Status
<1>5. /\ row' \in [Friends -> Info] /\ \A g \in Friends \ {f} : row'[g] = row[g]
      /\ row'[f] = IF f \in rowed /\ taken[f].status = "offline"
                   THEN [row[f] EXCEPT !.status = "offline"] ELSE taken[f]
  BY <1>1, <1>2, <1>4
<1>6. /\ row'[f].status = taken[f].status
      /\ row'[f].data = IF f \in rowed /\ taken[f].status = "offline"
                        THEN row[f].data ELSE taken[f].data
  <2>1. CASE f \in rowed /\ taken[f].status = "offline"
    <3>1. row'[f] = [row[f] EXCEPT !.status = "offline"] /\ row[f] \in Info
      BY <1>2, <1>5, <2>1
    <3>2. row'[f].status = "offline" /\ row'[f].data = row[f].data
      BY <3>1 DEF Info
    <3>3. QED
      BY <2>1, <3>2
  <2>2. CASE ~(f \in rowed /\ taken[f].status = "offline")
    BY <1>5, <2>2
  <2>3. QED
    BY <2>1, <2>2
<1>7. TypeOK'
  <2>1. TableOK'
    BY <1>1, <1>2, <1>3, <1>5 DEF IInv, TypeOK, TableOK
  <2>2. ScreenOK'
    BY <1>1, <1>2, <1>3 DEF IInv, TypeOK, ScreenOK, Registered
  <2>3. QED
    BY <1>3, <2>1, <2>2 DEF TypeOK
<1>8. StatusOnTheWay'
  BY <1>1, <1>2, <1>3, <1>5, <1>6 DEF IInv, StatusOnTheWay, Due, InTheAir
<1>9. DataKept'
  <2> SUFFICES ASSUME NEW g \in (rowed \cup todo) \ raced, ~DueOnlineIn(calls, g),
                      book[g].data # None
               PROVE  book[g].data = IF Overwrites(g)' THEN taken[g].data ELSE row'[g].data
    BY <1>1, <1>3 DEF DataKept
  <2>1. book[g].data = IF Overwrites(g) THEN taken[g].data ELSE row[g].data
    BY DEF IInv, DataKept
  <2>2. CASE g = f
    <3>1. ~Overwrites(g)'
      BY <1>1, <2>2 DEF Overwrites
    <3>2. Overwrites(g) <=> ~(f \in rowed /\ taken[f].status = "offline")
      BY <1>1, <1>2, <2>2 DEF Overwrites, Status
    <3>3. QED
      BY <1>6, <2>1, <2>2, <3>1, <3>2
  <2>3. CASE g # f
    <3>1. Overwrites(g)' <=> Overwrites(g)
      BY <1>1, <2>3 DEF Overwrites
    <3>2. row'[g] = row[g]
      BY <1>2, <1>5, <2>3
    <3>3. QED
      BY <2>1, <3>1, <3>2
  <2>4. QED
    BY <2>2, <2>3
<1>10. QED
  BY <1>3, <1>7, <1>8, <1>9 DEF IInv

LEMMA SnapshotStep ==
  ASSUME IInv, GetFriends
  PROVE  IInv'
<1>1. /\ pc = "getFriends" /\ pc' = "write" /\ taken' = book /\ todo' = members /\ fetched' = TRUE
      /\ raced' = {f \in raced : f \in rowed /\ book[f].status = "offline"}
      /\ UNCHANGED library
      /\ UNCHANGED <<rowed, row, listed, list, inbox, events>>
  BY DEF GetFriends, table
<1>2. /\ book \in [Friends -> Info] /\ rowed \subseteq members /\ todo = {}
      /\ events \in Nat /\ members \subseteq Friends
  BY <1>1 DEF IInv, TypeOK, LibraryOK, TableOK, ScreenOK
<1>3. /\ LibraryOK' /\ CallsTrueOf(calls, book)' /\ DataTrueOf(calls, book)'
      /\ UNCHANGED <<members, book, version, calls>> /\ ToldTrue'
  BY <1>1, <1>2, LibraryStays
<1>4. KnownOnline'
  BY <1>1, <1>3 DEF IInv, KnownOnline
<1>5. TypeOK'
  <2>1. TableOK'
    BY <1>1, <1>2, <1>3 DEF IInv, TypeOK, TableOK
  <2>2. Registered' <=> Registered
    BY <1>1 DEF Registered
  <2>3. fetched' \in BOOLEAN
    BY <1>1
  <2>4. ScreenOK'
    BY <1>1, <1>2, <1>3, <2>2, <2>3 DEF IInv, TypeOK, ScreenOK, PC
  <2>5. QED
    BY <1>3, <2>1, <2>4 DEF TypeOK
<1>6. StatusOnTheWay'
  BY <1>1, <1>2, <1>3 DEF StatusOnTheWay
<1>7. DataKept'
  <2> SUFFICES ASSUME NEW g \in (rowed \cup members) \ raced', ~DueOnlineIn(calls, g),
                      book[g].data # None
               PROVE  book[g].data = IF Overwrites(g)' THEN book[g].data ELSE row[g].data
    BY <1>1, <1>3 DEF DataKept
  <2>1. CASE book[g].status = "online" \/ g \notin rowed
    <3>1. Overwrites(g)'
      BY <1>1, <1>2, <2>1 DEF Overwrites
    <3>2. QED
      BY <3>1
  <2>2. CASE g \in rowed /\ book[g].status # "online"
    <3>1. book[g].status = "offline"
      BY <1>2, <2>2 DEF Info, Status
    <3>2. g \notin raced /\ ~Overwrites(g)
      BY <1>1, <1>2, <2>2, <3>1 DEF Overwrites
    <3>3. book[g].data = row[g].data
      BY <2>2, <3>2 DEF IInv, DataKept
    <3>4. QED
      BY <3>3
  <2>3. QED
    BY <2>1, <2>2
<1>8. QED
  BY <1>3, <1>4, <1>5, <1>6, <1>7 DEF IInv

LEMMA ReceiveStep ==
  ASSUME IInv, OnReceive
  PROVE  IInv'
<1> DEFINE m == Head(inbox)
<1>1. /\ pc = "open" /\ inbox # <<>> /\ inbox' = Tail(inbox)
      /\ list' = IF m.friend \in listed THEN [list EXCEPT ![m.friend] = m.status] ELSE list
      /\ UNCHANGED library
      /\ UNCHANGED <<rowed, row, pc, taken, todo, listed, fetched, events, raced>>
  BY DEF OnReceive, table
<1>2. /\ inbox \in Seq(Told) /\ todo = {} /\ events \in Nat
      /\ listed \subseteq members /\ members \subseteq Friends /\ list \in [Friends -> Status]
  BY <1>1 DEF IInv, TypeOK, LibraryOK, TableOK, ScreenOK
<1>3. /\ Tail(inbox) \in Seq(Told) /\ Len(inbox) \in Nat \ {0} /\ Len(Tail(inbox)) = Len(inbox) - 1
      /\ \A i \in 1..Len(Tail(inbox)) : Tail(inbox)[i] = inbox[i + 1]
      /\ m = inbox[1] /\ m \in Told
  BY <1>1, <1>2, TailFacts
<1>4. /\ inbox' \in Seq(Told) /\ Len(inbox') = Len(inbox) - 1 /\ 1 \in 1..Len(inbox)
      /\ \A i \in 1..Len(inbox') : inbox'[i] = inbox[i + 1] /\ i + 1 \in 1..Len(inbox)
      /\ m.friend \in Friends /\ m.status \in Status
  BY <1>1, <1>3 DEF Told
<1> HIDE DEF m
<1>5. \A j \in 1+1..Len(inbox) : j - 1 \in 1..Len(inbox') /\ inbox'[j - 1] = inbox[j]
  <2>1. \A j \in 1+1..Len(inbox) : j - 1 \in 1..Len(inbox') /\ (j - 1) + 1 = j
    BY <1>3, <1>4
  <2>2. QED
    BY <1>4, <2>1
<1>6. /\ LibraryOK' /\ CallsTrueOf(calls, book)' /\ DataTrueOf(calls, book)'
      /\ UNCHANGED <<members, book, version, calls>> /\ KnownOnline'
  BY <1>1, <1>2, LibraryStays
<1>7. TypeOK'
  <2>1. TableOK'
    BY <1>1, <1>6 DEF IInv, TypeOK, TableOK
  <2>2. list' \in [Friends -> Status]
    BY <1>1, <1>2, <1>4
  <2>3. Registered'
    BY <1>1 DEF Registered
  <2>4. ScreenOK'
    BY <1>1, <1>4, <1>6, <2>2, <2>3 DEF IInv, TypeOK, ScreenOK
  <2>5. QED
    BY <1>6, <2>1, <2>4 DEF TypeOK
<1>8. ToldTrue'
  <2> SUFFICES ASSUME NEW i \in 1..Len(inbox')
               PROVE  \/ DueIn(calls, "connection", inbox'[i].friend)
                      \/ \E j \in i+1..Len(inbox') : inbox'[j].friend = inbox'[i].friend
                      \/ inbox'[i].status = book[inbox'[i].friend].status
    BY <1>6 DEF ToldTrue, Due
  <2>1. inbox'[i] = inbox[i + 1] /\ i + 1 \in 1..Len(inbox)
    BY <1>4
  <2>2. CASE \E j \in (i + 1)+1..Len(inbox) : inbox[j].friend = inbox[i + 1].friend
    <3>1. PICK j \in (i + 1)+1..Len(inbox) : inbox[j].friend = inbox[i + 1].friend
      BY <2>2
    <3>2. j - 1 \in i+1..Len(inbox')
      BY <1>3, <1>4, <3>1
    <3>3. j \in 1+1..Len(inbox)
      BY <1>3, <1>4, <3>1
    <3>4. inbox'[j - 1] = inbox[j]
      BY <1>5, <3>3
    <3>5. QED
      BY <2>1, <3>1, <3>2, <3>4
  <2>3. QED
    BY <2>1, <2>2 DEF IInv, ToldTrue, Due
<1>9. \A g : g # m.friend /\ ToldIn(inbox, g) => ToldIn(inbox', g)
  <2> SUFFICES ASSUME NEW g, g # m.friend, ToldIn(inbox, g) PROVE ToldIn(inbox', g)
    OBVIOUS
  <2>1. PICK i \in 1..Len(inbox) : inbox[i].friend = g
    BY DEF ToldIn
  <2>2. i # 1
    BY <1>3, <2>1 DEF m
  <2>3. i \in 1+1..Len(inbox)
    BY <1>3, <2>2
  <2>4. QED
    BY <1>5, <2>1, <2>3 DEF ToldIn
<1>10. \/ DueIn(calls, "connection", m.friend)
       \/ ToldIn(inbox', m.friend)
       \/ m.status = book[m.friend].status
  <2>1. CASE \E j \in 1+1..Len(inbox) : inbox[j].friend = inbox[1].friend
    BY <1>3, <1>5, <2>1 DEF ToldIn, m
  <2>2. QED
    BY <1>3, <1>4, <2>1 DEF IInv, ToldTrue, Due, m
<1>11. StatusOnTheWay'
  <2>1. \A g \in Friends : g # m.friend => list'[g] = list[g]
    BY <1>1, <1>2, <1>4
  <2>2. m.friend \in listed => list'[m.friend] = m.status
    BY <1>1, <1>2, <1>4
  <2>3. ASSUME fetched, NEW g \in members,
               ~DueIn(calls, "connection", g), ~ToldIn(inbox', g), g \in listed
        PROVE  list'[g] = book[g].status
    <3>1. CASE g = m.friend
      BY <1>10, <2>2, <2>3, <3>1
    <3>2. CASE g # m.friend
      <4>1. ~ToldIn(inbox, g) /\ list'[g] = list[g]
        BY <1>2, <1>9, <2>1, <2>3, <3>2
      <4>2. QED
        BY <1>1, <2>3, <4>1 DEF IInv, StatusOnTheWay, Due, InTheAir
    <3>3. QED
      BY <3>1, <3>2
  <2>4. fetched' = fetched /\ pc' = "open" /\ todo' = {} /\ listed' = listed
        /\ calls' = calls /\ book' = book /\ members' = members
    BY <1>1, <1>2, <1>6
  <2>5. QED
    BY <2>3, <2>4 DEF StatusOnTheWay, Due, InTheAir
<1>12. DataKept'
  BY <1>1, <1>6 DEF IInv, DataKept, Overwrites
<1>13. QED
  BY <1>6, <1>7, <1>8, <1>11, <1>12 DEF IInv

(* The other steps of onCreate. *)
LEMMA CreateStep ==
  ASSUME IInv, Open \/ Register \/ GetFriendsThrows \/ Written \/ Refresh
  PROVE  IInv'
<1>1. /\ UNCHANGED library
      /\ UNCHANGED <<rowed, row, taken, todo, inbox, fetched, events, raced>>
  BY DEF Open, Register, GetFriendsThrows, Written, Refresh, table
<1>2. todo = {} /\ events \in Nat /\ row \in [Friends -> Info] /\ listed \subseteq rowed
  BY DEF Open, Register, GetFriendsThrows, Written, Refresh, IInv, TypeOK, LibraryOK, TableOK, ScreenOK
<1>3. /\ LibraryOK' /\ CallsTrueOf(calls, book)' /\ DataTrueOf(calls, book)'
      /\ UNCHANGED <<members, book, version, calls>> /\ KnownOnline' /\ ToldTrue'
  BY <1>1, <1>2, LibraryStays
<1>4. /\ pc' \in PC /\ pc' # "write" /\ (~Registered' => inbox = <<>>)
      /\ listed' \subseteq rowed /\ list' \in [Friends -> Status]
  <2>1. CASE Open \/ Register \/ GetFriendsThrows \/ Written
    BY <1>2, <2>1
    DEF Open, Register, GetFriendsThrows, Written, Registered, PC, IInv, TypeOK, ScreenOK
  <2>2. CASE Refresh
    <3>1. \A f \in Friends : row[f].status \in Status
      BY <1>2, InfoFacts
    <3>2. QED
      BY <2>2, <3>1 DEF Refresh, Registered, PC
  <2>3. QED
    BY <2>1, <2>2
<1>5. TypeOK'
  <2>1. TableOK'
    BY <1>1, <1>3 DEF IInv, TypeOK, TableOK
  <2>2. /\ taken' \in [Friends -> Info] /\ todo' = {} /\ inbox' \in Seq(Told)
        /\ rowed' = rowed
    BY <1>1, <1>2 DEF IInv, TypeOK, ScreenOK
  <2>3. fetched' \in BOOLEAN
    BY <1>1 DEF IInv, TypeOK, ScreenOK
  <2>4. ~Registered' => inbox' = <<>>
    BY <1>1, <1>4
  <2>5. ScreenOK'
    BY <1>4, <2>2, <2>3, <2>4 DEF ScreenOK
  <2>6. QED
    BY <1>3, <2>1, <2>5 DEF TypeOK
<1>6. StatusOnTheWay'
  <2>1. rowed \subseteq members /\ members \subseteq Friends
    BY DEF IInv, TypeOK, TableOK, LibraryOK
  <2>2. CASE Open \/ Register \/ GetFriendsThrows
    BY <1>1, <2>2 DEF Open, Register, GetFriendsThrows, IInv, StatusOnTheWay
  <2>3. CASE Written
    BY <1>1, <1>2, <1>3, <2>3 DEF Written, IInv, StatusOnTheWay, Due, InTheAir
  <2>4. CASE Refresh
    <3>1. \A f \in Friends : list'[f] = row[f].status
      BY <2>4 DEF Refresh
    <3>2. QED
      BY <1>1, <1>2, <1>3, <2>1, <2>4, <3>1 DEF Refresh, IInv, StatusOnTheWay, Due, InTheAir
  <2>5. QED
    BY <2>2, <2>3, <2>4
<1>7. DataKept'
  BY <1>1, <1>3 DEF IInv, DataKept, Overwrites
<1>8. QED
  BY <1>3, <1>5, <1>6, <1>7 DEF IInv

LEMMA UnknownFacts == Unknown \in Info /\ Unknown.status = "offline" /\ Unknown.data = None
BY DEF Unknown, Info, Status, Data

LEMMA CloseStep ==
  ASSUME IInv, Close
  PROVE  IInv'
<1>1. /\ pc = "open" /\ pc' = "closed" /\ todo' = {} /\ listed' = {} /\ inbox' = <<>>
      /\ taken' = [f \in Friends |-> Unknown] /\ list' = [f \in Friends |-> "offline"]
      /\ fetched' = FALSE
      /\ UNCHANGED library /\ UNCHANGED <<rowed, row, events, raced>>
  BY DEF Close, ScreenGone, table
<1>2. events \in Nat /\ todo = {}
  BY <1>1 DEF IInv, TypeOK, LibraryOK, ScreenOK
<1>3. /\ LibraryOK' /\ CallsTrueOf(calls, book)' /\ DataTrueOf(calls, book)'
      /\ UNCHANGED <<members, book, version, calls>>
  BY <1>1, <1>2, LibraryStays
<1>4. KnownOnline'
  BY <1>1, <1>3, UnknownFacts DEF IInv, KnownOnline
<1>5. TypeOK'
  <2>1. TableOK'
    BY <1>1, <1>3 DEF IInv, TypeOK, TableOK
  <2>2. fetched' \in BOOLEAN
    BY <1>1
  <2>3. ScreenOK'
    BY <1>1, <1>3, <2>2, UnknownFacts DEF ScreenOK, PC, Status
  <2>4. QED
    BY <1>3, <2>1, <2>3 DEF TypeOK
<1>6. ToldTrue' /\ StatusOnTheWay'
  BY <1>1 DEF ToldTrue, StatusOnTheWay
<1>7. DataKept'
  BY <1>1, <1>2, <1>3 DEF IInv, DataKept, Overwrites
<1>8. QED
  BY <1>3, <1>4, <1>5, <1>6, <1>7 DEF IInv

LEMMA KillStep ==
  ASSUME IInv, Kill
  PROVE  IInv'
<1>1. /\ pc' = "closed" /\ todo' = {} /\ listed' = {} /\ inbox' = <<>> /\ calls' = <<>>
      /\ taken' = [f \in Friends |-> Unknown] /\ list' = [f \in Friends |-> "offline"]
      /\ book' = [f \in Friends |-> Unknown]
      /\ fetched' = FALSE /\ raced' = {}
      /\ UNCHANGED <<members, version, rowed, row, events>>
  BY DEF Kill, ScreenGone, table
<1>2. LibraryOK'
  BY <1>1, UnknownFacts DEF IInv, TypeOK, LibraryOK
<1>3. KnownOnline' /\ CallsTrueOf(calls, book)' /\ DataTrueOf(calls, book)'
  BY <1>1, UnknownFacts DEF KnownOnline, CallsTrueOf, DataTrueOf
<1>4. TypeOK'
  <2>1. TableOK'
    BY <1>1 DEF IInv, TypeOK, TableOK
  <2>2. fetched' \in BOOLEAN
    BY <1>1
  <2>3. ScreenOK'
    BY <1>1, <2>2, UnknownFacts DEF ScreenOK, PC, Status
  <2>4. QED
    BY <1>2, <2>1, <2>3 DEF TypeOK
<1>5. ToldTrue' /\ StatusOnTheWay'
  BY <1>1 DEF ToldTrue, StatusOnTheWay
<1>6. DataKept'
  <2>1. rowed' \cup todo' \subseteq Friends
    BY <1>1 DEF IInv, TypeOK, LibraryOK, TableOK
  <2>2. QED
    BY <1>1, <2>1, UnknownFacts DEF DataKept
<1>7. QED
  BY <1>3, <1>4, <1>5, <1>6 DEF IInv

LEMMA InitIInv == Init => IInv
<1> SUFFICES ASSUME Init PROVE IInv
  OBVIOUS
<1> USE DEF Init
<1>1. fetched \in BOOLEAN /\ ~fetched
  BY Zenon
<1>2. TypeOK
  <2>1. LibraryOK /\ TableOK
    BY UnknownFacts DEF LibraryOK, TableOK
  <2>2. ScreenOK
    BY <1>1, UnknownFacts DEF ScreenOK, PC, Status
  <2>3. QED
    BY <2>1, <2>2 DEF TypeOK
<1>3. KnownOnline /\ CallsTrueOf(calls, book) /\ DataTrueOf(calls, book)
  BY UnknownFacts DEF KnownOnline, CallsTrueOf, DataTrueOf
<1>4. ToldTrue /\ StatusOnTheWay /\ DataKept
  BY <1>1 DEF ToldTrue, StatusOnTheWay, DataKept
<1>5. QED
  BY <1>2, <1>3, <1>4 DEF IInv

-----------------------------------------------------------------------------

LEMMA InductiveStep == IInv /\ [Next]_vars => IInv'
<1> SUFFICES ASSUME IInv, [Next]_vars PROVE IInv'
  OBVIOUS
<1>1. ASSUME NEW f \in Friends, FriendNext(f) PROVE IInv'
  BY <1>1, FriendStep, SilentStep, WriteStep DEF FriendNext
<1>2. CASE OnFriendConnection
  BY <1>2, ConnectionStep
<1>3. CASE OnFriendInfoChanged
  BY <1>3, InfoStep
<1>4. CASE ScreenNext
  BY <1>4, CreateStep, SnapshotStep, ReceiveStep, CloseStep DEF ScreenNext
<1>5. CASE Kill
  BY <1>5, KillStep
<1>6. CASE UNCHANGED vars
  <2>1. UNCHANGED library /\ UNCHANGED <<rowed, row, pc, taken, todo, listed, list, inbox, fetched,
                                         events, raced>>
    BY <1>6 DEF vars, table, screen
  <2>2. events \in Nat
    BY DEF IInv, TypeOK, LibraryOK
  <2>3. /\ LibraryOK' /\ CallsTrueOf(calls, book)' /\ DataTrueOf(calls, book)'
        /\ UNCHANGED <<members, book, version, calls>> /\ KnownOnline' /\ ToldTrue'
    BY <2>1, <2>2, LibraryStays
  <2>4. TableOK' /\ ScreenOK'
    BY <2>1, <2>3 DEF IInv, TypeOK, TableOK, ScreenOK, Registered
  <2>5. StatusOnTheWay' /\ DataKept'
    BY <2>1, <2>3 DEF IInv, StatusOnTheWay, Due, InTheAir, DataKept, Overwrites
  <2>6. QED
    BY <2>3, <2>4, <2>5 DEF IInv, TypeOK
<1>7. QED
  BY <1>1, <1>2, <1>3, <1>4, <1>5, <1>6 DEF Next

LEMMA Invariance == Spec => []IInv
BY InitIInv, InductiveStep, PTL DEF Spec

(* Library, table and screen keep their types; a receiver that is not       *)
(* registered is sent nothing.                                              *)
THEOREM TypeCorrect == Spec => []TypeOK
<1>1. IInv => TypeOK
  BY DEF IInv
<1>2. QED
  BY <1>1, Invariance, PTL

(* A contact screen that got the library's list shows who is online as soon *)
(* as all calls and broadcasts have arrived (FriendlistActivity.onCreate    *)
(* and onReceive).                                                          *)
THEOREM ScreenShowsStatus == Spec => []StatusShown
<1>1. IInv => StatusShown
  BY DEF IInv, TypeOK, TableOK, ScreenOK, StatusOnTheWay, StatusShown
<1>2. QED
  BY <1>1, Invariance, PTL

(* A row of friend_list has the library's data once its calls were made,    *)
(* unless an older list was written over it (updateFriendList,              *)
(* updateFriendInfo).                                                       *)
THEOREM TableIsCurrent == Spec => []RowCurrent
<1>1. IInv => RowCurrent
  <2> SUFFICES ASSUME IInv, NEW f \in rowed \ (raced \cup todo),
                      ~DueIn(calls, "info", f), book[f].data # None
               PROVE  book[f].data = row[f].data
    BY DEF RowCurrent, Due
  <2>1. ~DueOnlineIn(calls, f)
    BY DEF DueIn, DueOnlineIn, Online
  <2>2. ~Overwrites(f)
    BY DEF Overwrites
  <2>3. QED
    BY <2>1, <2>2 DEF IInv, DataKept
<1>2. QED
  BY <1>1, Invariance, PTL

(* Writing the library's list never erases what the table knew of a friend, *)
(* not even in a process that has not heard of the friend yet               *)
(* (updateFriendList).                                                      *)
THEOREM DataIsKept == Spec => NeverForgets
<1>1. ASSUME IInv, [Next]_vars, NEW f \in rowed, row[f].data # None
      PROVE  row'[f].data # None
  <2>1. /\ row \in [Friends -> Info] /\ f \in Friends
        /\ \A g \in Friends : taken[g].status = "online" => taken[g].data # None
        /\ taken \in [Friends -> Info]
    BY <1>1 DEF IInv, TypeOK, LibraryOK, TableOK, ScreenOK, KnownOnline
  <2>2. CASE row' = row
    BY <1>1, <2>2
  <2>3. CASE OnFriendInfoChanged
    <3>1. Head(calls).info.data # None
      BY <1>1, <2>3, HeadFacts DEF OnFriendInfoChanged
    <3>2. row'[f] = row[f] \/ row'[f] = Head(calls).info
      BY <2>1, <2>3 DEF OnFriendInfoChanged
    <3>3. QED
      BY <1>1, <3>1, <3>2
  <2>4. ASSUME NEW g \in Friends, WriteRow(g) PROVE row'[f].data # None
    <3>1. row' = [row EXCEPT ![g] = IF g \in rowed /\ taken[g].status = "offline"
                                    THEN [row[g] EXCEPT !.status = "offline"] ELSE taken[g]]
      BY <2>4 DEF WriteRow
    <3>2. CASE g # f
      BY <1>1, <2>1, <3>1, <3>2
    <3>3. CASE g = f /\ taken[f].status = "offline"
      <4>1. row'[f] = [row[f] EXCEPT !.status = "offline"] /\ row[f] \in Info
        BY <1>1, <2>1, <3>1, <3>3
      <4>2. QED
        BY <1>1, <4>1 DEF Info
    <3>4. CASE g = f /\ taken[f].status # "offline"
      <4>1. row'[f] = taken[f] /\ taken[f].status = "online"
        BY <2>1, <3>1, <3>4 DEF Info, Status
      <4>2. QED
        BY <2>1, <4>1
    <3>5. QED
      BY <3>2, <3>3, <3>4
  <2>5. CASE ScreenNext \/ OnFriendConnection \/ Kill \/ UNCHANGED vars
    <3>1. row' = row
      BY <2>5 DEF ScreenNext, Open, Register, GetFriends, GetFriendsThrows, Written, Refresh,
                  OnReceive, Close, OnFriendConnection, Kill, vars, table
    <3>2. QED
      BY <2>2, <3>1
  <2>6. ASSUME NEW g \in Friends, Added(g) \/ ComesOnline(g) \/ GoesOffline(g) \/ ChangesData(g)
        PROVE  row'[f].data # None
    <3>1. row' = row
      BY <2>6 DEF Added, ComesOnline, GoesOffline, ChangesData, table
    <3>2. QED
      BY <2>2, <3>1
  <2>7. QED
    BY <1>1, <2>3, <2>4, <2>5, <2>6 DEF Next, FriendNext
<1>2. IInv /\ [Next]_vars => [\A f \in rowed : row[f].data # None => row'[f].data # None]_vars
  BY <1>1
<1>3. QED
  BY <1>2, Invariance, PTL DEF Spec, NeverForgets

(* Screen and table both catch up with the library (onFriendConnection,      *)
(* onFriendInfoChanged, FriendlistActivity).                                 *)
THEOREM ContactsCatchUp == Spec => []FriendsAreCurrent
<1>1. StatusShown /\ RowCurrent => FriendsAreCurrent
  BY DEF FriendsAreCurrent
<1>2. QED
  BY <1>1, ScreenShowsStatus, TableIsCurrent, PTL

===============================================================================
