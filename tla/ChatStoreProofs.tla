--------------------------- MODULE ChatStoreProofs ---------------------------
(***************************************************************************)
(* The conversation list shows the newest message of every friend whose    *)
(* last message was stored undisturbed, and lists nobody more often than   *)
(* there are threads that store, for any number of friends and threads.    *)
(* The open conversation has no holes, whoever stores while it loads pages *)
(* and for any page size.                                                  *)
(***************************************************************************)
EXTENDS ChatStore, FiniteSetTheorems, TLAPS

(* Before the thread of a file reads curfuid for the row it has no other    *)
(* friend in mind than the one of the message.                              *)
RowAsMessage == \A w \in Writers : pc[w] = "row" => job[w].row = job[w].to

IInv ==
  /\ TypeOK
  /\ StoredAlone
  /\ ListIsCurrent
  /\ RowsCounted
  /\ RowAsMessage

LEMMA WritersFinite == IsFiniteSet(Writers) /\ UI \in Writers /\ Carrier \in Writers
BY ChatAssumption, FS_AddElement DEF Writers

LEMMA InsertingFinite ==
  ASSUME NEW f \in Friends
  PROVE  IsFiniteSet(Inserting(f)) /\ Cardinality(Inserting(f)) \in Nat
         /\ Cardinality(Inserting(f)) <= Cardinality(Writers)
<1>1. Inserting(f) \subseteq Writers
  BY DEF Inserting
<1>2. QED
  BY <1>1, WritersFinite, FS_Subset, FS_CardinalityType

LEMMA InitIInv == Init => IInv
<1> SUFFICES ASSUME Init PROVE IInv
  OBVIOUS
<1> USE DEF Init
<1>1. TypeOK
  <2>1. TablesOK
    <3>1. curn \in BOOLEAN
      BY Zenon
    <3>2. history \in [Friends -> Seq(Nat)] /\ rows \in [Friends -> Seq(Nat)]
          /\ last \in [Friends -> Nat \cup {None}] /\ taken \in Nat /\ disturbed \subseteq Friends
          /\ curfuid \in Friend
      BY DEF Friend
    <3>3. QED
      BY <3>1, <3>2 DEF TablesOK
  <2>2. NoJob \in Job
    BY DEF Job, NoJob, Friend
  <2>3. ThreadsOK
    BY <2>2 DEF ThreadsOK, PC, Stages
  <2>4. pc[UI] = "idle"
    BY WritersFinite
  <2>5. ChatOK
    <3>1. registered \in BOOLEAN /\ ~registered /\ inbox = <<>>
      BY Zenon
    <3>2. viewed \in Friends \cup {None} /\ view \in Seq(Nat) /\ start \in Nat
          /\ inbox \in Seq(Nat) /\ oldest \in Nat /\ missed \subseteq Nat
      OBVIOUS
    <3>3. QED
      BY <2>4, <3>1, <3>2 DEF ChatOK
  <2>6. QED
    BY <2>1, <2>3, <2>5 DEF TypeOK
<1>2. StoredAlone /\ ListIsCurrent
  BY DEF StoredAlone, ListIsCurrent, Storing
<1>3. RowsCounted
  <2>1. ASSUME NEW f \in Friends
        PROVE  Len(rows[f]) + Cardinality(Inserting(f)) <= Cardinality(Writers)
    BY InsertingFinite, WritersFinite, FS_CardinalityType
  <2>2. QED
    BY <2>1 DEF RowsCounted
<1>4. QED
  BY <1>1, <1>2, <1>3 DEF IInv, RowAsMessage

-----------------------------------------------------------------------------
(* Types.                                                                   *)

LEMMA PageIsSeq ==
  ASSUME TypeOK, NEW f \in Friends, NEW n \in Nat
  PROVE  Page(f, n) \in Seq(Nat) /\ PageFirst(f, n) \in Nat
<1>1. history[f] \in Seq(Nat) /\ Len(history[f]) \in Nat
  BY DEF TypeOK, TablesOK
<1>2. PageEnd(f, n) \in 0..Len(history[f])
  BY <1>1 DEF PageEnd, AtLeast0
<1>3. PageFirst(f, n) \in Nat \ {0}
  BY <1>2, ChatAssumption DEF PageFirst, AtLeast0
<1>4. QED
  BY <1>1, <1>2, <1>3 DEF Page

(* One thread moves to a place where it may be, and its locals fit. *)
LEMMA ThreadMoves ==
  ASSUME ThreadsOK, NEW w \in Writers, NEW l \in PC, NEW j \in Job,
         pc' = [pc EXCEPT ![w] = l],
         job' = [job EXCEPT ![w] = j],
         curfuid' = curfuid,
         l \in {"address", "add", "row"} => w \in Files /\ curfuid \in Friends,
         l = "add" => j.to \in Friends,
         l \in Stages => j.to \in Friends /\ j.row \in Friends,
         l \in {"load", "register"} => w = UI,
         l \in {"check", "record"} => w = Carrier,
         l = "notify" => w \in Receivers
  PROVE  ThreadsOK'
BY DEF ThreadsOK

LEMMA JobsAre ==
  ASSUME ThreadsOK, NEW w \in Writers
  PROVE  /\ job[w] \in Job /\ job[w].msg \in Nat /\ NoJob \in Job
         /\ job = [job EXCEPT ![w] = job[w]]
         /\ pc[w] \in Stages => job[w].to \in Friends /\ job[w].row \in Friends
BY DEF ThreadsOK, Job, NoJob, Friend

LEMMA StoreTypes ==
  ASSUME TypeOK, NEW w \in Writers, NEW f \in Friends, NEW t \in Friend, AddFriendMessage(w, f, t),
         w \in Files => curfuid \in Friends
  PROVE  TablesOK' /\ ThreadsOK' /\ taken' \in Nat
         /\ pc' = [pc EXCEPT ![w] = IF w \in Files THEN "row" ELSE "query"]
<1> DEFINE l == IF w \in Files THEN "row" ELSE "query"
<1> USE DEF AddFriendMessage, Goto
<1>1. taken' \in Nat
  BY DEF TypeOK, TablesOK
<1>2. history' \in [Friends -> Seq(Nat)]
  BY <1>1 DEF TypeOK, TablesOK
<1>3. TablesOK'
  BY <1>1, <1>2 DEF TypeOK, TablesOK
<1> DEFINE j == [to |-> f, row |-> f, tell |-> t, msg |-> taken', absent |-> FALSE]
<1>4. j \in Job /\ j.to = f /\ j.row = f
  BY <1>1 DEF Job, Friend
<1>5. ThreadsOK'
  <2>1. pc' = [pc EXCEPT ![w] = l] /\ job' = [job EXCEPT ![w] = j] /\ curfuid' = curfuid
    OBVIOUS
  <2>2. l \in PC /\ l \in {"row", "query"} /\ (l = "row" => w \in Files /\ curfuid \in Friends)
    <3>1. CASE w \in Files
      BY <3>1 DEF PC, Stages
    <3>2. CASE w \notin Files
      BY <3>2 DEF PC, Stages
    <3>3. QED
      BY <3>1, <3>2
  <2> HIDE DEF l, j
  <2>4. l \notin {"load", "register", "check", "record", "notify", "add", "address"}
    BY <2>2
  <2>5. ThreadsOK /\ (l \in {"address", "add", "row"} => w \in Files /\ curfuid \in Friends)
    BY <2>2, <2>4 DEF TypeOK
  <2>6. ASSUME NEW m \in Job, m = j PROVE ThreadsOK'
    <3>1. job' = [job EXCEPT ![w] = m] /\ m.to \in Friends /\ m.row \in Friends
      BY <1>4, <2>1, <2>6
    <3> HIDE DEF AddFriendMessage, Goto
    <3>2. QED
      BY <2>1, <2>2, <2>4, <2>5, <3>1, ThreadMoves
  <2>3. QED
    BY <1>4, <2>6
<1>6. QED
  BY <1>1, <1>3, <1>5

LEMMA ChatGoneOK ==
  ASSUME ChatGone, registered' = FALSE, inbox' = <<>>, pc'[UI] = "idle"
  PROVE  ChatOK'
<1>1. registered' \in BOOLEAN /\ ~registered' /\ inbox' = <<>>
  BY Zenon
<1>2. viewed' \in Friends \cup {None} /\ view' \in Seq(Nat) /\ start' \in Nat
      /\ inbox' \in Seq(Nat) /\ oldest' \in Nat /\ missed' \subseteq Nat
  BY DEF ChatGone
<1>3. QED
  BY <1>1, <1>2 DEF ChatOK

LEMMA TypeStep ==
  ASSUME TypeOK, [Next]_vars
  PROVE  TypeOK'
<1> USE DEF TypeOK
<1>0. UI \in Writers /\ Carrier \in Writers /\ Carrier \in Receivers /\ Carrier # UI
      /\ UI \notin Receivers /\ Writers = Receivers \cup {UI}
  BY WritersFinite, ChatAssumption DEF Writers
<1>1. ASSUME NEW f \in Friends, Receive(f) PROVE TypeOK'
  <2>1. AddFriendMessage(Carrier, f, f) /\ UNCHANGED chat
    BY <1>1 DEF Receive
  <2>2. pc'[UI] = pc[UI] /\ missed' = missed
    BY <2>1, <1>0 DEF AddFriendMessage, Goto, ThreadsOK
  <2>3. ChatOK'
    BY <2>1, <2>2 DEF ChatOK, chat
  <2>4. Carrier \notin Files /\ f \in Friend
    BY DEF Files, Friend
  <2>5. QED
    BY <1>0, <2>1, <2>3, <2>4, StoreTypes
<1>18. ASSUME NEW f \in Friends, OnSessionRequest(f) PROVE TypeOK'
  BY <1>18 DEF OnSessionRequest, tables, chat, TablesOK, ThreadsOK, ChatOK, Friend
<1>19. ASSUME NEW w \in Writers, AddFile(w) PROVE TypeOK'
  <2>1. AddFriendMessage(w, job[w].to, job[w].tell) /\ UNCHANGED chat /\ w \in Files /\ w # UI
        /\ job[w].to \in Friends /\ job[w].tell \in Friend /\ curfuid \in Friends
    BY <1>0, <1>19 DEF AddFile, ThreadsOK, Files, Job
  <2>2. pc'[UI] = pc[UI] /\ missed' = missed
    BY <2>1, <1>0 DEF AddFriendMessage, Goto, ThreadsOK
  <2>3. ChatOK'
    BY <2>1, <2>2 DEF ChatOK, chat
  <2>4. QED
    BY <2>1, <2>3, StoreTypes
<1>20. ASSUME NEW w \in Writers, SaveFile(w) \/ ReadFriend(w) \/ ReadRowFriend(w) PROVE TypeOK'
  <2>0. w \in Files /\ w # UI /\ curfuid \in Friends /\ curfuid \in Friend /\ job[w] \in Job
        /\ pc \in [Writers -> PC] /\ job \in [Writers -> Job]
    BY <1>0, <1>20 DEF SaveFile, ReadFriend, ReadRowFriend, ThreadsOK, TablesOK, Files, Friend
  <2>1. CASE SaveFile(w)
    <3> DEFINE j == [job[w] EXCEPT !.tell = curfuid]
    <3>1. j \in Job
      BY <2>0 DEF Job
    <3>2. job' = [job EXCEPT ![w] = j] /\ pc' = [pc EXCEPT ![w] = "address"] /\ curfuid' = curfuid
      BY <2>1 DEF SaveFile, Goto
    <3>3. ThreadsOK'
      <4> HIDE DEF j
      <4>1. QED
        BY <2>0, <3>1, <3>2, ThreadMoves DEF PC, Stages
    <3>4. pc'[UI] = pc[UI]
      BY <1>0, <2>0, <3>2
    <3>5. QED
      BY <2>1, <3>3, <3>4 DEF SaveFile, tables, chat, TablesOK, ChatOK
  <2>2. CASE ReadFriend(w)
    <3> DEFINE j == [job[w] EXCEPT !.to = curfuid]
    <3>1. j \in Job /\ j.to = curfuid
      BY <2>0 DEF Job
    <3>2. job' = [job EXCEPT ![w] = j] /\ pc' = [pc EXCEPT ![w] = "add"] /\ curfuid' = curfuid
      BY <2>2 DEF ReadFriend, Goto
    <3>3. ThreadsOK'
      <4> HIDE DEF j
      <4>1. QED
        BY <2>0, <3>1, <3>2, ThreadMoves DEF PC, Stages
    <3>4. pc'[UI] = pc[UI]
      BY <1>0, <2>0, <3>2
    <3>5. QED
      BY <2>2, <3>3, <3>4 DEF ReadFriend, tables, chat, TablesOK, ChatOK
  <2>3. CASE ReadRowFriend(w)
    <3> DEFINE j == [job[w] EXCEPT !.row = curfuid]
    <3>1. j \in Job /\ j.row = curfuid /\ j.to = job[w].to
      BY <2>0 DEF Job
    <3>2. job' = [job EXCEPT ![w] = j] /\ pc' = [pc EXCEPT ![w] = "query"] /\ curfuid' = curfuid
      BY <2>3 DEF ReadRowFriend, Goto
    <3>6. job[w].to \in Friends
      BY <2>3, JobsAre DEF ReadRowFriend, Stages
    <3>3. ThreadsOK'
      <4> HIDE DEF j
      <4>1. QED
        BY <2>0, <3>1, <3>2, <3>6, ThreadMoves DEF PC, Stages
    <3>4. pc'[UI] = pc[UI]
      BY <1>0, <2>0, <3>2
    <3>5. disturbed' \subseteq Friends
      BY <2>0, <2>3, <3>6 DEF ReadRowFriend, TablesOK
    <3>7. QED
      BY <2>3, <3>3, <3>4, <3>5 DEF ReadRowFriend, tables, chat, TablesOK, ChatOK
  <2>4. QED
    BY <1>20, <2>1, <2>2, <2>3
<1>2. ASSUME NEW w \in Writers, QueryRow(w) PROVE TypeOK'
  <2>1. job[w].to \in Friends /\ job[w].row \in Friends /\ job[w] \in Job
    BY <1>2, JobsAre DEF QueryRow, Stages
  <2> DEFINE j == [job[w] EXCEPT !.absent = rows[job[w].row] = <<>>]
  <2>2. j \in Job /\ j.to = job[w].to /\ j.row = job[w].row
    BY <2>1 DEF Job
  <2>3. job' = [job EXCEPT ![w] = j] /\ pc' = [pc EXCEPT ![w] = "put"]
    BY <1>2 DEF QueryRow, Goto
  <2>4. ThreadsOK'
    <3> HIDE DEF j
    <3>1. QED
      BY <1>2, <2>1, <2>2, <2>3, ThreadMoves DEF QueryRow, PC, Stages
  <2>5. QED
    BY <1>0, <1>2, <2>3, <2>4 DEF QueryRow, tables, chat, TablesOK, ChatOK, ThreadsOK
<1>3. ASSUME NEW w \in Writers, PutRow(w) PROVE TypeOK'
  <2>1. job[w].to \in Friends /\ job[w].row \in Friends /\ job[w] \in Job /\ job[w].msg \in Nat /\ NoJob \in Job
    BY <1>3, JobsAre DEF PutRow, Stages
  <2>2. rows' \in [Friends -> Seq(Nat)]
    <3>1. rows[job[w].row] \in Seq(Nat)
      BY <2>1 DEF TablesOK
    <3>2. Append(rows[job[w].row], job[w].msg) \in Seq(Nat)
      BY <2>1, <3>1
    <3>3. [i \in DOMAIN rows[job[w].row] |-> job[w].msg] \in Seq(Nat)
      <4>1. DOMAIN rows[job[w].row] = 1..Len(rows[job[w].row]) /\ Len(rows[job[w].row]) \in Nat
        BY <3>1
      <4>2. QED
        BY <2>1, <4>1
    <3>4. QED
      BY <1>3, <2>1, <3>2, <3>3 DEF PutRow, TablesOK
  <2>3. ThreadsOK'
    <3>1. CASE w = UI
      BY <1>0, <1>3, <2>1, <3>1, ThreadMoves DEF PutRow, AfterRow, End, Goto, PC, Stages
    <3>2. CASE w # UI
      <4> DEFINE l == IF w = Carrier THEN "check" ELSE "notify"
      <4>1. pc' = [pc EXCEPT ![w] = l] /\ job' = [job EXCEPT ![w] = job[w]] /\ l \in PC
        BY <1>3, <3>2, JobsAre DEF PutRow, AfterRow, Goto, PC, Stages
      <4>2. QED
        BY <1>0, <1>3, <2>1, <3>2, <4>1, ThreadMoves DEF PutRow, Stages
    <3>3. QED
      BY <3>1, <3>2
  <2>4. pc'[UI] \notin {"load", "register"} \/ pc'[UI] = pc[UI]
    BY <1>0, <1>3 DEF PutRow, AfterRow, End, Goto, ThreadsOK
  <2>5. QED
    BY <1>3, <2>2, <2>3, <2>4 DEF PutRow, chat, TablesOK, ChatOK
<1>4. CASE CheckLast
  <2>1. ThreadsOK'
    BY <1>0, <1>4, JobsAre, ThreadMoves DEF CheckLast, Goto, PC, Stages
  <2>2. curn' \in BOOLEAN /\ pc'[UI] = pc[UI]
    BY <1>0, <1>4 DEF CheckLast, Goto, ThreadsOK
  <2>3. QED
    BY <1>4, <2>1, <2>2 DEF CheckLast, tables, chat, TablesOK, ChatOK
<1>5. CASE RecordLast
  <2>1. job[Carrier].to \in Friends /\ job[Carrier].msg \in Nat
    BY <1>0, <1>5, JobsAre DEF RecordLast, Stages
  <2>2. last' \in [Friends -> Nat \cup {None}]
    BY <1>5, <2>1 DEF RecordLast, TablesOK
  <2>3. ThreadsOK'
    BY <1>0, <1>5, <2>1, JobsAre, ThreadMoves DEF RecordLast, Goto, PC, Stages
  <2>4. pc'[UI] = pc[UI]
    BY <1>0, <1>5 DEF RecordLast, Goto, ThreadsOK
  <2>5. QED
    BY <1>5, <2>2, <2>3, <2>4 DEF RecordLast, chat, TablesOK, ChatOK
<1>6. ASSUME NEW w \in Writers, Notify(w) PROVE TypeOK'
  <2>1. job[w].msg \in Nat /\ NoJob \in Job
    BY JobsAre
  <2>2. inbox' \in Seq(Nat) /\ missed' \subseteq Nat
    <3>1. missed' = missed \/ missed' = missed \cup {job[w].msg}
      BY <1>6 DEF Notify, Untold
    <3>2. inbox' = inbox \/ inbox' = Append(inbox, job[w].msg)
      BY <1>6 DEF Notify
    <3>3. missed \subseteq Nat /\ inbox \in Seq(Nat)
      BY DEF ChatOK
    <3>4. missed' \subseteq Nat
      BY <2>1, <3>1, <3>3
    <3>5. Append(inbox, job[w].msg) \in Seq(Nat)
      BY <2>1, <3>3
    <3>6. inbox' \in Seq(Nat)
      BY <3>2, <3>3, <3>5
    <3>7. QED
      BY <3>4, <3>6
  <2>6. inbox' = inbox \/ registered
    BY <1>6 DEF Notify
  <2>7. inbox' # <<>> => registered
    BY <2>6 DEF ChatOK
  <2>3. ThreadsOK'
    BY <1>0, <1>6, <2>1, ThreadMoves DEF Notify, End, Goto, PC, Stages
  <2>4. pc'[UI] \notin {"load", "register"} \/ pc'[UI] = pc[UI]
    BY <1>0, <1>6 DEF Notify, End, Goto, ThreadsOK
  <2>5. QED
    BY <1>6, <2>2, <2>7, <2>3, <2>4 DEF Notify, tables, TablesOK, ChatOK
<1>7. CASE AlarmFails
  <2>1. job[Carrier].msg \in Nat /\ NoJob \in Job
    BY <1>0, JobsAre
  <2>2. missed' \subseteq Nat
    BY <1>7, <2>1 DEF AlarmFails, Untold, ChatOK
  <2>3. ThreadsOK'
    BY <1>0, <1>7, <2>1, ThreadMoves DEF AlarmFails, End, Goto, PC, Stages
  <2>4. pc'[UI] = pc[UI]
    BY <1>0, <1>7 DEF AlarmFails, End, Goto, ThreadsOK
  <2>5. QED
    BY <1>7, <2>2, <2>3, <2>4 DEF AlarmFails, tables, chat, TablesOK, ChatOK
<1>8. ASSUME NEW f \in Friends, OpenChat(f) PROVE TypeOK'
  <2>1. ThreadsOK'
    BY <1>0, <1>8, JobsAre, ThreadMoves DEF OpenChat, Goto, PC, Stages
  <2>2. viewed' = f /\ f # None
    BY <1>8, ChatAssumption DEF OpenChat
  <2>3. QED
    BY <1>8, <2>1, <2>2 DEF OpenChat, tables, TablesOK, ChatOK
<1>9. CASE LoadFirst
  <2>1. viewed \in Friends /\ start \in Nat
    BY <1>9 DEF LoadFirst, ChatOK
  <2>2. view' \in Seq(Nat) /\ oldest' \in Nat
    BY <1>9, <2>1, PageIsSeq DEF LoadFirst
  <2>3. ThreadsOK'
    BY <1>0, <1>9, JobsAre, ThreadMoves DEF LoadFirst, Goto, PC, Stages
  <2>4. viewed # None
    BY <2>1, ChatAssumption
  <2>5. QED
    BY <1>9, <2>2, <2>3, <2>4 DEF LoadFirst, tables, TablesOK, ChatOK
<1>10. CASE Register
  <2>1. ThreadsOK'
    BY <1>0, <1>10, JobsAre, ThreadMoves DEF Register, Goto, PC, Stages
  <2>2. QED
    BY <1>10, <2>1 DEF Register, tables, TablesOK, ChatOK
<1>11. CASE OnReceive
  <2>1. view' \in Seq(Nat) /\ inbox' \in Seq(Nat)
    BY <1>11 DEF OnReceive, ChatOK
  <2>2. QED
    BY <1>11, <2>1 DEF OnReceive, tables, TablesOK, ThreadsOK, ChatOK
<1>12. CASE LoadMore
  <2>1. viewed \in Friends /\ start' \in Nat
    BY <1>12, ChatAssumption DEF LoadMore, ChatOK
  <2>2. Page(viewed, start') \in Seq(Nat) /\ PageFirst(viewed, start') \in Nat
    BY <2>1, PageIsSeq
  <2>3. view' \in Seq(Nat) /\ oldest' \in Nat
    BY <1>12, <2>2 DEF LoadMore, Least, ChatOK
  <2>4. QED
    BY <1>12, <2>1, <2>3 DEF LoadMore, tables, TablesOK, ThreadsOK, ChatOK
<1>13. CASE Send
  <2>1. viewed \in Friends /\ viewed \in Friend /\ AddFriendMessage(UI, viewed, viewed) /\ UI \notin Files
    BY <1>0, <1>13 DEF Send, ChatOK, Friend, Files
  <2>2. TablesOK' /\ ThreadsOK' /\ taken' \in Nat /\ pc' = [pc EXCEPT ![UI] = "query"]
    BY <2>1, <1>0, StoreTypes
  <2>3. view' \in Seq(Nat)
    BY <1>13, <2>2 DEF Send, ChatOK
  <2>4. missed' = missed /\ pc'[UI] = "query"
    BY <1>0, <2>1, <2>2 DEF AddFriendMessage, ThreadsOK
  <2>5. QED
    BY <1>13, <2>2, <2>3, <2>4 DEF Send, ChatOK
<1>14. CASE CloseChat
  <2>1. TablesOK' /\ ThreadsOK' /\ pc[UI] = "idle" /\ pc' = pc
    BY <1>14 DEF CloseChat, tables, TablesOK, ThreadsOK
  <2>2. ChatOK'
    BY <1>14, <2>1, ChatGoneOK DEF CloseChat
  <2>3. QED
    BY <2>1, <2>2
<1>15. CASE Kill
  <2>1. NoJob \in Job /\ "idle" \in PC
    BY DEF NoJob, Job, PC, Friend
  <2>2. ThreadsOK' /\ pc'[UI] = "idle"
    BY <1>0, <1>15, <2>1 DEF Kill, ThreadsOK, Stages
  <2>3. TablesOK'
    BY <1>15 DEF Kill, tables, TablesOK, Friend
  <2>4. ChatOK'
    BY <1>15, <2>2, ChatGoneOK DEF Kill
  <2>5. QED
    BY <2>2, <2>3, <2>4
<1>16. CASE UNCHANGED vars
  BY <1>16 DEF vars, tables, chat, TablesOK, ThreadsOK, ChatOK
<1>17. QED
  BY <1>1, <1>2, <1>3, <1>4, <1>5, <1>6, <1>7, <1>8, <1>9, <1>10, <1>11, <1>12,
     <1>13, <1>14, <1>15, <1>16, <1>18, <1>19, <1>20 DEF Next, WriterNext, ChatNext

-----------------------------------------------------------------------------
(* The conversation list.                                                   *)

Midway == {"row", "query", "put"}

(* A step that neither touches these tables nor a thread that is storing. *)
LEMMA QuietStep ==
  ASSUME StoredAlone, ListIsCurrent, RowsCounted,
         UNCHANGED <<history, rows, disturbed>>,
         \A u \in Writers : pc[u] \in Midway \/ pc'[u] \in Midway =>
            pc'[u] = pc[u] /\ job'[u] = job[u]
  PROVE  StoredAlone' /\ ListIsCurrent' /\ RowsCounted'
<1>1. \A u \in Writers, f \in Friends : Storing(u, f)' <=> Storing(u, f)
  BY DEF Storing, Midway
<1>2. StoredAlone'
  BY <1>1 DEF StoredAlone, Storing, Midway
<1>3. ListIsCurrent'
  BY <1>1 DEF ListIsCurrent
<1>4. \A f \in Friends : Inserting(f)' = Inserting(f)
  BY DEF Inserting, Midway
<1>5. RowsCounted'
  BY <1>4 DEF RowsCounted
<1>6. QED
  BY <1>2, <1>3, <1>5

LEMMA StoreStep ==
  ASSUME IInv, NEW w \in Writers, NEW f \in Friends, NEW t, AddFriendMessage(w, f, t), pc[w] \in {"idle", "add"}
  PROVE  StoredAlone' /\ ListIsCurrent' /\ RowsCounted'
<1>0. /\ pc[w] \in {"idle", "add"} /\ pc'[w] \in {"row", "query"}
      /\ job'[w].row = f /\ job'[w].msg = taken'
      /\ \A u \in Writers \ {w} : pc'[u] = pc[u] /\ job'[u] = job[u]
      /\ rows' = rows
  BY DEF IInv, TypeOK, ThreadsOK, AddFriendMessage, Goto
<1>1. /\ history'[f] # <<>> /\ history'[f][Len(history'[f])] = taken'
      /\ \A g \in Friends \ {f} : history'[g] = history[g]
  <2>1. history[f] \in Seq(Nat) /\ taken' \in Nat
    BY DEF IInv, TypeOK, TablesOK, AddFriendMessage
  <2>2. history'[f] = Append(history[f], taken') /\ \A g \in Friends \ {f} : history'[g] = history[g]
    BY DEF IInv, TypeOK, TablesOK, AddFriendMessage
  <2>3. Len(history'[f]) = Len(history[f]) + 1 /\ history'[f] # <<>>
    BY <2>1, <2>2
  <2>4. history'[f][Len(history[f]) + 1] = taken'
    BY <2>1, <2>2
  <2>5. QED
    BY <2>2, <2>3, <2>4
<1>2. /\ \A u \in Writers, g \in Friends \ {f} : Storing(u, g)' <=> Storing(u, g)
      /\ \A u \in Writers \ {w} : Storing(u, f)' <=> Storing(u, f)
      /\ Storing(w, f)'
  BY <1>0 DEF Storing
<1>3. /\ \A g \in Friends \ {f} : g \in disturbed <=> g \in disturbed'
      /\ f \notin disturbed' => \A u \in Writers : ~Storing(u, f)
  BY DEF AddFriendMessage
<1>4. StoredAlone'
  <2>1. ASSUME NEW g \in Friends, g \notin disturbed', NEW u \in Writers, Storing(u, g)'
        PROVE  /\ history'[g] # <<>> /\ job'[u].msg = history'[g][Len(history'[g])]
               /\ pc'[u] = "put" => (job'[u].absent <=> rows'[g] = <<>>)
               /\ \A v \in Writers : Storing(v, g)' => v = u
    <3>1. CASE g = f
      BY <1>0, <1>1, <1>2, <1>3, <2>1, <3>1
    <3>2. CASE g # f
      <4>1. Storing(u, g) /\ g \notin disturbed /\ u # w
        BY <1>0, <1>2, <1>3, <2>1, <3>2 DEF Storing
      <4>2. QED
        BY <1>0, <1>1, <1>2, <3>2, <4>1 DEF IInv, StoredAlone
    <3>3. QED
      BY <3>1, <3>2
  <2>2. QED
    BY <2>1 DEF StoredAlone
<1>5. ListIsCurrent'
  BY <1>0, <1>1, <1>2, <1>3 DEF IInv, ListIsCurrent
<1>6. \A g \in Friends : Inserting(g)' = Inserting(g)
  BY <1>0 DEF Inserting
<1>7. RowsCounted'
  BY <1>0, <1>6 DEF IInv, RowsCounted
<1>8. QED
  BY <1>4, <1>5, <1>7

(* The thread of a file learns whose row it is to put: the friend of its    *)
(* message, or another one and then both are disturbed.                     *)
LEMMA RowFriendStep ==
  ASSUME IInv, NEW w \in Writers, ReadRowFriend(w)
  PROVE  StoredAlone' /\ ListIsCurrent' /\ RowsCounted'
<1> DEFINE f == job[w].to
<1>0. /\ pc[w] = "row" /\ pc'[w] = "query" /\ job'[w].row = curfuid /\ job'[w].msg = job[w].msg
      /\ \A u \in Writers \ {w} : pc'[u] = pc[u] /\ job'[u] = job[u]
      /\ UNCHANGED <<history, rows>>
  <2>1. job[w] \in Job /\ job' = [job EXCEPT ![w].row = curfuid] /\ job \in [Writers -> Job]
    BY DEF ReadRowFriend, IInv, TypeOK, ThreadsOK
  <2>2. job'[w] = [job[w] EXCEPT !.row = curfuid] /\ \A u \in Writers \ {w} : job'[u] = job[u]
    BY <2>1
  <2>3. job'[w].row = curfuid /\ job'[w].msg = job[w].msg
    BY <2>1, <2>2 DEF Job
  <2>4. pc[w] = "row" /\ pc'[w] = "query" /\ \A u \in Writers \ {w} : pc'[u] = pc[u]
    BY DEF IInv, TypeOK, ThreadsOK, ReadRowFriend, Goto
  <2>5. QED
    BY <2>2, <2>3, <2>4 DEF ReadRowFriend, tables
<1>1. \A g \in Friends : Inserting(g)' = Inserting(g)
  BY <1>0 DEF Inserting
<1>2. RowsCounted'
  BY <1>0, <1>1 DEF IInv, RowsCounted
<1>3. job[w].row = f
  BY <1>0 DEF IInv, RowAsMessage
<1>4. CASE curfuid = f
  <2>1. disturbed' = disturbed /\ \A u \in Writers, g \in Friends : Storing(u, g)' <=> Storing(u, g)
    BY <1>0, <1>3, <1>4 DEF Storing, ReadRowFriend
  <2>2. \A u \in Writers : pc'[u] = "put" => pc[u] = "put" /\ job'[u] = job[u]
    BY <1>0
  <2>3. \A u \in Writers : job'[u].msg = job[u].msg
    BY <1>0
  <2>4. StoredAlone'
    BY <1>0, <2>1, <2>2, <2>3 DEF IInv, StoredAlone
  <2>5. ListIsCurrent'
    BY <1>0, <2>1 DEF IInv, ListIsCurrent
  <2>6. QED
    BY <1>2, <2>4, <2>5
<1>5. CASE curfuid # f
  <2>1. disturbed' = disturbed \cup {f, curfuid}
    BY <1>5 DEF ReadRowFriend
  <2>2. \A g \in Friends \ disturbed' : \A u \in Writers :
          (Storing(u, g)' <=> Storing(u, g)) /\ (Storing(u, g) => u # w)
    BY <1>0, <1>3, <2>1 DEF Storing
  <2>3. StoredAlone'
    BY <1>0, <2>1, <2>2 DEF IInv, StoredAlone
  <2>4. ListIsCurrent'
    BY <1>0, <2>1, <2>2 DEF IInv, ListIsCurrent
  <2>5. QED
    BY <1>2, <2>3, <2>4
<1>6. QED
  BY <1>4, <1>5

LEMMA QueryStep ==
  ASSUME IInv, NEW w \in Writers, QueryRow(w)
  PROVE  StoredAlone' /\ ListIsCurrent' /\ RowsCounted'
<1> DEFINE f == job[w].row
<1>0. /\ pc[w] = "query" /\ pc'[w] = "put" /\ f \in Friends
      /\ job'[w].row = f /\ job'[w].msg = job[w].msg
      /\ (job'[w].absent <=> rows[f] = <<>>)
      /\ \A u \in Writers \ {w} : pc'[u] = pc[u] /\ job'[u] = job[u]
      /\ UNCHANGED <<history, rows, disturbed>>
  <2>1. f \in Friends /\ job[w] \in Job
    BY JobsAre DEF IInv, TypeOK, QueryRow, Stages
  <2>2. job' = [job EXCEPT ![w].absent = rows[f] = <<>>] /\ job \in [Writers -> Job]
    BY DEF QueryRow, IInv, TypeOK, ThreadsOK
  <2>3. job'[w] = [job[w] EXCEPT !.absent = rows[f] = <<>>]
        /\ \A u \in Writers \ {w} : job'[u] = job[u]
    BY <2>2
  <2>4. job'[w].row = f /\ job'[w].msg = job[w].msg
    BY <2>1, <2>3 DEF Job
  <2>5. job'[w].absent <=> rows[f] = <<>>
    BY <2>1, <2>3 DEF Job
  <2>6. pc[w] = "query" /\ pc'[w] = "put" /\ \A u \in Writers \ {w} : pc'[u] = pc[u]
    BY DEF IInv, TypeOK, ThreadsOK, QueryRow, Goto
  <2>7. UNCHANGED <<history, rows, disturbed>>
    BY DEF QueryRow, tables
  <2>8. QED
    BY <2>1, <2>3, <2>4, <2>5, <2>6, <2>7
<1>1. \A u \in Writers, g \in Friends : Storing(u, g)' <=> Storing(u, g)
  BY <1>0 DEF Storing
<1>2. StoredAlone'
  <2>1. ASSUME NEW g \in Friends, g \notin disturbed, NEW u \in Writers, Storing(u, g)
        PROVE  /\ history[g] # <<>> /\ job'[u].msg = history[g][Len(history[g])]
               /\ pc'[u] = "put" => (job'[u].absent <=> rows[g] = <<>>)
               /\ \A v \in Writers : Storing(v, g) => v = u
    BY <1>0, <2>1 DEF IInv, StoredAlone, Storing
  <2>2. QED
    BY <1>0, <1>1, <2>1 DEF StoredAlone
<1>3. ListIsCurrent'
  BY <1>0, <1>1 DEF IInv, ListIsCurrent
<1>4. RowsCounted'
  <2>1. ASSUME NEW g \in Friends
        PROVE  Len(rows[g]) + Cardinality(Inserting(g)') <= Cardinality(Writers)
    <3>1. CASE g = f /\ rows[f] = <<>>
      <4>1. Inserting(g)' \subseteq Writers
        BY DEF Inserting
      <4>2. Cardinality(Inserting(g)') <= Cardinality(Writers) /\ Cardinality(Inserting(g)') \in Nat
        BY <4>1, WritersFinite, FS_Subset, FS_CardinalityType
      <4>3. QED
        BY <3>1, <4>2
    <3>2. CASE g # f \/ rows[f] # <<>>
      <4>1. Inserting(g)' = Inserting(g)
        BY <1>0, <3>2 DEF Inserting
      <4>2. QED
        BY <4>1 DEF IInv, RowsCounted
    <3>3. QED
      BY <3>1, <3>2
  <2>2. QED
    BY <1>0, <2>1 DEF RowsCounted
<1>5. QED
  BY <1>2, <1>3, <1>4

LEMMA PutStep ==
  ASSUME IInv, NEW w \in Writers, PutRow(w)
  PROVE  StoredAlone' /\ ListIsCurrent' /\ RowsCounted'
<1> DEFINE f == job[w].row
           m == job[w].msg
<1>0. /\ pc[w] = "put" /\ pc'[w] \notin Midway /\ f \in Friends /\ m \in Nat
      /\ \A u \in Writers \ {w} : pc'[u] = pc[u] /\ job'[u] = job[u]
      /\ UNCHANGED <<history, disturbed>>
      /\ \A g \in Friends \ {f} : rows'[g] = rows[g]
      /\ rows'[f] = IF job[w].absent THEN Append(rows[f], m) ELSE [i \in DOMAIN rows[f] |-> m]
      /\ rows[f] \in Seq(Nat)
  <2>1. f \in Friends /\ m \in Nat
    BY JobsAre DEF IInv, TypeOK, PutRow, Stages
  <2>2. pc[w] = "put" /\ pc'[w] \notin Midway
        /\ \A u \in Writers \ {w} : pc'[u] = pc[u] /\ job'[u] = job[u]
    BY DEF IInv, TypeOK, ThreadsOK, PutRow, AfterRow, End, Goto, Midway
  <2>3. QED
    BY <2>1, <2>2 DEF IInv, TypeOK, TablesOK, PutRow
<1>1. /\ \A u \in Writers, g \in Friends : Storing(u, g)' => Storing(u, g) /\ u # w
      /\ \A u \in Writers, g \in Friends : Storing(u, g) => Storing(u, g)' \/ u = w
      /\ Storing(w, f)
  BY <1>0 DEF Storing, Midway
<1>2. Len(rows[f]) \in Nat /\ DOMAIN rows[f] = 1..Len(rows[f])
  BY <1>0
<1>3. /\ rows'[f] \in Seq(Nat)
      /\ Len(rows'[f]) = IF job[w].absent THEN Len(rows[f]) + 1 ELSE Len(rows[f])
  BY <1>0, <1>2
<1>4. StoredAlone'
  <2>1. ASSUME NEW g \in Friends, g \notin disturbed, NEW u \in Writers, Storing(u, g)'
        PROVE  /\ history[g] # <<>> /\ job'[u].msg = history[g][Len(history[g])]
               /\ pc'[u] = "put" => (job'[u].absent <=> rows'[g] = <<>>)
               /\ \A v \in Writers : Storing(v, g)' => v = u
    <3>1. Storing(u, g) /\ u # w
      BY <1>1, <2>1
    <3>2. g # f
      BY <1>1, <2>1, <3>1 DEF IInv, StoredAlone
    <3>3. QED
      BY <1>0, <1>1, <2>1, <3>1, <3>2 DEF IInv, StoredAlone
  <2>2. QED
    BY <1>0, <2>1 DEF StoredAlone
<1>5. ListIsCurrent'
  <2>1. ASSUME NEW g \in Friends, g \notin disturbed, \A u \in Writers : ~Storing(u, g)',
               history[g] # <<>>
        PROVE  rows'[g] # <<>> /\ \A i \in DOMAIN rows'[g] : rows'[g][i] = history[g][Len(history[g])]
    <3>1. CASE g = f
      <4>1. m = history[f][Len(history[f])] /\ (job[w].absent <=> rows[f] = <<>>)
        BY <1>0, <1>1, <2>1, <3>1 DEF IInv, StoredAlone
      <4>2. CASE rows[f] = <<>>
        <5>1. rows'[f] = <<m>>
          BY <1>0, <4>1, <4>2
        <5>2. rows'[f] # <<>> /\ DOMAIN rows'[f] = {1} /\ rows'[f][1] = m
          BY <5>1
        <5>3. QED
          BY <3>1, <4>1, <5>2
      <4>3. CASE rows[f] # <<>>
        <5>1. rows'[f] = [i \in DOMAIN rows[f] |-> m] /\ Len(rows[f]) > 0
          BY <1>0, <4>1, <4>3
        <5>2. 1 \in DOMAIN rows[f] /\ DOMAIN rows'[f] = DOMAIN rows[f]
              /\ \A i \in DOMAIN rows'[f] : rows'[f][i] = m
          BY <1>2, <5>1
        <5>3. rows'[f] # <<>>
          BY <5>2
        <5>4. QED
          BY <3>1, <4>1, <5>2, <5>3
      <4>4. QED
        BY <4>2, <4>3
    <3>2. CASE g # f
      <4>1. \A u \in Writers : ~Storing(u, g)
        BY <1>1, <2>1, <3>2 DEF Storing
      <4>2. QED
        BY <1>0, <2>1, <3>2, <4>1 DEF IInv, ListIsCurrent
    <3>3. QED
      BY <3>1, <3>2
  <2>2. QED
    BY <1>0, <2>1 DEF ListIsCurrent
<1>6. RowsCounted'
  <2>1. ASSUME NEW g \in Friends
        PROVE  Len(rows'[g]) + Cardinality(Inserting(g)') <= Cardinality(Writers)
    <3>1. CASE g = f /\ job[w].absent
      <4>1. Inserting(g)' = Inserting(g) \ {w} /\ w \in Inserting(g)
        BY <1>0, <3>1 DEF Inserting, Midway
      <4>2. Cardinality(Inserting(g)') = Cardinality(Inserting(g)) - 1
            /\ Cardinality(Inserting(g)) \in Nat
        BY <2>1, <4>1, InsertingFinite, FS_RemoveElement
      <4>3. Len(rows[g]) + Cardinality(Inserting(g)) <= Cardinality(Writers)
        BY DEF IInv, RowsCounted
      <4>4. QED
        BY <1>2, <1>3, <3>1, <4>2, <4>3, WritersFinite, FS_CardinalityType
    <3>2. CASE ~(g = f /\ job[w].absent)
      <4>1. Inserting(g)' = Inserting(g) /\ Len(rows'[g]) = Len(rows[g])
        BY <1>0, <1>3, <3>2 DEF Inserting, Midway
      <4>2. QED
        BY <4>1 DEF IInv, RowsCounted
    <3>3. QED
      BY <3>1, <3>2
  <2>2. QED
    BY <2>1 DEF RowsCounted
<1>7. QED
  BY <1>4, <1>5, <1>6

LEMMA KillStep ==
  ASSUME IInv, Kill
  PROVE  StoredAlone' /\ ListIsCurrent' /\ RowsCounted'
<1>1. \A u \in Writers, f \in Friends : ~Storing(u, f)'
  BY DEF Kill, Storing
<1>2. UNCHANGED <<history, rows>>
  BY DEF Kill, tables
<1>3. StoredAlone'
  BY <1>1 DEF StoredAlone
<1>4. ListIsCurrent'
  BY <1>2 DEF IInv, ListIsCurrent, Kill
<1>5. ASSUME NEW f \in Friends
      PROVE  Len(rows[f]) + Cardinality(Inserting(f)') <= Cardinality(Writers)
  <2>1. Inserting(f)' = {}
    BY DEF Kill, Inserting
  <2>2. Len(rows[f]) \in Nat
    BY DEF IInv, TypeOK, TablesOK
  <2>3. QED
    BY <2>1, <2>2, FS_EmptySet, InsertingFinite, WritersFinite, FS_CardinalityType
       DEF IInv, RowsCounted
<1>6. RowsCounted'
  BY <1>2, <1>5 DEF RowsCounted
<1>7. QED
  BY <1>3, <1>4, <1>6

LEMMA NextStep == IInv /\ [Next]_vars => IInv'
<1> SUFFICES ASSUME IInv, [Next]_vars PROVE IInv'
  OBVIOUS
<1>11. RowAsMessage'
  <2>1. /\ pc \in [Writers -> PC] /\ job \in [Writers -> Job]
    BY DEF IInv, TypeOK, ThreadsOK
  <2>2. ASSUME NEW w \in Writers, NEW f, NEW t, AddFriendMessage(w, f, t) PROVE RowAsMessage'
    BY <2>1, <2>2 DEF AddFriendMessage, Goto, IInv, RowAsMessage
  <2>3. CASE \A u \in Writers : pc'[u] = "row" => pc[u] = "row" /\ job'[u] = job[u]
    BY <2>3 DEF IInv, RowAsMessage
  <2>4. ASSUME NEW w \in Writers, SaveFile(w) \/ ReadFriend(w) \/ ReadRowFriend(w) \/ QueryRow(w)
                                 \/ PutRow(w) \/ Notify(w)
        PROVE  \A u \in Writers : pc'[u] = "row" => pc[u] = "row" /\ job'[u] = job[u]
    BY <2>1, <2>4 DEF SaveFile, ReadFriend, ReadRowFriend, QueryRow, PutRow, AfterRow, Notify, End, Goto
  <2>5. CASE CheckLast \/ RecordLast \/ AlarmFails \/ LoadFirst \/ Register \/ OnReceive \/ LoadMore
             \/ CloseChat \/ Kill \/ UNCHANGED vars
    <3>1. \A u \in Writers : pc'[u] = "row" => pc[u] = "row" /\ job'[u] = job[u]
      BY <2>1, <2>5 DEF CheckLast, RecordLast, AlarmFails, LoadFirst, Register, OnReceive, LoadMore,
         CloseChat, Kill, End, Goto, vars
    <3>2. QED
      BY <2>3, <3>1
  <2>6. ASSUME NEW f \in Friends, OpenChat(f) \/ OnSessionRequest(f)
        PROVE  \A u \in Writers : pc'[u] = "row" => pc[u] = "row" /\ job'[u] = job[u]
    BY <2>1, <2>6 DEF OpenChat, OnSessionRequest, Goto
  <2>7. UI \in Writers /\ Carrier \in Writers
    BY WritersFinite
  <2>8. QED
    BY <2>2, <2>3, <2>4, <2>5, <2>6, <2>7
       DEF Next, WriterNext, ChatNext, Receive, AddFile, Send
<1>0. TypeOK' /\ RowAsMessage' /\ UI \in Writers /\ Carrier \in Writers
  BY <1>11, TypeStep, WritersFinite DEF IInv
<1>1. ASSUME NEW w \in Writers, NEW f \in Friends, NEW t, AddFriendMessage(w, f, t), pc[w] \in {"idle", "add"}
      PROVE  IInv'
  BY <1>0, <1>1, StoreStep DEF IInv
<1>2. ASSUME NEW w \in Writers, ReadRowFriend(w) \/ QueryRow(w) \/ PutRow(w) PROVE IInv'
  BY <1>0, <1>2, RowFriendStep, QueryStep, PutStep DEF IInv
<1>12. ASSUME NEW w \in Writers, AddFile(w) PROVE IInv'
  <2>1. job[w].to \in Friends /\ pc[w] = "add" /\ AddFriendMessage(w, job[w].to, job[w].tell)
    BY <1>12 DEF AddFile, IInv, TypeOK, ThreadsOK
  <2>2. QED
    BY <1>1, <2>1
<1>13. ASSUME NEW w \in Writers, SaveFile(w) \/ ReadFriend(w) PROVE IInv'
  <2>1. \A u \in Writers : pc[u] \in Midway \/ pc'[u] \in Midway =>
            pc'[u] = pc[u] /\ job'[u] = job[u]
    BY <1>13 DEF IInv, TypeOK, ThreadsOK, SaveFile, ReadFriend, Goto, Midway
  <2>2. UNCHANGED <<history, rows, disturbed>>
    BY <1>13 DEF SaveFile, ReadFriend, tables
  <2>3. QED
    BY <1>0, <2>1, <2>2, QuietStep DEF IInv
<1>14. ASSUME NEW f \in Friends, OnSessionRequest(f) PROVE IInv'
  <2>1. UNCHANGED <<history, rows, disturbed, pc, job>>
    BY <1>14 DEF OnSessionRequest, tables
  <2>2. QED
    BY <1>0, <2>1, QuietStep DEF IInv
<1>3. CASE Kill
  BY <1>0, <1>3, KillStep DEF IInv
<1>4. ASSUME NEW w \in Writers, Notify(w) PROVE IInv'
  <2>1. \A u \in Writers : pc[u] \in Midway \/ pc'[u] \in Midway =>
            pc'[u] = pc[u] /\ job'[u] = job[u]
    BY <1>4 DEF IInv, TypeOK, ThreadsOK, Notify, End, Goto, Midway
  <2>2. UNCHANGED <<history, rows, disturbed>>
    BY <1>4 DEF Notify, tables
  <2>3. QED
    BY <1>0, <2>1, <2>2, QuietStep DEF IInv
<1>5. CASE CheckLast \/ RecordLast \/ AlarmFails
  <2>1. \A u \in Writers : pc[u] \in Midway \/ pc'[u] \in Midway =>
            pc'[u] = pc[u] /\ job'[u] = job[u]
    BY <1>5 DEF IInv, TypeOK, ThreadsOK, CheckLast, RecordLast, AlarmFails, End, Goto, Midway
  <2>2. UNCHANGED <<history, rows, disturbed>>
    BY <1>5 DEF CheckLast, RecordLast, AlarmFails, tables
  <2>3. QED
    BY <1>0, <2>1, <2>2, QuietStep DEF IInv
<1>6. ASSUME NEW f \in Friends, OpenChat(f) PROVE IInv'
  <2>1. \A u \in Writers : pc[u] \in Midway \/ pc'[u] \in Midway =>
            pc'[u] = pc[u] /\ job'[u] = job[u]
    BY <1>0, <1>6 DEF IInv, TypeOK, ThreadsOK, OpenChat, Goto, Midway
  <2>2. UNCHANGED <<history, rows, disturbed>>
    BY <1>6 DEF OpenChat, tables
  <2>3. QED
    BY <1>0, <2>1, <2>2, QuietStep DEF IInv
<1>7. CASE OnReceive \/ LoadMore \/ CloseChat \/ UNCHANGED vars
  <2>1. UNCHANGED <<history, rows, disturbed, pc, job>>
    BY <1>7 DEF OnReceive, LoadMore, CloseChat, vars, tables
  <2>2. QED
    BY <1>0, <2>1, QuietStep DEF IInv
<1>8. CASE Send
  <2>1. viewed \in Friends /\ pc[UI] = "idle" /\ AddFriendMessage(UI, viewed, viewed)
    BY <1>8 DEF IInv, TypeOK, ChatOK, Send
  <2>2. QED
    BY <1>0, <1>1, <2>1
<1>9. CASE LoadFirst \/ Register
  <2>1. \A u \in Writers : pc[u] \in Midway \/ pc'[u] \in Midway =>
            pc'[u] = pc[u] /\ job'[u] = job[u]
    BY <1>0, <1>9 DEF IInv, TypeOK, ThreadsOK, LoadFirst, Register, Goto, Midway
  <2>2. UNCHANGED <<history, rows, disturbed>>
    BY <1>9 DEF LoadFirst, Register, tables
  <2>3. QED
    BY <1>0, <2>1, <2>2, QuietStep DEF IInv
<1>10. QED
  BY <1>0, <1>1, <1>2, <1>3, <1>4, <1>5, <1>6, <1>7, <1>8, <1>9, <1>12, <1>13, <1>14
     DEF Next, WriterNext, ChatNext, Receive

LEMMA Inductive == Spec => []IInv
<1>1. QED
  BY InitIInv, NextStep, PTL DEF Spec

(* The tables, the threads and the open conversation keep their types, and  *)
(* broadcasts only ever wait for a conversation that is open.               *)
THEOREM TypeCorrect == Spec => []TypeOK
<1>1. IInv => TypeOK
  BY DEF IInv
<1>2. QED
  BY Inductive, <1>1, PTL

(* The conversation list shows the newest message of every friend whose     *)
(* last message was stored undisturbed, whatever happened before.           *)
THEOREM ListShowsNewest == Spec => []ListIsCurrent
<1>1. IInv => ListIsCurrent
  BY DEF IInv
<1>2. QED
  BY Inductive, <1>1, PTL

(* However the threads interleave and however often the process is killed,  *)
(* a friend has at most one row per thread that stores.                     *)
THEOREM DuplicatesAreBounded == Spec => []ListedAtMostOncePerThread
<1>1. IInv => ListedAtMostOncePerThread
  <2>1. ASSUME IInv, NEW f \in Friends PROVE Len(rows[f]) <= Cardinality(Writers)
    <3>1. Len(rows[f]) + Cardinality(Inserting(f)) <= Cardinality(Writers)
      BY <2>1 DEF IInv, RowsCounted
    <3>2. Len(rows[f]) \in Nat
      BY <2>1 DEF IInv, TypeOK, TablesOK
    <3>3. QED
      BY <3>1, <3>2, InsertingFinite, WritersFinite, FS_CardinalityType
  <2>2. QED
    BY <2>1 DEF ListedAtMostOncePerThread
<1>2. QED
  BY Inductive, <1>1, PTL

(* The conversation list shows the newest messages, and a friend at most    *)
(* once per thread that stores (putMsgListNew, addorupdatenewmessagelast). *)
THEOREM ListIsRight == Spec => []ListIsSound
<1>1. ListIsCurrent /\ ListedAtMostOncePerThread => ListIsSound
  BY DEF ListIsSound
<1>2. QED
  BY <1>1, ListShowsNewest, DuplicatesAreBounded, PTL

-----------------------------------------------------------------------------
(* The open conversation.                                                   *)

(* A message that a thread stores is in the history of its friend only.     *)
MessagesFresh ==
  /\ \A f \in Friends : \A i \in DOMAIN history[f] : history[f][i] <= taken
  /\ \A w \in Writers : job[w].msg <= taken
  /\ \A w \in Writers : pc[w] \in Stages =>
       \A f \in Friends \ {job[w].to} : \A i \in DOMAIN history[f] : history[f][i] # job[w].msg

(* The oldest row that was loaded is not newer than what the offset of the  *)
(* oldest page says now, so that the page after it begins no later.         *)
PagesMeet ==
  IF viewed = None \/ pc[UI] = "load" THEN start = 0
  ELSE 1 <= oldest /\ oldest <= PageFirst(viewed, start)

ChatInv == TypeOK /\ MessagesFresh /\ PagesMeet /\ NoHoles

Shown(m) == \E k \in DOMAIN view : view[k] = m

LEMMA InitChat == Init => ChatInv
<1> SUFFICES ASSUME Init PROVE ChatInv
  OBVIOUS
<1>1. TypeOK
  BY InitIInv DEF IInv
<1>2. MessagesFresh
  BY DEF Init, MessagesFresh, Stages, NoJob
<1>3. PagesMeet /\ NoHoles
  BY DEF Init, PagesMeet, NoHoles
<1>4. QED
  BY <1>1, <1>2, <1>3 DEF ChatInv

LEMMA AppendIs ==
  ASSUME NEW s \in Seq(Nat), NEW n \in Nat
  PROVE  /\ DOMAIN Append(s, n) = 1..Len(s) + 1 /\ DOMAIN s = 1..Len(s) /\ Len(s) \in Nat
         /\ Append(s, n)[Len(s) + 1] = n
         /\ \A k \in 1..Len(s) : Append(s, n)[k] = s[k] /\ s[k] \in Nat
OBVIOUS

(* Storing a message.                                                       *)
LEMMA FreshStored ==
  ASSUME TypeOK, MessagesFresh, NEW w \in Writers, NEW f \in Friends, NEW t, AddFriendMessage(w, f, t)
  PROVE  MessagesFresh'
<1>1. /\ taken \in Nat /\ taken' = taken + 1
      /\ history' = [history EXCEPT ![f] = Append(@, taken')]
      /\ job' = [job EXCEPT ![w] = [to |-> f, row |-> f, tell |-> t,
                                     msg |-> taken', absent |-> FALSE]]
      /\ pc' = [pc EXCEPT ![w] = IF w \in Files THEN "row" ELSE "query"]
  BY DEF AddFriendMessage, Goto, TypeOK, TablesOK
<1>2. history \in [Friends -> Seq(Nat)] /\ job \in [Writers -> Job] /\ pc \in [Writers -> PC]
  BY DEF TypeOK, TablesOK, ThreadsOK
<1>3. ASSUME NEW g \in Friends, NEW i \in DOMAIN history'[g]
      PROVE  \/ g = f /\ history'[g][i] = taken'
             \/ i \in DOMAIN history[g] /\ history'[g][i] = history[g][i] /\ history[g][i] \in Nat
  <2>1. CASE g = f
    <3>1. history'[g] = Append(history[g], taken') /\ history[g] \in Seq(Nat) /\ taken' \in Nat
      BY <1>1, <1>2, <2>1
    <3>2. /\ DOMAIN history'[g] = 1..Len(history[g]) + 1 /\ Len(history[g]) \in Nat
          /\ DOMAIN history[g] = 1..Len(history[g])
      BY <3>1, AppendIs
    <3>3. history'[g][Len(history[g]) + 1] = taken'
          /\ \A k \in 1..Len(history[g]) : history'[g][k] = history[g][k] /\ history[g][k] \in Nat
      BY <3>1, AppendIs
    <3>4. i = Len(history[g]) + 1 \/ i \in 1..Len(history[g])
      BY <1>3, <3>2
    <3>5. QED
      BY <2>1, <3>2, <3>3, <3>4
  <2>2. CASE g # f
    <3>1. history'[g] = history[g] /\ history[g] \in Seq(Nat)
      BY <1>1, <1>2, <2>2
    <3>2. QED
      BY <1>3, <3>1
  <2>3. QED
    BY <2>1, <2>2
<1>4. /\ job'[w].msg = taken' /\ job'[w].to = f
      /\ \A u \in Writers \ {w} : job'[u] = job[u] /\ pc'[u] = pc[u]
  BY <1>1, <1>2
<1>5. \A u \in Writers : job[u].msg \in Nat
  BY <1>2 DEF Job
<1>6. \A g \in Friends : \A i \in DOMAIN history'[g] : history'[g][i] <= taken'
  BY <1>1, <1>3 DEF MessagesFresh
<1>7. \A u \in Writers : job'[u].msg <= taken'
  BY <1>1, <1>4, <1>5 DEF MessagesFresh
<1>8. ASSUME NEW u \in Writers, pc'[u] \in Stages, NEW g \in Friends \ {job'[u].to},
             NEW i \in DOMAIN history'[g]
      PROVE  history'[g][i] # job'[u].msg
  <2>1. CASE u = w
    <3>1. i \in DOMAIN history[g] /\ history'[g][i] = history[g][i] /\ history[g][i] \in Nat
      BY <1>3, <1>4, <1>8, <2>1
    <3>2. history[g][i] <= taken
      BY <3>1 DEF MessagesFresh
    <3>3. QED
      BY <1>1, <1>4, <2>1, <3>1, <3>2
  <2>2. CASE u # w
    <3>1. job'[u] = job[u] /\ pc[u] \in Stages /\ job[u].msg <= taken /\ job[u].msg \in Nat
      BY <1>4, <1>5, <1>8, <2>2 DEF MessagesFresh
    <3>2. CASE history'[g][i] = taken'
      BY <1>1, <3>1, <3>2
    <3>3. CASE history'[g][i] # taken'
      <4>1. i \in DOMAIN history[g] /\ history'[g][i] = history[g][i]
        BY <1>3, <1>8, <3>3
      <4>2. history[g][i] # job[u].msg
        BY <1>8, <3>1, <4>1 DEF MessagesFresh
      <4>3. QED
        BY <3>1, <4>1, <4>2
    <3>4. QED
      BY <3>2, <3>3
  <2>3. QED
    BY <2>1, <2>2
<1>9. QED
  BY <1>6, <1>7, <1>8 DEF MessagesFresh

(* Where nothing is stored, threads go on with their messages or are done.  *)
LEMMA FreshKept ==
  ASSUME MessagesFresh, UNCHANGED <<history, taken>>, taken \in Nat,
         \A w \in Writers : \/ job'[w].msg = job[w].msg /\ job'[w].to = job[w].to
                               /\ (pc'[w] \in Stages => pc[w] \in Stages)
                            \/ job'[w].msg \in {0, job[w].msg} /\ pc'[w] \notin Stages
  PROVE  MessagesFresh'
<1>1. \A w \in Writers : job'[w].msg <= taken'
  BY DEF MessagesFresh
<1>2. ASSUME NEW w \in Writers, pc'[w] \in Stages
      PROVE  job'[w].msg = job[w].msg /\ job'[w].to = job[w].to /\ pc[w] \in Stages
  BY <1>2
<1>3. QED
  BY <1>1, <1>2 DEF MessagesFresh

LEMMA FreshStep ==
  ASSUME TypeOK, MessagesFresh, [Next]_vars
  PROVE  MessagesFresh'
<1>0. /\ taken \in Nat /\ pc \in [Writers -> PC] /\ job \in [Writers -> Job]
      /\ UI \in Writers /\ Carrier \in Writers
  BY WritersFinite DEF TypeOK, TablesOK, ThreadsOK
<1>1. ASSUME NEW w \in Writers, NEW f \in Friends, NEW t, AddFriendMessage(w, f, t) PROVE MessagesFresh'
  BY <1>1, FreshStored
<1>11. ASSUME NEW w \in Writers, AddFile(w) PROVE MessagesFresh'
  BY <1>1, <1>11 DEF AddFile, TypeOK, ThreadsOK
<1>12. ASSUME NEW f \in Friends, OnSessionRequest(f) PROVE MessagesFresh'
  <2>1. UNCHANGED <<history, taken, pc, job>>
    BY <1>12 DEF OnSessionRequest, tables
  <2>2. QED
    BY <1>0, <2>1, FreshKept
<1>13. ASSUME NEW w \in Writers, SaveFile(w) \/ ReadFriend(w) PROVE MessagesFresh'
  <2>1. /\ \A u \in Writers \ {w} : job'[u] = job[u] /\ pc'[u] = pc[u]
        /\ pc'[w] \in {"address", "add"}
        /\ job'[w] = [job[w] EXCEPT !.tell = curfuid] \/ job'[w] = [job[w] EXCEPT !.to = curfuid]
        /\ UNCHANGED <<history, taken>>
    BY <1>0, <1>13 DEF SaveFile, ReadFriend, Goto, tables
  <2>2. job[w] \in Job
    BY <1>0
  <2>3. job'[w].msg = job[w].msg /\ pc'[w] \notin Stages
    BY <2>1, <2>2 DEF Job, Stages
  <2>4. QED
    BY <1>0, <2>1, <2>3, FreshKept
<1>14. ASSUME NEW w \in Writers, ReadRowFriend(w) PROVE MessagesFresh'
  <2>1. job' = [job EXCEPT ![w].row = curfuid] /\ pc' = [pc EXCEPT ![w] = "query"]
        /\ pc[w] = "row" /\ UNCHANGED <<history, taken>>
    BY <1>14 DEF ReadRowFriend, Goto, tables
  <2>2. job[w] \in Job /\ job'[w] = [job[w] EXCEPT !.row = curfuid]
        /\ \A u \in Writers \ {w} : job'[u] = job[u] /\ pc'[u] = pc[u]
    BY <1>0, <2>1
  <2>3. job'[w].msg = job[w].msg /\ job'[w].to = job[w].to /\ pc[w] \in Stages
    BY <2>1, <2>2 DEF Job, Stages
  <2>4. QED
    BY <1>0, <2>1, <2>2, <2>3, FreshKept
<1>2. ASSUME NEW w \in Writers, QueryRow(w) PROVE MessagesFresh'
  <2>1. job' = [job EXCEPT ![w].absent = rows[job[w].row] = <<>>] /\ pc' = [pc EXCEPT ![w] = "put"]
        /\ pc[w] = "query" /\ UNCHANGED <<history, taken>>
    BY <1>2 DEF QueryRow, Goto, tables
  <2>2. job[w] \in Job /\ job'[w] = [job[w] EXCEPT !.absent = rows[job[w].row] = <<>>]
        /\ \A u \in Writers \ {w} : job'[u] = job[u] /\ pc'[u] = pc[u]
    BY <1>0, <2>1
  <2>3. job'[w].msg = job[w].msg /\ job'[w].to = job[w].to /\ pc[w] \in Stages
    BY <2>1, <2>2 DEF Job, Stages
  <2>4. QED
    BY <1>0, <2>1, <2>2, <2>3, FreshKept
<1>3. ASSUME NEW w \in Writers, PutRow(w) \/ Notify(w) PROVE MessagesFresh'
  <2>1. /\ \A u \in Writers \ {w} : job'[u] = job[u] /\ pc'[u] = pc[u]
        /\ pc[w] \in Stages
        /\ job'[w] = job[w] \/ (job'[w] = NoJob /\ pc'[w] = "idle")
        /\ UNCHANGED <<history, taken>>
    BY <1>0, <1>3 DEF PutRow, AfterRow, Notify, End, Goto, Stages, tables
  <2>2. NoJob.msg = 0 /\ "idle" \notin Stages
    BY DEF NoJob, Stages
  <2>3. QED
    BY <1>0, <2>1, <2>2, FreshKept
<1>4. CASE CheckLast \/ RecordLast \/ AlarmFails
  <2>1. /\ \A u \in Writers \ {Carrier} : job'[u] = job[u] /\ pc'[u] = pc[u]
        /\ pc[Carrier] \in Stages
        /\ job'[Carrier] = job[Carrier] \/ (job'[Carrier] = NoJob /\ pc'[Carrier] = "idle")
        /\ UNCHANGED <<history, taken>>
    BY <1>0, <1>4 DEF CheckLast, RecordLast, AlarmFails, End, Goto, Stages, tables
  <2>2. NoJob.msg = 0 /\ "idle" \notin Stages
    BY DEF NoJob, Stages
  <2>3. QED
    BY <1>0, <2>1, <2>2, FreshKept
<1>5. ASSUME NEW f \in Friends, OpenChat(f) \/ LoadFirst \/ Register PROVE MessagesFresh'
  <2>1. /\ \A u \in Writers \ {UI} : pc'[u] = pc[u]
        /\ pc'[UI] \in {"load", "register", "idle"}
        /\ UNCHANGED <<history, taken, job>>
    BY <1>0, <1>5 DEF OpenChat, LoadFirst, Register, Goto, tables
  <2>2. pc'[UI] \notin Stages
    BY <2>1 DEF Stages
  <2>3. QED
    BY <1>0, <2>1, <2>2, FreshKept
<1>6. CASE LoadFirst \/ Register
  <2>1. /\ \A u \in Writers \ {UI} : pc'[u] = pc[u]
        /\ pc'[UI] \in {"load", "register", "idle"}
        /\ UNCHANGED <<history, taken, job>>
    BY <1>0, <1>6 DEF LoadFirst, Register, Goto, tables
  <2>2. pc'[UI] \notin Stages
    BY <2>1 DEF Stages
  <2>3. QED
    BY <1>0, <2>1, <2>2, FreshKept
<1>7. CASE OnReceive \/ LoadMore \/ CloseChat \/ UNCHANGED vars
  <2>1. UNCHANGED <<history, taken, pc, job>>
    BY <1>7 DEF OnReceive, LoadMore, CloseChat, vars, tables
  <2>2. QED
    BY <1>0, <2>1, FreshKept
<1>8. CASE Kill
  <2>1. \A u \in Writers : job'[u] = NoJob /\ pc'[u] = "idle"
    BY <1>8 DEF Kill
  <2>2. UNCHANGED <<history, taken>> /\ NoJob.msg = 0 /\ "idle" \notin Stages
    BY <1>8 DEF Kill, NoJob, Stages, tables
  <2>3. QED
    BY <1>0, <2>1, <2>2, FreshKept
<1>9. CASE Send
  BY <1>0, <1>1, <1>9 DEF Send, TypeOK, ChatOK
<1>10. QED
  BY <1>0, <1>1, <1>2, <1>3, <1>4, <1>5, <1>6, <1>7, <1>8, <1>9, <1>11, <1>12, <1>13, <1>14
     DEF Next, WriterNext, ChatNext, Receive

(* The pages of a history that may have grown since the last one was loaded. *)
LEMMA PageIs ==
  ASSUME TypeOK, NEW f \in Friends, NEW n \in Nat
  PROVE  /\ PageFirst(f, n) \in Nat \ {0} /\ PageEnd(f, n) \in 0..Len(history[f])
         /\ PageFirst(f, n) = PageEnd(f, n + PageSize) + 1
         /\ PageEnd(f, 0) = Len(history[f])
         /\ \A i \in PageFirst(f, n)..PageEnd(f, n) :
              \E k \in DOMAIN Page(f, n) : Page(f, n)[k] = history[f][i]
<1>1. history[f] \in Seq(Nat) /\ Len(history[f]) \in Nat
  BY DEF TypeOK, TablesOK
<1>2. PageEnd(f, n) \in 0..Len(history[f]) /\ PageEnd(f, 0) = Len(history[f])
  BY <1>1 DEF PageEnd, AtLeast0
<1>3. PageFirst(f, n) \in Nat \ {0} /\ PageFirst(f, n) = PageEnd(f, n + PageSize) + 1
  BY <1>1, ChatAssumption DEF PageFirst, PageEnd, AtLeast0
<1>4. ASSUME NEW i \in PageFirst(f, n)..PageEnd(f, n)
      PROVE  \E k \in DOMAIN Page(f, n) : Page(f, n)[k] = history[f][i]
  <2> DEFINE a == PageFirst(f, n)
             b == PageEnd(f, n)
             s == history[f]
  <2>1. a \in Nat \ {0} /\ b \in 0..Len(s) /\ i \in a..b /\ s \in Seq(Nat) /\ Page(f, n) = SubSeq(s, a, b)
    BY <1>1, <1>2, <1>3, <1>4 DEF Page
  <2> HIDE DEF a, b, s
  <2>2. i - a + 1 \in 1..(b - a + 1) /\ i = a + (i - a + 1) - 1
    BY <2>1
  <2>3. DOMAIN SubSeq(s, a, b) = 1..(b - a + 1) /\ SubSeq(s, a, b)[i - a + 1] = s[i]
    BY <2>1, <2>2
  <2>4. QED
    BY <2>1, <2>2, <2>3 DEF s
<1>5. QED
  BY <1>2, <1>3, <1>4

LEMMA ConcatIs ==
  ASSUME NEW s \in Seq(Nat), NEW t \in Seq(Nat)
  PROVE  /\ \A k \in DOMAIN s : k \in DOMAIN (s \o t) /\ (s \o t)[k] = s[k]
         /\ \A k \in DOMAIN t : Len(s) + k \in DOMAIN (s \o t) /\ (s \o t)[Len(s) + k] = t[k]
<1>1. ASSUME NEW k \in DOMAIN s PROVE k \in DOMAIN (s \o t) /\ (s \o t)[k] = s[k]
  OBVIOUS
<1>2. ASSUME NEW k \in DOMAIN t
      PROVE  Len(s) + k \in DOMAIN (s \o t) /\ (s \o t)[Len(s) + k] = t[k]
  OBVIOUS
<1>3. QED
  BY <1>1, <1>2

LEMMA ShownAppended ==
  \A s \in Seq(Nat) : \A n \in Nat : \A m :
    (\E k \in DOMAIN Append(s, n) : Append(s, n)[k] = m) <=> (\E k \in DOMAIN s : s[k] = m) \/ n = m
<1> SUFFICES ASSUME NEW s \in Seq(Nat), NEW n \in Nat, NEW m
             PROVE  (\E k \in DOMAIN Append(s, n) : Append(s, n)[k] = m)
                      <=> (\E k \in DOMAIN s : s[k] = m) \/ n = m
  OBVIOUS
<1>1. DOMAIN Append(s, n) = 1..Len(s) + 1 /\ DOMAIN s = 1..Len(s) /\ Len(s) \in Nat
  BY AppendIs
<1>2. Append(s, n)[Len(s) + 1] = n /\ \A k \in 1..Len(s) : Append(s, n)[k] = s[k]
  BY AppendIs
<1>3. \A k \in 1..Len(s) + 1 : k \in 1..Len(s) \/ k = Len(s) + 1
  BY <1>1
<1>4. Len(s) + 1 \in 1..Len(s) + 1 /\ \A k \in 1..Len(s) : k \in 1..Len(s) + 1
  BY <1>1
<1>5. QED
  BY <1>1, <1>2, <1>3, <1>4

Tracked(m) == OnItsWay(m) \/ Shown(m)

(* Where no page is loaded, everything that was shown or on its way is so   *)
(* still, and what is stored newly is.                                      *)
LEMMA HolesKept ==
  ASSUME ChatInv, TypeOK', NEW f \in Friends, viewed = f, viewed' = f, pc[UI] # "load", pc'[UI] # "load",
         start' = start, oldest' = oldest, Len(history[f]) <= Len(history'[f]),
         \A i \in 1..Len(history[f]) : history'[f][i] = history[f][i],
         \A m \in Nat : Tracked(m) /\ (\E i \in DOMAIN history[f] : history[f][i] = m) => Tracked(m)',
         \A m \in Nat : \A i \in DOMAIN history'[f] :
           history'[f][i] = m /\ i \notin DOMAIN history[f] => Tracked(m)'
  PROVE  PagesMeet' /\ NoHoles'
<1>1. /\ history[f] \in Seq(Nat) /\ history'[f] \in Seq(Nat) /\ start \in Nat /\ oldest \in Nat
      /\ f # None
  BY ChatAssumption DEF ChatInv, TypeOK, TablesOK, ChatOK
<1>2. 1 <= oldest /\ oldest <= PageFirst(f, start)
  BY <1>1 DEF ChatInv, PagesMeet
<1>3. /\ PageFirst(f, start)' \in Nat /\ PageFirst(f, start) \in Nat
      /\ PageFirst(f, start) <= PageFirst(f, start)'
  <2>1. /\ PageEnd(f, start) \in Nat /\ PageEnd(f, start)' \in Nat
        /\ PageEnd(f, start) <= PageEnd(f, start)'
    <3>1. ASSUME NEW a \in Nat, NEW b \in Nat, a <= b, NEW n \in Nat
          PROVE  AtLeast0(a - n) \in Nat /\ AtLeast0(b - n) \in Nat /\ AtLeast0(a - n) <= AtLeast0(b - n)
      BY <3>1 DEF AtLeast0
    <3>2. Len(history[f]) \in Nat /\ Len(history'[f]) \in Nat /\ start \in Nat /\ start' = start
      BY <1>1
    <3>3. Len(history[f]) <= Len(history'[f])
      OBVIOUS
    <3>4. QED
      BY <3>1, <3>2, <3>3 DEF PageEnd
  <2>2. PageSize \in Nat
    BY ChatAssumption
  <2>3. QED
    BY <2>1, <2>2 DEF PageFirst, AtLeast0
<1>4. PagesMeet'
  <2>1. oldest' <= PageFirst(f, start)'
    BY <1>1, <1>2, <1>3
  <2>2. oldest' <= PageFirst(viewed, start)'
    BY <2>1
  <2>3. QED
    BY <1>1, <1>2, <2>2 DEF PagesMeet
<1>5. ASSUME NEW i \in oldest..Len(history'[f]), NEW m, m = history'[f][i]
      PROVE  Tracked(m)'
  <2>1. i \in DOMAIN history'[f] /\ m \in Nat
    BY <1>1, <1>2, <1>5
  <2>2. CASE i \in DOMAIN history[f]
    <3>1. DOMAIN history[f] = 1..Len(history[f]) /\ Len(history[f]) \in Nat
      BY <1>1
    <3>4. i \in 1..Len(history[f])
      BY <2>2, <3>1
    <3>5. history[f][i] = m
      BY <1>5, <3>4
    <3>6. i \in oldest..Len(history[f])
      BY <1>1, <1>5, <3>1, <3>4
    <3>2. Tracked(m)
      BY <1>1, <3>5, <3>6 DEF ChatInv, NoHoles, Shown, Tracked
    <3>3. QED
      BY <2>1, <2>2, <3>2, <3>5
  <2>3. CASE i \notin DOMAIN history[f]
    BY <1>5, <2>1, <2>3
  <2>4. QED
    BY <2>2, <2>3
<1>6. NoHoles'
  <2>1. ASSUME NEW i \in oldest'..Len(history[viewed]')
        PROVE  (OnItsWay(history[viewed][i]) \/ Shown(history[viewed][i]))'
    BY <1>5, <2>1 DEF Tracked, OnItsWay, Shown
  <2>2. QED
    BY <2>1 DEF NoHoles, OnItsWay, Shown
<1>7. QED
  BY <1>4, <1>6

(* No conversation shows anything, or it is about to load its first page.   *)
LEMMA NothingShown ==
  ASSUME start' = 0, viewed' = None \/ pc'[UI] = "load"
  PROVE  PagesMeet' /\ NoHoles'
BY DEF PagesMeet, NoHoles

(* A step that stores and loads nothing and loses no message.               *)
LEMMA HolesSame ==
  ASSUME ChatInv, TypeOK', UNCHANGED <<history, viewed, start, oldest>>,
         pc'[UI] = "load" <=> pc[UI] = "load",
         \A m \in Nat : /\ viewed \in Friends
                        /\ \E i \in DOMAIN history[viewed] : history[viewed][i] = m
                        /\ Tracked(m)
                        => Tracked(m)'
  PROVE  PagesMeet' /\ NoHoles'
<1>1. CASE viewed = None \/ pc[UI] = "load"
  <2>1. start = 0
    BY <1>1 DEF ChatInv, PagesMeet
  <2>2. QED
    BY <1>1, <2>1, NothingShown
<1>2. CASE viewed # None /\ pc[UI] # "load"
  <2>1. viewed \in Friends
    BY <1>2 DEF ChatInv, TypeOK, ChatOK
  <2>2. history[viewed] \in Seq(Nat)
    BY <2>1 DEF ChatInv, TypeOK, TablesOK
  <2>3. Len(history[viewed]) <= Len(history'[viewed])
    BY <2>2
  <2>4. \A m \in Nat : Tracked(m) /\ (\E i \in DOMAIN history[viewed] : history[viewed][i] = m) => Tracked(m)'
    BY <2>1
  <2>5. PICK f \in Friends : viewed = f
    BY <2>1
  <2>6. QED
    BY <1>2, <2>3, <2>4, <2>5, HolesKept
<1>3. QED
  BY <1>1, <1>2

(* Threads that go on keep their messages, but for one that is told.        *)
LEMMA WayKept ==
  ASSUME NEW m \in Nat, Tracked(m), missed \subseteq missed', view' = view, inbox' = inbox,
         \A w \in Receivers : pc[w] \in Stages => pc'[w] \in Stages /\ job'[w].msg = job[w].msg
  PROVE  Tracked(m)'
<1>1. OnItsWay(m) => OnItsWay(m)'
  BY DEF OnItsWay
<1>2. Shown(m) => Shown(m)'
  BY DEF Shown
<1>3. QED
  BY <1>1, <1>2 DEF Tracked

LEMMA HistoryGrows ==
  ASSUME NEW h \in [Friends -> Seq(Nat)], NEW f \in Friends, NEW g \in Friends, NEW n \in Nat
  PROVE  LET k == [h EXCEPT ![f] = Append(@, n)]
         IN  /\ \A i \in 1..Len(h[g]) : k[g][i] = h[g][i]
             /\ Len(h[g]) <= Len(k[g])
             /\ \A i \in DOMAIN k[g] : i \in DOMAIN h[g] \/ k[g][i] = n
<1> DEFINE k == [h EXCEPT ![f] = Append(@, n)]
<1>1. h[g] \in Seq(Nat) /\ Len(h[g]) \in Nat
  OBVIOUS
<1>2. CASE g = f
  <2>1. k[g] = Append(h[g], n)
    BY <1>2
  <2> HIDE DEF k
  <2>2. /\ DOMAIN Append(h[g], n) = 1..Len(h[g]) + 1 /\ DOMAIN h[g] = 1..Len(h[g])
        /\ Append(h[g], n)[Len(h[g]) + 1] = n
        /\ \A i \in 1..Len(h[g]) : Append(h[g], n)[i] = h[g][i]
    BY <1>1, AppendIs
  <2>3. \A i \in 1..Len(h[g]) + 1 : i \in 1..Len(h[g]) \/ i = Len(h[g]) + 1
    BY <1>1
  <2>4. Len(Append(h[g], n)) = Len(h[g]) + 1
    BY <1>1
  <2>5. QED
    BY <1>1, <2>1, <2>2, <2>3, <2>4 DEF k
<1>3. CASE g # f
  BY <1>1, <1>3
<1>4. QED
  BY <1>2, <1>3

LEMMA ReceiveHoles ==
  ASSUME ChatInv, TypeOK', NEW w \in Receivers, NEW f \in Friends, NEW t, AddFriendMessage(w, f, t),
         pc[w] \in {"idle", "add"}, UNCHANGED chat
  PROVE  PagesMeet' /\ NoHoles'
<1>0. /\ w \in Writers /\ w # UI /\ UI \in Writers
      /\ pc \in [Writers -> PC] /\ job \in [Writers -> Job] /\ history \in [Friends -> Seq(Nat)]
  BY ChatAssumption, WritersFinite DEF Writers, ChatInv, TypeOK, TablesOK, ThreadsOK
<1>1. /\ pc[w] \notin Stages /\ pc'[w] \in Stages /\ job'[w].msg = taken'
      /\ \A u \in Writers \ {w} : pc'[u] = pc[u] /\ job'[u] = job[u]
      /\ history' = [history EXCEPT ![f] = Append(@, taken')]
      /\ missed' = missed /\ taken' \in Nat
      /\ UNCHANGED <<viewed, view, start, inbox, oldest>>
  BY <1>0 DEF AddFriendMessage, Goto, chat, ChatInv, TypeOK, TablesOK, Stages
<1>2. CASE viewed = None \/ pc[UI] = "load"
  <2>1. start = 0
    BY <1>2 DEF ChatInv, PagesMeet
  <2>2. QED
    BY <1>0, <1>1, <1>2, <2>1, NothingShown
<1>3. CASE viewed # None /\ pc[UI] # "load"
  <2>1. PICK g \in Friends : viewed = g
    BY <1>3 DEF ChatInv, TypeOK, ChatOK
  <2>2. \A m \in Nat : Tracked(m) => Tracked(m)'
    <3>1. \A u \in Receivers : pc[u] \in Stages => pc'[u] \in Stages /\ job'[u].msg = job[u].msg
      BY <1>1 DEF Writers
    <3>2. QED
      BY <1>1, <3>1, WayKept
  <2>3. /\ \A i \in 1..Len(history[g]) : history'[g][i] = history[g][i]
        /\ Len(history[g]) <= Len(history'[g])
        /\ \A i \in DOMAIN history'[g] : i \in DOMAIN history[g] \/ history'[g][i] = taken'
    BY <1>0, <1>1, HistoryGrows
  <2>4. \A m \in Nat : m = taken' => Tracked(m)'
    BY <1>1 DEF Tracked, OnItsWay
  <2>5. QED
    BY <1>0, <1>1, <1>3, <2>1, <2>2, <2>3, <2>4, HolesKept
<1>4. QED
  BY <1>2, <1>3

(* What the user sends is shown at once.                                    *)
LEMMA SendHoles ==
  ASSUME ChatInv, TypeOK', Send
  PROVE  PagesMeet' /\ NoHoles'
<1>0. /\ UI \in Writers /\ UI \notin Receivers /\ view \in Seq(Nat) /\ viewed \in Friends
      /\ pc \in [Writers -> PC] /\ job \in [Writers -> Job] /\ history \in [Friends -> Seq(Nat)]
  BY ChatAssumption, WritersFinite DEF Send, ChatInv, TypeOK, TablesOK, ThreadsOK, ChatOK
<1>1. /\ pc[UI] = "idle" /\ pc'[UI] \in Stages
      /\ \A u \in Writers \ {UI} : pc'[u] = pc[u] /\ job'[u] = job[u]
      /\ history' = [history EXCEPT ![viewed] = Append(@, taken')]
      /\ missed' = missed /\ taken' \in Nat /\ view' = Append(view, taken')
      /\ UNCHANGED <<viewed, start, inbox, oldest>>
  BY <1>0 DEF Send, AddFriendMessage, Goto, Files, Stages, ChatInv, TypeOK, TablesOK
<1>2. PICK g \in Friends : viewed = g
  BY <1>0
<1>3. \A m \in Nat : OnItsWay(m) => OnItsWay(m)'
  BY <1>0, <1>1 DEF OnItsWay, Writers
<1>4. \A m \in Nat : Shown(m) \/ m = taken' => Shown(m)'
  <2>1. view \in Seq(Nat)
    BY <1>0
  <2>2. \A n \in Nat : \A m :
          (\E k \in DOMAIN Append(view, n) : Append(view, n)[k] = m)
            <=> (\E k \in DOMAIN view : view[k] = m) \/ n = m
    BY <2>1, ShownAppended, Zenon
  <2>3. QED
    BY <1>1, <2>2 DEF Shown
<1>5. /\ \A i \in 1..Len(history[g]) : history'[g][i] = history[g][i]
      /\ Len(history[g]) <= Len(history'[g])
      /\ \A i \in DOMAIN history'[g] : i \in DOMAIN history[g] \/ history'[g][i] = taken'
  BY <1>0, <1>1, <1>2, HistoryGrows
<1>6. \A m \in Nat : Tracked(m) \/ m = taken' => Tracked(m)'
  BY <1>3, <1>4 DEF Tracked
<1>7. pc[UI] # "load" /\ pc'[UI] # "load"
  BY <1>1 DEF Stages
<1>8. QED
  BY <1>1, <1>2, <1>5, <1>6, <1>7, HolesKept

(* Between the tables a receiving thread keeps its message.                 *)
LEMMA TablesHoles ==
  ASSUME ChatInv, TypeOK', NEW w \in Writers, ReadRowFriend(w) \/ QueryRow(w) \/ PutRow(w)
  PROVE  PagesMeet' /\ NoHoles'
<1>0. UI \notin Receivers /\ pc \in [Writers -> PC] /\ job \in [Writers -> Job] /\ UI \in Writers
  BY ChatAssumption, WritersFinite DEF ChatInv, TypeOK, ThreadsOK
<1>1. /\ pc[w] \in {"row", "query", "put"} /\ UNCHANGED <<history, chat, missed>>
      /\ \A u \in Writers \ {w} : pc'[u] = pc[u] /\ job'[u] = job[u]
  BY <1>0 DEF ReadRowFriend, QueryRow, PutRow, AfterRow, End, Goto, tables
<1>2. pc'[w] # "load" /\ pc[w] # "load"
  BY <1>0 DEF ReadRowFriend, QueryRow, PutRow, AfterRow, End, Goto
<1>3. w \in Receivers => pc'[w] \in Stages /\ job'[w].msg = job[w].msg
  <2>1. CASE QueryRow(w)
    <3>1. job[w] \in Job /\ job'[w] = [job[w] EXCEPT !.absent = rows[job[w].row] = <<>>] /\ pc'[w] = "put"
      BY <1>0, <2>1 DEF QueryRow, Goto
    <3>2. QED
      BY <3>1 DEF Job, Stages
  <2>2. CASE PutRow(w)
    BY <1>0, <2>2 DEF PutRow, AfterRow, Goto, Stages
  <2>4. CASE ReadRowFriend(w)
    <3>1. job[w] \in Job /\ job'[w] = [job[w] EXCEPT !.row = curfuid] /\ pc'[w] = "query"
      BY <1>0, <2>4 DEF ReadRowFriend, Goto
    <3>2. QED
      BY <3>1 DEF Job, Stages
  <2>3. QED
    BY <2>1, <2>2, <2>4
<1>4. \A u \in Receivers : pc[u] \in Stages => pc'[u] \in Stages /\ job'[u].msg = job[u].msg
  BY <1>1, <1>3 DEF Writers
<1>5. UNCHANGED <<view, inbox, missed, viewed, start, oldest, history>>
  BY <1>1 DEF chat
<1>6. \A m \in Nat : Tracked(m) => Tracked(m)'
  BY <1>4, <1>5, WayKept
<1>7. pc'[UI] = "load" <=> pc[UI] = "load"
  BY <1>0, <1>1, <1>2
<1>8. QED
  BY <1>5, <1>6, <1>7, HolesSame

LEMMA LastHoles ==
  ASSUME ChatInv, TypeOK', CheckLast \/ RecordLast
  PROVE  PagesMeet' /\ NoHoles'
<1>0. Carrier # UI /\ Carrier \in Writers /\ pc \in [Writers -> PC] /\ UI \in Writers
  BY ChatAssumption, WritersFinite DEF ChatInv, TypeOK, ThreadsOK
<1>1. /\ UNCHANGED <<history, chat, missed, job>> /\ pc'[Carrier] \in Stages
      /\ \A u \in Writers \ {Carrier} : pc'[u] = pc[u]
  BY <1>0 DEF CheckLast, RecordLast, Goto, tables, Stages
<1>2. UNCHANGED <<view, inbox, missed, viewed, start, oldest, history>>
  BY <1>1 DEF chat
<1>3. \A u \in Receivers : pc[u] \in Stages => pc'[u] \in Stages /\ job'[u].msg = job[u].msg
  BY <1>1 DEF Writers
<1>4. \A m \in Nat : Tracked(m) => Tracked(m)'
  BY <1>2, <1>3, WayKept
<1>5. pc'[UI] = "load" <=> pc[UI] = "load"
  BY <1>0, <1>1
<1>6. QED
  BY <1>2, <1>4, <1>5, HolesSame

(* A thread that ends hands its message to the conversation, or has missed  *)
(* it; a message of another friend is not in the history that is shown.     *)
LEMMA EndHoles ==
  ASSUME ChatInv, TypeOK', NEW w \in Receivers, Notify(w) \/ (w = Carrier /\ AlarmFails)
  PROVE  PagesMeet' /\ NoHoles'
<1> DEFINE j == job[w]
<1>0. /\ w \in Writers /\ w # UI /\ UI \in Writers /\ pc \in [Writers -> PC] /\ job \in [Writers -> Job]
      /\ inbox \in Seq(Nat)
  BY ChatAssumption, WritersFinite DEF Writers, ChatInv, TypeOK, ThreadsOK, ChatOK
<1>1. /\ pc[w] = "notify" /\ UNCHANGED <<history, viewed, view, start, oldest>>
      /\ \A u \in Writers \ {w} : pc'[u] = pc[u] /\ job'[u] = job[u]
  BY <1>0 DEF Notify, AlarmFails, End, Goto, tables, chat
<1>2. j.msg \in Nat
  BY <1>0 DEF Job
<1>3. \/ inbox' = Append(inbox, j.msg) /\ missed' = missed
      \/ inbox' = inbox /\ missed' = Untold(j)
  BY DEF Notify, AlarmFails, chat
<1>4. missed \subseteq missed' /\ \A m \in Nat : (\E i \in DOMAIN inbox : inbox[i] = m)
                                             => \E i \in DOMAIN inbox' : inbox'[i] = m
  <2>1. CASE inbox' = Append(inbox, j.msg) /\ missed' = missed
    <3>1. \A m \in Nat : (\E i \in DOMAIN inbox : inbox[i] = m)
            => \E i \in DOMAIN Append(inbox, j.msg) : Append(inbox, j.msg)[i] = m
      BY <1>0, <1>2, ShownAppended
    <3>2. QED
      BY <2>1, <3>1
  <2>2. CASE inbox' = inbox /\ missed' = Untold(j)
    BY <2>2 DEF Untold
  <2>3. QED
    BY <1>3, <2>1, <2>2
<1>5. viewed = j.to => j.msg \in missed' \/ \E i \in DOMAIN inbox' : inbox'[i] = j.msg
  <2>1. CASE inbox' = Append(inbox, j.msg)
    <3>1. ASSUME NEW n \in Nat
          PROVE  \E i \in DOMAIN Append(inbox, n) : Append(inbox, n)[i] = n
      <4>1. inbox \in Seq(Nat)
        BY <1>0
      <4>2. /\ DOMAIN Append(inbox, n) = 1..Len(inbox) + 1 /\ Len(inbox) \in Nat
            /\ Append(inbox, n)[Len(inbox) + 1] = n
        BY <4>1, AppendIs
      <4>3. Len(inbox) + 1 \in 1..Len(inbox) + 1
        BY <4>2
      <4>4. QED
        BY <4>2, <4>3
    <3>2. QED
      BY <1>2, <2>1, <3>1
  <2>2. CASE missed' = Untold(j)
    BY <2>2 DEF Untold
  <2>3. QED
    BY <1>3, <2>1, <2>2
<1>6. ASSUME NEW m \in Nat, viewed \in Friends, NEW i \in DOMAIN history[viewed], history[viewed][i] = m,
             Tracked(m)
      PROVE  Tracked(m)'
  <2>1. CASE Shown(m)
    BY <1>1, <2>1 DEF Shown, Tracked
  <2>2. CASE m \in missed \/ \E k \in DOMAIN inbox : inbox[k] = m
    BY <1>4, <1>6, <2>2 DEF Tracked, OnItsWay
  <2>3. ASSUME NEW u \in Receivers, pc[u] \in Stages, job[u].msg = m
        PROVE  Tracked(m)'
    <3>1. CASE u # w
      BY <1>1, <2>3, <3>1 DEF Tracked, OnItsWay, Writers
    <3>2. CASE u = w
      <4>1. viewed = j.to
        BY <1>0, <1>1, <1>6, <2>3, <3>2 DEF ChatInv, MessagesFresh, Stages
      <4>2. m \in missed' \/ \E k \in DOMAIN inbox' : inbox'[k] = m
        BY <1>5, <2>3, <3>2, <4>1
      <4>3. QED
        BY <4>2 DEF Tracked, OnItsWay
    <3>3. QED
      BY <3>1, <3>2
  <2>4. QED
    BY <1>6, <2>1, <2>2, <2>3 DEF Tracked, OnItsWay
<1>7. pc'[UI] = "load" <=> pc[UI] = "load"
  BY <1>0, <1>1
<1>8. \A m \in Nat : /\ viewed \in Friends
                     /\ \E i \in DOMAIN history[viewed] : history[viewed][i] = m
                     /\ Tracked(m)
                     => Tracked(m)'
  BY <1>6
<1>9. QED
  BY <1>1, <1>7, <1>8, HolesSame

(* The first page ends with the newest message.                             *)
LEMMA LoadFirstHoles ==
  ASSUME ChatInv, LoadFirst
  PROVE  PagesMeet' /\ NoHoles'
<1>1. /\ viewed \in Friends /\ viewed # None /\ start = 0 /\ UI \in Writers
      /\ pc \in [Writers -> PC] /\ history \in [Friends -> Seq(Nat)]
  BY WritersFinite DEF LoadFirst, ChatInv, TypeOK, TablesOK, ThreadsOK, ChatOK, PagesMeet
<1>2. /\ view' = Page(viewed, 0) /\ oldest' = PageFirst(viewed, 0) /\ pc'[UI] = "register"
      /\ UNCHANGED <<viewed, start, history>>
  BY <1>1 DEF LoadFirst, Goto, tables
<1>3. /\ PageFirst(viewed, 0) \in Nat \ {0} /\ PageEnd(viewed, 0) = Len(history[viewed])
      /\ \A i \in PageFirst(viewed, 0)..PageEnd(viewed, 0) :
           \E k \in DOMAIN Page(viewed, 0) : Page(viewed, 0)[k] = history[viewed][i]
  BY <1>1, PageIs DEF ChatInv
<1>4. PageFirst(viewed, start)' = PageFirst(viewed, 0)
  BY <1>1, <1>2 DEF PageFirst, PageEnd
<1>5. PagesMeet'
  BY <1>1, <1>2, <1>3, <1>4 DEF PagesMeet
<1>6. \A i \in oldest'..Len(history'[viewed']) : \E k \in DOMAIN view' : view'[k] = history'[viewed'][i]
  BY <1>2, <1>3
<1>7. NoHoles'
  BY <1>6 DEF NoHoles
<1>8. QED
  BY <1>5, <1>7

(* A later page ends at the oldest row or beyond it.                        *)
LEMMA LoadMoreHoles ==
  ASSUME ChatInv, LoadMore
  PROVE  PagesMeet' /\ NoHoles'
<1> DEFINE next == start + PageSize
           first == PageFirst(viewed, next)
<1>1. /\ viewed \in Friends /\ viewed # None /\ pc[UI] = "idle"
      /\ view \in Seq(Nat) /\ start \in Nat /\ next \in Nat /\ oldest \in Nat
  BY ChatAssumption DEF LoadMore, ChatInv, TypeOK, ChatOK
<1>2. /\ view' = Page(viewed, next) \o view /\ oldest' = Least(oldest, first) /\ start' = next
      /\ UNCHANGED <<viewed, pc, history, job, inbox, missed>>
  BY DEF LoadMore, tables
<1>3. 1 <= oldest /\ oldest <= PageFirst(viewed, start)
  BY <1>1 DEF ChatInv, PagesMeet
<1>4. /\ first \in Nat \ {0} /\ PageEnd(viewed, next) \in Nat
      /\ PageFirst(viewed, start) = PageEnd(viewed, next) + 1
      /\ \A i \in first..PageEnd(viewed, next) :
           \E k \in DOMAIN Page(viewed, next) : Page(viewed, next)[k] = history[viewed][i]
  <2>1. TypeOK /\ Len(history[viewed]) \in Nat
    BY <1>1 DEF ChatInv, TypeOK, TablesOK
  <2>2. PageFirst(viewed, start) = PageEnd(viewed, next) + 1
    BY <1>1, <2>1, PageIs
  <2>3. /\ first \in Nat \ {0} /\ PageEnd(viewed, next) \in 0..Len(history[viewed])
        /\ \A i \in first..PageEnd(viewed, next) :
             \E k \in DOMAIN Page(viewed, next) : Page(viewed, next)[k] = history[viewed][i]
    <3> HIDE DEF next
    <3>1. QED
      BY <1>1, <2>1, PageIs DEF first
  <2>4. QED
    BY <2>1, <2>2, <2>3
<1>5. Page(viewed, next) \in Seq(Nat) /\ history[viewed] \in Seq(Nat)
  BY <1>1, PageIsSeq DEF ChatInv, TypeOK, TablesOK
<1>6. 1 <= oldest' /\ oldest' <= first /\ (oldest' = oldest \/ oldest' = first) /\ oldest' \in Nat
  BY <1>1, <1>2, <1>3, <1>4 DEF Least
<1>7. PageFirst(viewed, start)' = first
  BY <1>2 DEF PageFirst, PageEnd
<1>8. PagesMeet'
  BY <1>1, <1>2, <1>6, <1>7 DEF PagesMeet
<1>9. ASSUME NEW m
       PROVE  LET p == Page(viewed, next)
              IN  (\E k \in DOMAIN p : p[k] = m) \/ (\E k \in DOMAIN view : view[k] = m)
                    => \E k \in DOMAIN (p \o view) : (p \o view)[k] = m
  <2> DEFINE p == Page(viewed, next)
  <2>1. p \in Seq(Nat) /\ view \in Seq(Nat)
    BY <1>1, <1>5
  <2> HIDE DEF p
  <2>2. /\ \A k \in DOMAIN p : k \in DOMAIN (p \o view) /\ (p \o view)[k] = p[k]
        /\ \A k \in DOMAIN view : Len(p) + k \in DOMAIN (p \o view) /\ (p \o view)[Len(p) + k] = view[k]
    BY <2>1, ConcatIs
  <2>3. (\E k \in DOMAIN p : p[k] = m) \/ (\E k \in DOMAIN view : view[k] = m)
          => \E k \in DOMAIN (p \o view) : (p \o view)[k] = m
    BY <2>2, Zenon
  <2>4. QED
    BY <2>3 DEF p
<1>10. ASSUME NEW i \in oldest'..Len(history[viewed]), NEW m, m = history[viewed][i]
      PROVE  OnItsWay(m)' \/ \E k \in DOMAIN view' : view'[k] = m
  <2>1. CASE i >= oldest
    <3>1. i \in oldest..Len(history[viewed])
      BY <1>1, <1>5, <1>6, <1>10, <2>1
    <3>2. OnItsWay(m) \/ \E k \in DOMAIN view : view[k] = m
      BY <1>1, <1>10, <3>1 DEF ChatInv, NoHoles
    <3>3. OnItsWay(m) => OnItsWay(m)'
      BY <1>2 DEF OnItsWay
    <3>4. (\E k \in DOMAIN view : view[k] = m) => \E k \in DOMAIN view' : view'[k] = m
      BY <1>2, <1>9
    <3>5. QED
      BY <3>2, <3>3, <3>4
  <2>2. CASE ~(i >= oldest)
    <3>1. i \in first..PageEnd(viewed, next)
      <4>1. i \in Nat /\ oldest' <= i /\ i < oldest
        BY <1>1, <1>5, <1>6, <1>10, <2>2
      <4>2. oldest' = first
        BY <1>6, <4>1
      <4>3. first \in Nat /\ PageEnd(viewed, next) \in Nat /\ oldest <= PageEnd(viewed, next) + 1
        BY <1>3, <1>4
      <4> HIDE DEF first, next
      <4>4. QED
        BY <1>1, <4>1, <4>2, <4>3
    <3>2. \E k \in DOMAIN Page(viewed, next) : Page(viewed, next)[k] = m
      BY <1>4, <1>10, <3>1
    <3>3. QED
      BY <1>2, <1>9, <3>2
  <2>3. QED
    BY <2>1, <2>2
<1>11. NoHoles'
  BY <1>2, <1>10 DEF NoHoles, OnItsWay
<1>12. QED
  BY <1>8, <1>11

LEMMA HeadTail ==
  ASSUME NEW s \in Seq(Nat), s # <<>>
  PROVE  /\ Head(s) \in Nat /\ Head(s) = s[1]
         /\ \A i \in DOMAIN s : i = 1 \/ (i - 1 \in DOMAIN Tail(s) /\ Tail(s)[i - 1] = s[i])
<1>1. /\ Len(s) \in Nat \ {0} /\ DOMAIN s = 1..Len(s) /\ Head(s) = s[1]
      /\ DOMAIN Tail(s) = 1..(Len(s) - 1)
  OBVIOUS
<1>2. ASSUME NEW i \in 2..Len(s)
      PROVE  i - 1 \in 1..(Len(s) - 1) /\ Tail(s)[i - 1] = s[i]
  BY <1>1
<1>3. QED
  BY <1>1, <1>2

(* The head of the inbox is shown.                                          *)
LEMMA OnReceiveHoles ==
  ASSUME ChatInv, TypeOK', OnReceive
  PROVE  PagesMeet' /\ NoHoles'
<1>1. view \in Seq(Nat) /\ inbox \in Seq(Nat) /\ inbox # <<>>
  BY DEF OnReceive, ChatInv, TypeOK, ChatOK
<1>2. /\ view' = Append(view, Head(inbox)) /\ inbox' = Tail(inbox)
      /\ UNCHANGED <<history, viewed, start, oldest, pc, job, missed>>
  BY DEF OnReceive, tables
<1>3. Head(inbox) \in Nat /\ Head(inbox) = inbox[1]
      /\ \A i \in DOMAIN inbox : i = 1 \/ (i - 1 \in DOMAIN Tail(inbox) /\ Tail(inbox)[i - 1] = inbox[i])
  BY <1>1, HeadTail
<1>4. \A m \in Nat : (\E k \in DOMAIN view : view[k] = m) \/ m = Head(inbox)
                     => \E k \in DOMAIN view' : view'[k] = m
  <2>1. view \in Seq(Nat)
    BY <1>1
  <2>2. \A n \in Nat : \A m :
          (\E k \in DOMAIN Append(view, n) : Append(view, n)[k] = m)
            <=> (\E k \in DOMAIN view : view[k] = m) \/ n = m
    BY <2>1, ShownAppended, Zenon
  <2>3. QED
    BY <1>2, <1>3, <2>2
<1>5. ASSUME NEW m \in Nat, Tracked(m) PROVE Tracked(m)'
  <2>1. CASE \E i \in DOMAIN inbox : inbox[i] = m
    <3>1. m = Head(inbox) \/ \E i \in DOMAIN inbox' : inbox'[i] = m
      BY <1>2, <1>3, <2>1
    <3>2. QED
      BY <1>4, <3>1 DEF Tracked, OnItsWay, Shown
  <2>2. CASE ~(\E i \in DOMAIN inbox : inbox[i] = m)
    BY <1>2, <1>4, <1>5, <2>2 DEF Tracked, OnItsWay, Shown
  <2>3. QED
    BY <2>1, <2>2
<1>6. QED
  BY <1>2, <1>5, HolesSame

LEMMA HolesStep ==
  ASSUME ChatInv, TypeOK', [Next]_vars
  PROVE  PagesMeet' /\ NoHoles'
<1>0. /\ UI \in Writers /\ Carrier \in Receivers /\ pc \in [Writers -> PC]
  BY ChatAssumption, WritersFinite DEF ChatInv, TypeOK, ThreadsOK
<1>1. ASSUME NEW f \in Friends, Receive(f) PROVE PagesMeet' /\ NoHoles'
  BY <1>0, <1>1, ReceiveHoles DEF Receive
<1>14. ASSUME NEW w \in Writers, AddFile(w) PROVE PagesMeet' /\ NoHoles'
  <2>1. /\ w \in Receivers /\ job[w].to \in Friends /\ pc[w] = "add" /\ UNCHANGED chat
        /\ AddFriendMessage(w, job[w].to, job[w].tell)
    BY <1>14 DEF AddFile, ChatInv, TypeOK, ThreadsOK, Files
  <2>2. QED
    BY <2>1, ReceiveHoles
<1>15. ASSUME NEW w \in Writers, SaveFile(w) \/ ReadFriend(w) PROVE PagesMeet' /\ NoHoles'
  <2>1. /\ UNCHANGED <<history, viewed, start, oldest, view, inbox, missed>>
        /\ \A u \in Writers \ {w} : pc'[u] = pc[u] /\ job'[u] = job[u]
        /\ pc[w] \notin Stages /\ w \in Files
    BY <1>0, <1>15 DEF SaveFile, ReadFriend, Goto, tables, chat, Stages, ChatInv, TypeOK, ThreadsOK
  <2>2. w # UI
    BY <2>1, ChatAssumption DEF Files
  <2>3. \A u \in Receivers : pc[u] \in Stages => pc'[u] \in Stages /\ job'[u].msg = job[u].msg
    BY <2>1 DEF Writers
  <2>4. \A m \in Nat : Tracked(m) => Tracked(m)'
    BY <2>1, <2>3, WayKept
  <2>5. QED
    BY <1>0, <2>1, <2>2, <2>4, HolesSame
<1>16. ASSUME NEW f \in Friends, OnSessionRequest(f) PROVE PagesMeet' /\ NoHoles'
  <2>1. UNCHANGED <<history, viewed, start, oldest, view, inbox, missed, job, pc>>
    BY <1>16 DEF OnSessionRequest, tables, chat
  <2>2. \A m \in Nat : Tracked(m) => Tracked(m)'
    BY <2>1, WayKept
  <2>3. QED
    BY <2>1, <2>2, HolesSame
<1>2. ASSUME NEW w \in Writers, ReadRowFriend(w) \/ QueryRow(w) \/ PutRow(w) PROVE PagesMeet' /\ NoHoles'
  BY <1>2, TablesHoles
<1>3. ASSUME NEW w \in Writers, Notify(w) PROVE PagesMeet' /\ NoHoles'
  <2>1. w \in Receivers
    BY <1>3 DEF Notify, ChatInv, TypeOK, ThreadsOK
  <2>2. QED
    BY <1>3, <2>1, EndHoles
<1>4. CASE CheckLast \/ RecordLast
  BY <1>4, LastHoles
<1>5. CASE AlarmFails
  BY <1>0, <1>5, EndHoles
<1>6. ASSUME NEW f \in Friends, OpenChat(f) PROVE PagesMeet' /\ NoHoles'
  <2>1. start = 0
    BY <1>6 DEF OpenChat, ChatInv, PagesMeet
  <2>2. start' = 0 /\ pc'[UI] = "load"
    BY <1>0, <1>6, <2>1 DEF OpenChat, Goto
  <2>3. QED
    BY <2>2, NothingShown
<1>7. CASE LoadFirst
  BY <1>7, LoadFirstHoles
<1>8. CASE Register \/ UNCHANGED vars
  <2>1. /\ UNCHANGED <<history, viewed, start, oldest, view, inbox, missed, job>>
        /\ \A u \in Writers \ {UI} : pc'[u] = pc[u]
        /\ pc'[UI] = "load" <=> pc[UI] = "load"
    BY <1>0, <1>8 DEF Register, Goto, vars, tables, chat
  <2>2. UI \notin Receivers
    BY ChatAssumption
  <2>3. \A u \in Receivers : pc[u] \in Stages => pc'[u] \in Stages /\ job'[u].msg = job[u].msg
    BY <2>1, <2>2 DEF Writers
  <2>4. \A m \in Nat : Tracked(m) => Tracked(m)'
    BY <2>1, <2>3, WayKept
  <2>5. QED
    BY <2>1, <2>4, HolesSame
<1>9. CASE OnReceive
  BY <1>9, OnReceiveHoles
<1>10. CASE LoadMore
  BY <1>10, LoadMoreHoles
<1>11. CASE Send
  BY <1>11, SendHoles
<1>12. CASE CloseChat \/ Kill
  BY <1>12, NothingShown DEF CloseChat, Kill, ChatGone
<1>13. QED
  BY <1>1, <1>2, <1>3, <1>4, <1>5, <1>6, <1>7, <1>8, <1>9, <1>10, <1>11, <1>12, <1>14, <1>15, <1>16
     DEF Next, WriterNext, ChatNext

LEMMA ChatInvStep == ChatInv /\ [Next]_vars => ChatInv'
<1> SUFFICES ASSUME ChatInv, [Next]_vars PROVE ChatInv'
  OBVIOUS
<1>1. TypeOK'
  BY TypeStep DEF ChatInv
<1>2. MessagesFresh'
  BY FreshStep DEF ChatInv
<1>3. PagesMeet' /\ NoHoles'
  BY <1>1, HolesStep
<1>4. QED
  BY <1>1, <1>2, <1>3 DEF ChatInv

(* The open conversation has no holes: whoever stores while pages are       *)
(* loaded, and however many do, every message from the oldest row loaded to *)
(* the newest one is shown, waits for onReceive, is still held by a thread  *)
(* or was broadcast while nobody listened (ChatActivity's initMsg, loadMore *)
(* and onReceive against getfriendmessagelist's offsets).                   *)
THEOREM PagesHaveNoHoles == Spec => []NoHoles
<1>1. ChatInv => NoHoles
  BY DEF ChatInv
<1>2. QED
  BY InitChat, ChatInvStep, <1>1, PTL DEF Spec
=============================================================================
