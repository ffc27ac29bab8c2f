------------------------------ MODULE ChatStore ------------------------------
(***************************************************************************)
(* The chat database (com.eladapp.elachat.db.Db) and the open conversation *)
(* (ChatActivity).  Messages are stored by the Carrier thread              *)
(* (ElachatApp.onFriendMessage), by the threads that save received files,  *)
(* and by the UI thread when the user sends.  Each storing is a sequence   *)
(* of SQLite statements on connections of its own, without a transaction:  *)
(* the message itself, the one row of the friend in the conversation list  *)
(* (query, then insert or update), and for a text the "last message"       *)
(* table.  The receiving threads then broadcast the message to whatever    *)
(* conversation is open.                                                   *)
(*                                                                         *)
(* The UI thread runs one handler at a time; a handler that stores is      *)
(* split at its statements, as the other threads are.  A message is its    *)
(* number.                                                                 *)
(*                                                                         *)
(* The thread of a file has no friend of its own: it reads the field       *)
(* curfuid, which every session request assigns, once for the broadcast,   *)
(* once for the message and once for the row.  So a file may be stored     *)
(* under one friend and listed or told under another.  (That the friend    *)
(* may not be the one who sent the file is in FileTransfer.)               *)
(***************************************************************************)
EXTENDS Integers, Sequences, FiniteSets

CONSTANTS
  Friends,
  Receivers,    \* threads that store received messages
  Carrier,      \* the one of them that runs onFriendMessage
  UI,           \* the UI thread
  PageSize,     \* rows of a query of getfriendmessagelist (10)
  MaxMessages,  \* bound: messages ever stored
  None

Writers == Receivers \cup {UI}
Files   == Receivers \ {Carrier}    \* threads that save a received file

ASSUME ChatAssumption ==
  /\ IsFiniteSet(Receivers)
  /\ Carrier \in Receivers
  /\ UI \notin Receivers
  /\ PageSize \in Nat \ {0}
  /\ MaxMessages \in Nat
  /\ None \notin Friends \cup Nat

VARIABLES
  history,    \* messagelist: the messages with a friend, in the order of id
  rows,       \* message_list_new: the rows of a friend, each with its message
  last,       \* newmessagelast: the message recorded for a friend
  curn,       \* Db.curn, an instance field that is never reset
  curfuid,    \* ElachatApp.curfuid: the friend of the last session request
  pc,         \* where a thread is
  job,        \* its arguments: the friend of the message, of the row and of
              \* the broadcast, the message, and what the query found
  taken,      \* messages so far
  viewed,     \* ChatActivity: the friend, while it is open
  view,       \* the messages it shows, from top to bottom
  start,      \* the offset of the oldest page it loaded
  registered, \* its receiver is registered
  inbox,      \* broadcasts on their way to it
  oldest,     \* history: the position in history of the oldest row loaded
  missed,     \* history: messages the open conversation was not told of
  disturbed   \* history: friends whose last storing overlapped, was cut off,
              \* or was of a file with the row of another friend

tables == <<history, rows, last>>
chat   == <<viewed, view, start, registered, inbox, oldest>>
vars   == <<tables, curn, curfuid, pc, job, taken, chat, missed, disturbed>>

(* A thread that has a message in the table and is not done with it. *)
Stages == {"row", "query", "put", "check", "record", "notify"}
PC == Stages \cup {"idle", "address", "add", "load", "register"}

Friend == Friends \cup {None}
Job == [to : Friend, row : Friend, tell : Friend, msg : Nat, absent : BOOLEAN]
NoJob == [to |-> None, row |-> None, tell |-> None, msg |-> 0, absent |-> FALSE]

Init ==
  /\ history = [f \in Friends |-> <<>>]
  /\ rows = [f \in Friends |-> <<>>]
  /\ last = [f \in Friends |-> None]
  /\ curn = FALSE
  /\ curfuid = None
  /\ pc = [w \in Writers |-> "idle"]
  /\ job = [w \in Writers |-> NoJob]
  /\ taken = 0
  /\ viewed = None
  /\ view = <<>>
  /\ start = 0
  /\ registered = FALSE
  /\ inbox = <<>>
  /\ oldest = 0
  /\ missed = {}
  /\ disturbed = {}

Goto(w, label) == pc' = [pc EXCEPT ![w] = label]

End(w) == Goto(w, "idle") /\ job' = [job EXCEPT ![w] = NoJob]

-----------------------------------------------------------------------------
(* Storing a message.                                                       *)

(* Thread w is between the insert into messagelist and the conversation row, *)
(* which will be the one of f as far as it knows.                             *)
Storing(w, f) == pc[w] \in {"row", "query", "put"} /\ job[w].row = f

(* addfriendmessage: one insert.  t is the friend the broadcast will name. *)
AddFriendMessage(w, f, t) ==
  /\ taken < MaxMessages
  /\ taken' = taken + 1
  /\ history' = [history EXCEPT ![f] = Append(@, taken')]
  /\ job' = [job EXCEPT ![w] = [to |-> f, row |-> f, tell |-> t,
                               msg |-> taken', absent |-> FALSE]]
  /\ disturbed' = IF \E u \in Writers : Storing(u, f) THEN disturbed \cup {f}
                                                     ELSE disturbed \ {f}
  /\ Goto(w, IF w \in Files THEN "row" ELSE "query")
  /\ UNCHANGED <<rows, last, curn, curfuid, missed>>

(* onFriendMessage. *)
Receive(f) == pc[Carrier] = "idle" /\ AddFriendMessage(Carrier, f, f) /\ UNCHANGED chat

(* onSessionRequest, as far as it matters here. *)
OnSessionRequest(f) ==
  /\ curfuid' = f
  /\ UNCHANGED <<tables, curn, pc, job, taken, chat, missed, disturbed>>

(* The thread of a stream that was closed: the file is saved, and the       *)
(* intent of the broadcast gets its friend.                                 *)
SaveFile(w) ==
  /\ pc[w] = "idle" /\ w \in Files
  /\ curfuid # None
  /\ job' = [job EXCEPT ![w].tell = curfuid]
  /\ Goto(w, "address")
  /\ UNCHANGED <<tables, curn, curfuid, taken, chat, missed, disturbed>>

(* curfuid is read again for addfriendmessage, *)
ReadFriend(w) ==
  /\ pc[w] = "address"
  /\ job' = [job EXCEPT ![w].to = curfuid]
  /\ Goto(w, "add")
  /\ UNCHANGED <<tables, curn, curfuid, taken, chat, missed, disturbed>>

AddFile(w) ==
  /\ pc[w] = "add"
  /\ AddFriendMessage(w, job[w].to, job[w].tell)
  /\ UNCHANGED chat

(* and once more for putMsgListNew.  If it has changed, the friend of the   *)
(* message gets no row for it, and the other one gets a row that is not his. *)
ReadRowFriend(w) ==
  /\ pc[w] = "row"
  /\ job' = [job EXCEPT ![w].row = curfuid]
  /\ disturbed' = IF curfuid = job[w].to THEN disturbed
                  ELSE disturbed \cup {job[w].to, curfuid}
  /\ Goto(w, "query")
  /\ UNCHANGED <<tables, curn, curfuid, taken, chat, missed>>

(* The send button, a photo, a recording: shown at once, then stored. *)
Send ==
  /\ pc[UI] = "idle"
  /\ viewed # None /\ registered
  /\ AddFriendMessage(UI, viewed, viewed)
  /\ view' = Append(view, taken')
  /\ UNCHANGED <<viewed, start, registered, inbox, oldest>>

(* putMsgListNew, first part: is there a row of this friend? *)
QueryRow(w) ==
  /\ pc[w] = "query"
  /\ job' = [job EXCEPT ![w].absent = rows[job[w].row] = <<>>]
  /\ Goto(w, "put")
  /\ UNCHANGED <<tables, curn, curfuid, taken, chat, missed, disturbed>>

(* A text has one more table, what the user sends is told to nobody. *)
AfterRow(w) ==
  IF w = UI THEN End(w)
  ELSE Goto(w, IF w = Carrier THEN "check" ELSE "notify") /\ UNCHANGED job

PutRowOnce(w) ==
  LET f == job[w].row IN
  /\ pc[w] = "put"
  /\ rows' = [rows EXCEPT ![f] = IF job[w].absent THEN Append(@, job[w].msg) ELSE @]
  /\ AfterRow(w)
  /\ UNCHANGED <<history, last, curn, curfuid, taken, chat, missed, disturbed>>

(* putMsgListNew, second part: insert, or update every row of the friend. *)
PutRow(w) ==
  LET f == job[w].row IN
  /\ pc[w] = "put"
  /\ rows' = [rows EXCEPT ![f] =
       IF job[w].absent THEN Append(@, job[w].msg)
                        ELSE [i \in DOMAIN @ |-> job[w].msg]]
  /\ AfterRow(w)
  /\ UNCHANGED <<history, last, curn, curfuid, taken, chat, missed, disturbed>>

(* checkmessagelast: is there any row, of whatever friend? *)
CheckLast ==
  /\ pc[Carrier] = "check"
  /\ curn' = (curn \/ \E f \in Friends : last[f] # None)
  /\ Goto(Carrier, "record")
  /\ UNCHANGED <<tables, curfuid, job, taken, chat, missed, disturbed>>

(* addorupdatenewmessagelast: update where userid is the friend, or insert. *)
RecordLast ==
  LET f == job[Carrier].to IN
  /\ pc[Carrier] = "record"
  /\ last' = [last EXCEPT ![f] = IF curn /\ @ = None THEN None ELSE job[Carrier].msg]
  /\ Goto(Carrier, "notify")
  /\ UNCHANGED <<history, rows, curn, curfuid, job, taken, chat, missed, disturbed>>

Untold(j) == IF viewed = j.to THEN missed \cup {j.msg} ELSE missed

(* sendBroadcast reaches the receivers registered at that moment, and      *)
(* onReceive ignores the messages that name another friend.                *)
Notify(w) ==
  LET j == job[w] IN
  /\ pc[w] = "notify"
  /\ IF registered /\ viewed = j.tell
     THEN inbox' = Append(inbox, j.msg) /\ UNCHANGED missed
     ELSE missed' = Untold(j) /\ UNCHANGED inbox
  /\ End(w)
  /\ UNCHANGED <<tables, curn, curfuid, taken, viewed, view, start, registered, oldest, disturbed>>

(* startAlarm throws, and onFriendMessage ends without a broadcast. *)
AlarmFails ==
  /\ pc[Carrier] = "notify"
  /\ missed' = Untold(job[Carrier])
  /\ End(Carrier)
  /\ UNCHANGED <<tables, curn, curfuid, taken, chat, disturbed>>

-----------------------------------------------------------------------------
(* The open conversation, on the UI thread.                                 *)

Least(a, b) == IF a < b THEN a ELSE b
AtLeast0(n) == IF n < 0 THEN 0 ELSE n

(* getfriendmessagelist ("id DESC", offset, limit), turned round: the       *)
(* positions of a page in history.                                          *)
PageEnd(f, offset)   == AtLeast0(Len(history[f]) - offset)
PageFirst(f, offset) == AtLeast0(PageEnd(f, offset) - PageSize) + 1
Page(f, offset)      == SubSeq(history[f], PageFirst(f, offset), PageEnd(f, offset))

(* onCreate, up to the query. *)
OpenChat(f) ==
  /\ pc[UI] = "idle"
  /\ viewed = None
  /\ viewed' = f
  /\ Goto(UI, "load")
  /\ UNCHANGED <<tables, curn, curfuid, job, taken, view, start, registered, inbox, oldest, missed, disturbed>>

(* initMsg. *)
LoadFirst ==
  /\ pc[UI] = "load"
  /\ view' = Page(viewed, start)
  /\ oldest' = PageFirst(viewed, start)
  /\ Goto(UI, "register")
  /\ UNCHANGED <<tables, curn, curfuid, job, taken, viewed, start, registered, inbox, missed, disturbed>>

(* registerReceiver. *)
Register ==
  /\ pc[UI] = "register"
  /\ registered' = TRUE
  /\ Goto(UI, "idle")
  /\ UNCHANGED <<tables, curn, curfuid, job, taken, viewed, view, start, inbox, oldest, missed, disturbed>>

(* The receiver's onReceive. *)
OnReceive ==
  /\ pc[UI] = "idle"
  /\ inbox # <<>>
  /\ view' = Append(view, Head(inbox))
  /\ inbox' = Tail(inbox)
  /\ UNCHANGED <<tables, curn, curfuid, pc, job, taken, viewed, start, registered, oldest, missed, disturbed>>

LoadMoreFurther ==
  /\ pc[UI] = "idle" /\ registered
  /\ start < MaxMessages
  /\ start' = start + PageSize + 1
  /\ view' = Page(viewed, start') \o view
  /\ oldest' = Least(oldest, PageFirst(viewed, start'))
  /\ UNCHANGED <<tables, curn, curfuid, pc, job, taken, viewed, registered, inbox, missed, disturbed>>

(* Scrolled to the top: loadMore. *)
LoadMore ==
  /\ pc[UI] = "idle" /\ registered
  /\ start < MaxMessages
  /\ start' = start + PageSize
  /\ view' = Page(viewed, start') \o view
  /\ oldest' = Least(oldest, PageFirst(viewed, start'))
  /\ UNCHANGED <<tables, curn, curfuid, pc, job, taken, viewed, registered, inbox, missed, disturbed>>

(* The activity and what belongs to it are gone. *)
ChatGone ==
  /\ viewed' = None
  /\ view' = <<>>
  /\ start' = 0
  /\ oldest' = 0
  /\ missed' = {}

CloseChatRegistered ==
  /\ pc[UI] = "idle" /\ registered
  /\ ChatGone
  /\ UNCHANGED <<tables, curn, curfuid, pc, job, taken, registered, inbox, disturbed>>

(* onDestroy. *)
CloseChat ==
  /\ pc[UI] = "idle" /\ registered
  /\ ChatGone
  /\ registered' = FALSE
  /\ inbox' = <<>>
  /\ UNCHANGED <<tables, curn, curfuid, pc, job, taken, disturbed>>

(* The system kills the process; the tables stay as they are. *)
Kill ==
  /\ curn' = FALSE
  /\ curfuid' = None
  /\ pc' = [w \in Writers |-> "idle"]
  /\ job' = [w \in Writers |-> NoJob]
  /\ ChatGone
  /\ registered' = FALSE
  /\ inbox' = <<>>
  /\ disturbed' = disturbed \cup {f \in Friends : \E w \in Writers : Storing(w, f)}
  /\ UNCHANGED <<tables, taken>>

-----------------------------------------------------------------------------

WriterNext(w) ==
  \/ SaveFile(w) \/ ReadFriend(w) \/ AddFile(w) \/ ReadRowFriend(w)
  \/ QueryRow(w) \/ PutRow(w) \/ Notify(w)

ChatNext ==
  \/ \E f \in Friends : OpenChat(f)
  \/ LoadFirst \/ Register \/ OnReceive \/ LoadMore \/ Send \/ CloseChat

Next ==
  \/ \E f \in Friends : Receive(f) \/ OnSessionRequest(f)
  \/ \E w \in Writers : WriterNext(w)
  \/ CheckLast \/ RecordLast \/ AlarmFails
  \/ ChatNext \/ Kill

Spec == Init /\ [][Next]_vars

-----------------------------------------------------------------------------
(* Properties.                                                              *)

TablesOK ==
  /\ history \in [Friends -> Seq(Nat)]
  /\ rows \in [Friends -> Seq(Nat)]
  /\ last \in [Friends -> Nat \cup {None}]
  /\ curn \in BOOLEAN
  /\ curfuid \in Friend
  /\ taken \in Nat
  /\ disturbed \subseteq Friends

ThreadsOK ==
  /\ pc \in [Writers -> PC]
  /\ job \in [Writers -> Job]
  /\ \A w \in Writers :
       /\ pc[w] \in {"address", "add", "row"} => w \in Files /\ curfuid \in Friends
       /\ pc[w] = "add" => job[w].to \in Friends
       /\ pc[w] \in Stages => job[w].to \in Friends /\ job[w].row \in Friends
       /\ pc[w] \in {"load", "register"} => w = UI
       /\ pc[w] \in {"check", "record"} => w = Carrier
       /\ pc[w] = "notify" => w \in Receivers

ChatOK ==
  /\ viewed \in Friends \cup {None}
  /\ view \in Seq(Nat)
  /\ start \in Nat
  /\ registered \in BOOLEAN
  /\ inbox \in Seq(Nat)
  /\ oldest \in Nat
  /\ missed \subseteq Nat
  /\ registered \/ pc[UI] \in {"load", "register"} => viewed # None
  /\ inbox # <<>> => registered

(* Types; only the UI thread loads and only receivers broadcast; broadcasts *)
(* are on their way only to a conversation that is open and registered.     *)
TypeOK == TablesOK /\ ThreadsOK /\ ChatOK

(* The conversation list shows the newest message with a friend, once the   *)
(* threads are done with it, unless the last message's storing overlapped   *)
(* another one with that friend, the process was killed half way, or a      *)
(* session request came between the message of a file and its row; the next *)
(* message stored alone puts it right.                                      *)
ListIsCurrent ==
  \A f \in Friends \ disturbed :
    (\A w \in Writers : ~Storing(w, f)) /\ history[f] # <<>> =>
      /\ rows[f] # <<>>
      /\ \A i \in DOMAIN rows[f] : rows[f][i] = history[f][Len(history[f])]

(* Why that is so: while a friend's messages are stored one at a time, the  *)
(* thread that stores has the newest one, and what its query found stays so. *)
StoredAlone ==
  \A f \in Friends \ disturbed : \A w \in Writers : Storing(w, f) =>
    /\ history[f] # <<>> /\ job[w].msg = history[f][Len(history[f])]
    /\ pc[w] = "put" => (job[w].absent <=> rows[f] = <<>>)
    /\ \A u \in Writers : Storing(u, f) => u = w

(* Threads that are about to insert a row of friend f. *)
Inserting(f) == {w \in Writers : pc[w] = "put" /\ job[w].row = f /\ job[w].absent}

(* A friend is listed at most once per thread that stores: only threads     *)
(* that all looked before the first row was there insert one.               *)
ListedAtMostOncePerThread ==
  \A f \in Friends : Len(rows[f]) <= Cardinality(Writers)

(* The conversation list shows the newest messages, and no friend too often. *)
ListIsSound == ListIsCurrent /\ ListedAtMostOncePerThread

(* Why that is so: as long as there is no row, at most every thread is about *)
(* to insert one, and afterwards nobody joins them.                          *)
RowsCounted ==
  \A f \in Friends : Len(rows[f]) + Cardinality(Inserting(f)) <= Cardinality(Writers)

(* Message m will still be broadcast or shown, or nobody is told of it. *)
OnItsWay(m) ==
  \/ \E w \in Receivers : pc[w] \in Stages /\ job[w].msg = m
  \/ \E i \in DOMAIN inbox : inbox[i] = m
  \/ m \in missed

(* The open conversation has no holes: from the oldest row that was loaded  *)
(* to the newest message everything is shown or on its way, although the    *)
(* pages are counted from the end of a table that grows meanwhile.          *)
NoHoles ==
  viewed # None /\ pc[UI] # "load" =>
    \A i \in oldest..Len(history[viewed]) :
      LET m == history[viewed][i] IN
      OnItsWay(m) \/ \E k \in DOMAIN view : view[k] = m
=============================================================================
