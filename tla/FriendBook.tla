------------------------------ MODULE FriendBook ------------------------------
(***************************************************************************)
(* The table friend_list of com.eladapp.elachat.db.Db and the contact      *)
(* screen (FriendlistActivity).  The Carrier library's thread calls        *)
(* ElachatApp's handler when a friend comes, goes or changes its data; the *)
(* UI thread, when the screen is created, takes the library's list of      *)
(* friends and writes it to the table friend by friend, then shows the     *)
(* table and follows the status broadcasts.                                *)
(*                                                                         *)
(* The library is external.  It learns a friend's data while the friend is *)
(* online and a new process has to learn it again (for friends who are     *)
(* offline the code turns to the table); it makes its calls in order, some *)
(* time after its own list has changed.  Data is the number of a version.  *)
(* Only the UI thread inserts rows and nobody removes them, so a query and *)
(* the statement it leads to are one step.                                 *)
(***************************************************************************)
EXTENDS Integers, Sequences

CONSTANTS
  Friends,    \* friends there may be
  MaxEvents,  \* bound: friends that come, go, change their data or are added
  None        \* data that is not known

ASSUME FriendsAssumption ==
  /\ MaxEvents \in Nat
  /\ None \notin Nat

VARIABLES
  members,  \* the library's friends
  book,     \* what it knows of them: status and data
  version,  \* the data a friend has
  calls,    \* the library's calls that were not made yet
  rowed,    \* the friends with a row in friend_list
  row,      \* the row
  pc,       \* where FriendlistActivity.onCreate is, or "open", or "closed"
  taken,    \* the list updateFriendList was given
  todo,     \* the friends in it that are not written yet
  listed,   \* the friends on the screen
  list,     \* and the status it shows of them
  inbox,    \* broadcasts on their way to the screen's receiver
  fetched,  \* getFriends did not throw
  events,   \* events so far
  raced     \* history: friends whose new data was stored before an older list

library == <<members, book, version, calls>>
table   == <<rowed, row>>
screen  == <<pc, taken, todo, listed, list, inbox, fetched>>
vars    == <<library, table, screen, events, raced>>

Status == {"online", "offline"}
Data   == Nat \cup {None}
Info   == [status : Status, data : Data]
Call   == [kind : {"connection", "info"}, friend : Friends, info : Info]
Told   == [friend : Friends, status : Status]

PC == {"closed", "register", "getFriends", "write", "refresh", "open"}

Unknown == [status |-> "offline", data |-> None]

Init ==
  /\ members = {}
  /\ book = [f \in Friends |-> Unknown]
  /\ version = [f \in Friends |-> 0]
  /\ calls = <<>>
  /\ rowed = {}
  /\ row = [f \in Friends |-> Unknown]
  /\ pc = "closed"
  /\ taken = [f \in Friends |-> Unknown]
  /\ todo = {}
  /\ listed = {}
  /\ list = [f \in Friends |-> "offline"]
  /\ inbox = <<>>
  /\ fetched = FALSE
  /\ events = 0
  /\ raced = {}

-----------------------------------------------------------------------------
(* The library.                                                             *)

Event == events < MaxEvents /\ events' = events + 1

CallOf(kind, f, info) == [kind |-> kind, friend |-> f, info |-> info]

Added(f) ==
  /\ Event
  /\ f \notin members
  /\ members' = members \cup {f}
  /\ UNCHANGED <<book, version, calls, table, screen, raced>>

(* Data the library did not have is announced as well. *)
ComesOnline(f) ==
  LET info == [status |-> "online", data |-> version[f]] IN
  /\ Event
  /\ f \in members /\ book[f].status = "offline"
  /\ book' = [book EXCEPT ![f] = info]
  /\ calls' = Append(calls, CallOf("connection", f, info)) \o
       (IF book[f].data = version[f] THEN <<>> ELSE <<CallOf("info", f, info)>>)
  /\ UNCHANGED <<members, version, table, screen, raced>>

(* The status is part of what may be announced as changed. *)
GoesOffline(f) ==
  LET info == [book[f] EXCEPT !.status = "offline"] IN
  /\ Event
  /\ f \in members /\ book[f].status = "online"
  /\ book' = [book EXCEPT ![f] = info]
  /\ \E more \in {<<>>, <<CallOf("info", f, info)>>} :
       calls' = Append(calls, CallOf("connection", f, info)) \o more
  /\ UNCHANGED <<members, version, table, screen, raced>>

(* A friend who is offline has the new data to tell when it comes online. *)
ChangesData(f) ==
  LET info == [status |-> "online", data |-> version'[f]] IN
  /\ Event
  /\ f \in members
  /\ version' = [version EXCEPT ![f] = @ + 1]
  /\ IF book[f].status = "online"
     THEN book' = [book EXCEPT ![f] = info] /\ calls' = Append(calls, CallOf("info", f, info))
     ELSE UNCHANGED <<book, calls>>
  /\ UNCHANGED <<members, table, screen, raced>>

-----------------------------------------------------------------------------
(* ElachatApp's handler.                                                    *)

RegisteredLate  == pc = "open"
RegisteredStill == pc # "register"

(* The receiver is registered first thing in onCreate and unregistered in   *)
(* onDestroy.                                                               *)
Registered == pc \notin {"closed", "register"}

(* onFriendConnection: a broadcast, for the screen if it is registered. *)
OnFriendConnection ==
  /\ calls # <<>> /\ Head(calls).kind = "connection"
  /\ calls' = Tail(calls)
  /\ inbox' = IF Registered
              THEN Append(inbox, [friend |-> Head(calls).friend,
                                  status |-> Head(calls).info.status])
              ELSE inbox
  /\ UNCHANGED <<members, book, version, table, pc, taken, todo, listed, list,
                 fetched, events, raced>>

(* The list that is being written will put its data over the row of f. *)
Overwrites(f) == f \in todo /\ (taken[f].status = "online" \/ f \notin rowed)

(* onFriendInfoChanged: updateFriendInfo updates the row, if there is one,  *)
(* and leaves it alone when the friend is offline.                          *)
OnFriendInfoChanged ==
  LET c == Head(calls) IN
  /\ calls # <<>> /\ c.kind = "info"
  /\ calls' = Tail(calls)
  /\ row' = IF c.info.status = "online" /\ c.friend \in rowed
            THEN [row EXCEPT ![c.friend] = c.info] ELSE row
  /\ raced' = IF c.info.status = "offline" THEN raced
              ELSE IF Overwrites(c.friend) /\ taken[c.friend].data # c.info.data
              THEN raced \cup {c.friend} ELSE raced \ {c.friend}
  /\ UNCHANGED <<members, book, version, rowed, screen, events>>

-----------------------------------------------------------------------------
(* FriendlistActivity, on the UI thread.                                    *)

Open ==
  /\ pc = "closed"
  /\ pc' = "register"
  /\ UNCHANGED <<library, table, taken, todo, listed, list, inbox, fetched, events, raced>>

(* registerReceiver, before anything is read. *)
Register ==
  /\ pc = "register"
  /\ pc' = "getFriends"
  /\ UNCHANGED <<library, table, taken, todo, listed, list, inbox, fetched, events, raced>>

(* updateFriendList: getFriends. *)
GetFriends ==
  /\ pc = "getFriends"
  /\ taken' = book
  /\ todo' = members
  /\ fetched' = TRUE
  /\ pc' = "write"
  /\ raced' = {f \in raced : f \in rowed /\ book[f].status = "offline"}
  /\ UNCHANGED <<library, table, listed, list, inbox, events>>

(* It throws: updateFriendList returns without having written anything. *)
GetFriendsThrows ==
  /\ pc = "getFriends"
  /\ pc' = "refresh"
  /\ UNCHANGED <<library, table, taken, todo, listed, list, inbox, fetched, events, raced>>

WriteRowWhole(f) ==
  /\ pc = "write"
  /\ f \in todo
  /\ row' = [row EXCEPT ![f] = taken[f]]
  /\ rowed' = rowed \cup {f}
  /\ todo' = todo \ {f}
  /\ UNCHANGED <<library, pc, taken, listed, list, inbox, fetched, events, raced>>

(* The row is inserted, or updated: all of it of a friend who is online,    *)
(* the status of one who is not.                                            *)
WriteRow(f) ==
  /\ pc = "write"
  /\ f \in todo
  /\ row' = [row EXCEPT ![f] =
       IF f \in rowed /\ taken[f].status = "offline"
       THEN [@ EXCEPT !.status = "offline"] ELSE taken[f]]
  /\ rowed' = rowed \cup {f}
  /\ todo' = todo \ {f}
  /\ UNCHANGED <<library, pc, taken, listed, list, inbox, fetched, events, raced>>

Written ==
  /\ pc = "write"
  /\ todo = {}
  /\ pc' = "refresh"
  /\ UNCHANGED <<library, table, taken, todo, listed, list, inbox, fetched, events, raced>>

(* getFriendList: the table as it is by now. *)
Refresh ==
  /\ pc = "refresh"
  /\ listed' = rowed
  /\ list' = [f \in Friends |-> row[f].status]
  /\ pc' = "open"
  /\ UNCHANGED <<library, table, taken, todo, inbox, fetched, events, raced>>

(* The receiver's onReceive: updateFriendStatus. *)
OnReceive ==
  LET m == Head(inbox) IN
  /\ pc = "open"
  /\ inbox # <<>>
  /\ inbox' = Tail(inbox)
  /\ list' = IF m.friend \in listed THEN [list EXCEPT ![m.friend] = m.status] ELSE list
  /\ UNCHANGED <<library, table, pc, taken, todo, listed, fetched, events, raced>>

ScreenGone ==
  /\ pc' = "closed"
  /\ taken' = [f \in Friends |-> Unknown]
  /\ todo' = {}
  /\ listed' = {}
  /\ list' = [f \in Friends |-> "offline"]
  /\ inbox' = <<>>
  /\ fetched' = FALSE

(* onDestroy. *)
Close ==
  /\ pc = "open"
  /\ ScreenGone
  /\ UNCHANGED <<library, table, events, raced>>

(* The process is killed: the table stays, and in the next one the library  *)
(* starts with its friends offline.                                         *)
Kill ==
  /\ book' = [f \in Friends |-> Unknown]
  /\ calls' = <<>>
  /\ ScreenGone
  /\ raced' = {}
  /\ UNCHANGED <<members, version, table, events>>

-----------------------------------------------------------------------------

FriendNext(f) ==
  \/ Added(f) \/ ComesOnline(f) \/ GoesOffline(f) \/ ChangesData(f) \/ WriteRow(f)

ScreenNext ==
  \/ Open \/ Register \/ GetFriends \/ GetFriendsThrows \/ Written \/ Refresh
  \/ OnReceive \/ Close

Next ==
  \/ \E f \in Friends : FriendNext(f)
  \/ OnFriendConnection \/ OnFriendInfoChanged
  \/ ScreenNext \/ Kill

Spec == Init /\ [][Next]_vars

-----------------------------------------------------------------------------
(* Properties.                                                              *)

LibraryOK ==
  /\ members \subseteq Friends
  /\ book \in [Friends -> Info]
  /\ version \in [Friends -> Nat]
  /\ calls \in Seq(Call)
  /\ events \in Nat

TableOK ==
  /\ rowed \subseteq members
  /\ row \in [Friends -> Info]
  /\ raced \subseteq Friends

ScreenOK ==
  /\ pc \in PC
  /\ taken \in [Friends -> Info]
  /\ todo \subseteq members
  /\ listed \subseteq rowed
  /\ list \in [Friends -> Status]
  /\ inbox \in Seq(Told)
  /\ fetched \in BOOLEAN
  /\ pc # "write" => todo = {}
  /\ ~Registered => inbox = <<>>

(* Types; rows are of friends; broadcasts wait only for a screen whose      *)
(* receiver is registered, and a list is written only once.                 *)
TypeOK == LibraryOK /\ TableOK /\ ScreenOK

(* A call of this kind about f was not made yet, a broadcast about f not    *)
(* received.                                                                *)
DueIn(s, kind, f) == \E i \in 1..Len(s) : s[i].kind = kind /\ s[i].friend = f
Due(kind, f)      == DueIn(calls, kind, f)

ToldIn(s, f) == \E i \in 1..Len(s) : s[i].friend = f
InTheAir(f)  == ToldIn(inbox, f)

(* The contact screen shows who is online: whatever the order in which      *)
(* friends come and go while the table is read, written and read again, the *)
(* status shown is the library's as soon as its calls and the broadcasts    *)
(* about the friend have arrived -- if getFriends did not throw.            *)
StatusShown ==
  pc = "open" /\ fetched =>
    \A f \in listed :
      Due("connection", f) \/ InTheAir(f) \/ list[f] = book[f].status

(* A friend's data in the table is the library's, as soon as its calls have *)
(* been made, unless an older list was written over it.                     *)
RowCurrent ==
  \A f \in rowed \ (raced \cup todo) :
    Due("info", f) \/ book[f].data \in {None, row[f].data}

(* Screen and table both catch up with the library: a friend's status and   *)
(* data are the library's once its calls and broadcasts have arrived.       *)
FriendsAreCurrent == StatusShown /\ RowCurrent

(* What the table once knew of a friend is never replaced by nothing, not   *)
(* even after a restart, when the library does not know it.                 *)
NeverForgets ==
  [][\A f \in rowed : row[f].data # None => row'[f].data # None]_vars

=============================================================================
