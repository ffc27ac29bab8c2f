----------------------------- MODULE FileTransfer -----------------------------
(***************************************************************************)
(* Sending a picture, a voice message or a video over a Carrier session.   *)
(*                                                                         *)
(* The sending phone (org.ela.Carrier.Chatcarrier) runs streamScheme in a  *)
(* thread per file, but keeps session, stream and mState in static fields  *)
(* that all its threads share.  The receiving phone                        *)
(* (com.eladapp.elachat.application.ElachatApp) collects the data of each  *)
(* session in its stream handler, but keeps the session to reply to, the   *)
(* session description and the friend's id in fields that the next session *)
(* request overwrites.  The file's extension travels as a friend message,  *)
(* outside of the session.                                                 *)
(*                                                                         *)
(* The Carrier library is external: a session is requested, replied to,    *)
(* started at both ends and connected; its stream is reliable, but closing *)
(* a session may cost what is still on the way.  newSession and addStream  *)
(* are one step here.                                                      *)
(***************************************************************************)
EXTENDS Integers, Sequences

CONSTANTS
  Phones,     \* sending phones
  Transfers,  \* files to send, all of them to one receiving phone
  Owner,      \* the phone that sends a file
  Size,       \* a file's length in units
  Exts,       \* file name extensions
  Ext,        \* a file's extension
  Chunk,      \* the most units a writeData call is given (2048 bytes)
  None        \* no file, no friend, no extension

ASSUME FilesAssumption ==
  /\ Owner \in [Transfers -> Phones]
  /\ Size \in [Transfers -> Nat \ {0}]
  /\ Ext \in [Transfers -> Exts]
  /\ Chunk \in Nat \ {0}
  /\ None \notin Phones \cup Transfers \cup Exts

VARIABLES
  pc,        \* where the thread of a file is in streamScheme / doBulkWrite
  awaited,   \* how many of the four handshake states it has seen
  sent,      \* the local of that name in doBulkWrite
  stream,    \* a phone's static session and stream: the file they were made for
  mState,    \* a phone's static field: the last state of any of its streams
  ss, rs,    \* state of a file's stream at the sender and at the receiver
  wire,      \* units written to a stream and not yet delivered
  notices,   \* files whose extension message is on its way
  request,   \* the receiver's sessionRequestSdp: the file it is of
  curfuid,   \* the receiver's field of that name, a friend
  activ,     \* the receiver's activsession
  filetype,  \* receivefiletype: friend -> extension
  received,  \* receivedData1 of a stream's handler
  name,      \* the extension of the file the data was saved to
  shown,     \* what was put down for it so far: the friend in the broadcast,
             \* the kind, the friend of the message and the friend of the row
  clashed,   \* history: files that shared their phone's statics with another
  overtaken  \* history: files whose session was open, or which were being saved,
             \* when another session was requested

threads  == <<pc, awaited, sent>>
statics  == <<stream, mState>>
globals  == <<request, curfuid, activ>>
inbox    == <<received, name, shown>>
vars == <<threads, statics, ss, rs, wire, notices, globals, filetype,
          inbox, clashed, overtaken>>

(* The states of a stream, in the order it goes through them; "asked" stands *)
(* for a request or a reply that was made, and after "Closed" the receiver's *)
(* handler saves the data and adds the message, in the steps of Saving.      *)
Order == <<"none", "added", "Initialized", "asked", "TransportReady",
           "Connecting", "Connected", "Closed", "saved", "addressed",
           "stored", "done">>
Saving == {"saved", "addressed", "stored"}
States == {"none", "added", "Initialized", "asked", "TransportReady",
           "Connecting", "Connected", "Closed", "done"} \cup Saving
Before(s) == {Order[i] : i \in 1..((CHOOSE j \in DOMAIN Order : Order[j] = s) - 1)}

Awaits == <<"Initialized", "TransportReady", "Connecting", "Connected">>

PC == {"idle", "added", "wait", "request", "poll", "bulk", "write", "close", "done"}

Unit == Transfers \X Nat    \* the i-th unit of a file
Friend == Phones \cup {None}
Row  == [tell : Friend, kind : Exts \cup {None}, from : Friend, row : Friend]

Init ==
  /\ pc = [t \in Transfers |-> "idle"]
  /\ awaited = [t \in Transfers |-> 0]
  /\ sent = [t \in Transfers |-> 0]
  /\ stream = [p \in Phones |-> None]
  /\ mState = [p \in Phones |-> "none"]
  /\ ss = [t \in Transfers |-> "none"]
  /\ rs = [t \in Transfers |-> "none"]
  /\ wire = [t \in Transfers |-> <<>>]
  /\ notices = {}
  /\ request = None
  /\ curfuid = None
  /\ activ = None
  /\ filetype = [p \in Phones |-> None]
  /\ received = [t \in Transfers |-> <<>>]
  /\ name = [t \in Transfers |-> None]
  /\ shown = [t \in Transfers |-> [tell |-> None, kind |-> None, from |-> None, row |-> None]]
  /\ clashed = {}
  /\ overtaken = {}

-----------------------------------------------------------------------------
(* streamScheme, in the thread of file t.                                  *)

Goto(t, label) == pc' = [pc EXCEPT ![t] = label]

(* The static session and stream, as the thread of t finds them. *)
Current(t) == stream[Owner[t]]

Siblings(t) == {u \in Transfers \ {t} : Owner[u] = Owner[t]}

(* A file has work left as long as its thread runs or its stream is open. *)
UnderWay(t) == pc[t] # "idle" /\ (pc[t] # "done" \/ ss[t] \notin {"none", "Closed"})

(* newSession and addStream. *)
AddStream(t) ==
  LET rivals == {u \in Siblings(t) : UnderWay(u)} IN
  /\ pc[t] = "idle"
  /\ stream' = [stream EXCEPT ![Owner[t]] = t]
  /\ ss' = [ss EXCEPT ![t] = "added"]
  /\ clashed' = IF rivals = {} THEN clashed ELSE clashed \cup rivals \cup {t}
  /\ Goto(t, "added")
  /\ UNCHANGED <<awaited, sent, mState, rs, wire, notices, globals,
                 filetype, inbox, overtaken>>

(* A CarrierException leaves streamScheme; the session stays as it is. *)
Throws(t) ==
  /\ pc[t] \in {"idle", "request"}
  /\ Goto(t, "done")
  /\ UNCHANGED <<awaited, sent, statics, ss, rs, wire, notices, globals,
                 filetype, inbox, clashed, overtaken>>

(* streamHandler.wait(), without a condition. *)
Wait(t) ==
  /\ pc[t] = "added"
  /\ Goto(t, "wait")
  /\ UNCHANGED <<awaited, sent, statics, ss, rs, wire, notices, globals,
                 filetype, inbox, clashed, overtaken>>

(* session.request: of whichever session the static holds by now. *)
Request(t) ==
  /\ pc[t] = "request"
  /\ ss[Current(t)] = "Initialized"
  /\ ss' = [ss EXCEPT ![Current(t)] = "asked"]
  /\ Goto(t, "poll")
  /\ UNCHANGED <<awaited, sent, statics, rs, wire, notices, globals,
                 filetype, inbox, clashed, overtaken>>

(* The handshake loops: each leaves when mState is exactly the awaited one. *)
Poll(t) ==
  /\ pc[t] = "poll"
  /\ mState[Owner[t]] = Awaits[awaited[t] + 1]
  /\ awaited' = [awaited EXCEPT ![t] = @ + 1]
  /\ Goto(t, IF awaited'[t] = Len(Awaits) THEN "bulk" ELSE "poll")
  /\ UNCHANGED <<sent, statics, ss, rs, wire, notices, globals, filetype, inbox,
                 clashed, overtaken>>

(* mState is read once more; then doBulkWrite tells the friend the extension, *)
(* if that message can be sent.                                               *)
BulkWrite(t) ==
  /\ pc[t] = "bulk"
  /\ IF mState[Owner[t]] = "Connected"
     THEN /\ Goto(t, "write")
          /\ notices' \in {notices, notices \cup {t}}
     ELSE /\ Goto(t, "done")
          /\ UNCHANGED notices
  /\ UNCHANGED <<awaited, sent, statics, ss, rs, wire, globals, filetype, inbox,
                 clashed, overtaken>>

Least(a, b) == IF a < b THEN a ELSE b

WriteDataRounded(t) ==
  LET x == Current(t) IN
  /\ pc[t] = "write"
  /\ ss[x] = "Connected"
  /\ wire' = [wire EXCEPT ![x] = @ \o [i \in 1..Chunk |-> <<t, sent[t] + i>>]]
  /\ sent' = [sent EXCEPT ![t] = @ + Chunk]
  /\ Goto(t, IF sent'[t] < Size[t] THEN "write" ELSE "close")
  /\ UNCHANGED <<awaited, statics, ss, rs, notices, globals, filetype, inbox,
                 clashed, overtaken>>

WriteDataFromStart(t) ==
  LET x == Current(t) IN
  /\ pc[t] = "write"
  /\ ss[x] = "Connected"
  /\ \E rc \in 1..Least(Chunk, Size[t] - sent[t]) :
       /\ wire' = [wire EXCEPT ![x] = @ \o [i \in 1..rc |-> <<t, i>>]]
       /\ sent' = [sent EXCEPT ![t] = @ + rc]
  /\ Goto(t, IF sent'[t] < Size[t] THEN "write" ELSE "close")
  /\ UNCHANGED <<awaited, statics, ss, rs, notices, globals, filetype, inbox,
                 clashed, overtaken>>

(* stream.writeData takes some of the units it is given.  (A full buffer,   *)
(* 0x81000010, makes the loop try the same units again: no step.)           *)
WriteData(t) ==
  LET x == Current(t) IN
  /\ pc[t] = "write"
  /\ ss[x] = "Connected"
  /\ \E rc \in 1..Least(Chunk, Size[t] - sent[t]) :
       /\ wire' = [wire EXCEPT ![x] = @ \o [i \in 1..rc |-> <<t, sent[t] + i>>]]
       /\ sent' = [sent EXCEPT ![t] = @ + rc]
  /\ Goto(t, IF sent'[t] < Size[t] THEN "write" ELSE "close")
  /\ UNCHANGED <<awaited, statics, ss, rs, notices, globals, filetype, inbox,
                 clashed, overtaken>>

(* Any other error ends the writing thread, and nobody is told. *)
WriteFails(t) ==
  /\ pc[t] = "write"
  /\ Goto(t, "close")
  /\ UNCHANGED <<awaited, sent, statics, ss, rs, wire, notices, globals, filetype,
                 inbox, clashed, overtaken>>

-----------------------------------------------------------------------------
(* TestStreamHandler.onStateChanged.                                        *)

NotifiedTimed(p, f) == {f}

(* notify() wakes one of the threads waiting on the handler; only the wait  *)
(* without a timeout makes a difference.  The loops wait on it with one,    *)
(* the second of them on another object.                                    *)
Notified(p, f) ==
  LET untimed == {u \in Transfers : Owner[u] = p /\ f[u] = "wait"}
      timed   == {u \in Transfers : Owner[u] = p /\ f[u] = "poll" /\ awaited[u] # 1}
  IN {[f EXCEPT ![u] = "request"] : u \in untimed}
       \cup (IF untimed = {} \/ timed # {} THEN {f} ELSE {})

OnStateChanged(t, state, f) ==
  /\ ss' = [ss EXCEPT ![t] = state]
  /\ mState' = [mState EXCEPT ![Owner[t]] = state]
  /\ pc' \in Notified(Owner[t], f)

(* removeStream and close, of whatever the statics hold by now. *)
Close(t) ==
  LET x == Current(t) IN
  /\ pc[t] = "close"
  /\ IF ss[x] = "Closed"
     THEN Goto(t, "done") /\ UNCHANGED <<ss, mState>>
     ELSE OnStateChanged(x, "Closed", [pc EXCEPT ![t] = "done"])
  /\ UNCHANGED <<awaited, sent, stream, rs, wire, notices, globals, filetype, inbox,
                 clashed, overtaken>>

SenderStep(t, from, to) ==
  /\ ss[t] = from
  /\ OnStateChanged(t, to, pc)
  /\ UNCHANGED <<awaited, sent, stream, rs, wire, notices, globals, filetype, inbox,
                 clashed, overtaken>>

Initialized(t) == SenderStep(t, "added", "Initialized")

TransportReady(t) == SenderStep(t, "asked", "TransportReady")

(* The reply arrives: onCompletion starts the session it is the reply to. *)
OnCompletion(t) ==
  /\ rs[t] \notin Before("TransportReady")
  /\ SenderStep(t, "TransportReady", "Connecting")

Connected(t) ==
  /\ rs[t] \in {"Connecting", "Connected"}
  /\ SenderStep(t, "Connecting", "Connected")

(* The connection breaks, or the receiver's end was closed. *)
Lost(t) == \E s \in {"TransportReady", "Connecting", "Connected"} : SenderStep(t, s, "Closed")

-----------------------------------------------------------------------------
(* The receiving phone.                                                     *)

senderside == <<threads, statics, ss>>

OnSessionRequestOnce(t) ==
  /\ ss[t] \notin Before("asked")
  /\ rs[t] = "none"
  /\ request' = t
  /\ curfuid' = IF curfuid = None THEN Owner[t] ELSE curfuid
  /\ overtaken' = overtaken \cup {u \in Transfers : rs[u] \notin {"none", "done"}}
  /\ \/ activ' = t /\ rs' = [rs EXCEPT ![t] = "added"]
     \/ rs' = [rs EXCEPT ![t] = "done"] /\ UNCHANGED activ
  /\ UNCHANGED <<senderside, wire, notices, filetype, inbox, clashed>>

(* onSessionRequest and createsessionjoinstream; newSession may throw. *)
OnSessionRequest(t) ==
  /\ ss[t] \notin Before("asked")
  /\ rs[t] = "none"
  /\ request' = t
  /\ curfuid' = Owner[t]
  /\ overtaken' = overtaken \cup {u \in Transfers : rs[u] \notin {"none", "done"}}
  /\ \/ activ' = t /\ rs' = [rs EXCEPT ![t] = "added"]
     \/ rs' = [rs EXCEPT ![t] = "done"] /\ UNCHANGED activ
  /\ UNCHANGED <<senderside, wire, notices, filetype, inbox, clashed>>

(* State "Initialized": activsession.replyRequest, an error unless that       *)
(* session is waiting for a reply.                                            *)
ReplyRequest(t) ==
  /\ rs[t] = "added"
  /\ rs' = [u \in Transfers |->
              IF u = activ /\ (u = t \/ rs[u] = "Initialized") THEN "asked"
              ELSE IF u = t THEN "Initialized" ELSE rs[u]]
  /\ UNCHANGED <<senderside, wire, notices, globals, filetype, inbox, clashed, overtaken>>

(* State "TransportReady": activsession.start(sessionRequestSdp). *)
Start(t) ==
  /\ rs[t] = "asked"
  /\ rs' = [u \in Transfers |->
              IF u = activ /\ u = request /\ (u = t \/ rs[u] = "TransportReady")
              THEN "Connecting"
              ELSE IF u = t THEN "TransportReady" ELSE rs[u]]
  /\ UNCHANGED <<senderside, wire, notices, globals, filetype, inbox, clashed, overtaken>>

Joined(t) ==
  /\ rs[t] = "Connecting"
  /\ ss[t] \in {"Connecting", "Connected"}
  /\ rs' = [rs EXCEPT ![t] = "Connected"]
  /\ UNCHANGED <<senderside, wire, notices, globals, filetype, inbox, clashed, overtaken>>

OnStreamData(t) ==
  /\ rs[t] = "Connected"
  /\ wire[t] # <<>>
  /\ received' = [received EXCEPT ![t] = Append(@, Head(wire[t]))]
  /\ wire' = [wire EXCEPT ![t] = Tail(@)]
  /\ UNCHANGED <<senderside, rs, notices, globals, filetype, name, shown, clashed, overtaken>>

(* The session is closed or breaks, with data on the wire or not. *)
Closed(t) ==
  /\ rs[t] \in {"Initialized", "asked", "TransportReady", "Connecting", "Connected"}
  /\ rs' = [rs EXCEPT ![t] = "Closed"]
  /\ wire' = [wire EXCEPT ![t] = <<>>]
  /\ UNCHANGED <<senderside, notices, globals, filetype, inbox, clashed, overtaken>>

(* State "Closed", in a thread: getFile, with the extension known by now of *)
(* the friend who made the last request; it fails when there is no data.    *)
GetFile(t) ==
  /\ rs[t] = "Closed"
  /\ name' = [name EXCEPT ![t] = filetype[curfuid]]
  /\ rs' = [rs EXCEPT ![t] = IF received[t] = <<>> THEN "done" ELSE "saved"]
  /\ UNCHANGED <<senderside, wire, notices, globals, filetype, received, shown,
                 clashed, overtaken>>

(* A statement of that thread: curfuid is read anew by each of them. *)
Saves(t, from, to, row) ==
  /\ rs[t] = from
  /\ rs' = [rs EXCEPT ![t] = to]
  /\ shown' = [shown EXCEPT ![t] = row]
  /\ UNCHANGED <<senderside, wire, notices, globals, filetype, received, name,
                 clashed, overtaken>>

(* The intent's "fromid", and the extension; that the extension is read by a *)
(* statement of its own makes no difference, nothing here depends on whose  *)
(* it is.                                                                   *)
PutFromId(t) ==
  Saves(t, "saved", "addressed",
        [shown[t] EXCEPT !.tell = curfuid, !.kind = filetype[curfuid]])

AddFriendMessage(t) == Saves(t, "addressed", "stored", [shown[t] EXCEPT !.from = curfuid])

PutMsgListNew(t) == Saves(t, "stored", "done", [shown[t] EXCEPT !.row = curfuid])

(* onFriendMessage, of an "extendfile|" message. *)
OnFriendMessage(t) ==
  /\ t \in notices
  /\ filetype' = [filetype EXCEPT ![Owner[t]] = Ext[t]]
  /\ notices' = notices \ {t}
  /\ UNCHANGED <<senderside, rs, wire, globals, inbox, clashed, overtaken>>

-----------------------------------------------------------------------------

ThreadNext(t) ==
  \/ AddStream(t) \/ Throws(t) \/ Wait(t) \/ Request(t) \/ Poll(t)
  \/ BulkWrite(t) \/ WriteData(t) \/ WriteFails(t) \/ Close(t)

SenderNext(t) == Initialized(t) \/ TransportReady(t) \/ OnCompletion(t) \/ Connected(t)

ReceiverNext(t) ==
  \/ OnSessionRequest(t) \/ ReplyRequest(t) \/ Start(t) \/ Joined(t)
  \/ GetFile(t) \/ PutFromId(t) \/ AddFriendMessage(t) \/ PutMsgListNew(t)

Next == \E t \in Transfers :
  \/ ThreadNext(t) \/ SenderNext(t) \/ Lost(t)
  \/ ReceiverNext(t) \/ OnStreamData(t) \/ Closed(t) \/ OnFriendMessage(t)

Spec == Init /\ [][Next]_vars

(* Threads run, and the library goes on with a handshake both ends are in.  *)
Fairness == \A t \in Transfers :
  /\ WF_vars(ThreadNext(t))
  /\ WF_vars(SenderNext(t))
  /\ WF_vars(ReceiverNext(t))

FairSpec == Spec /\ Fairness

-----------------------------------------------------------------------------
(* Properties.                                                              *)

TypeOK ==
  /\ pc \in [Transfers -> PC]
  /\ awaited \in [Transfers -> 0..Len(Awaits)]
  /\ sent \in [Transfers -> Nat] /\ \A t \in Transfers : sent[t] <= Size[t]
  /\ stream \in [Phones -> Transfers \cup {None}]
  /\ mState \in [Phones -> States]
  /\ ss \in [Transfers -> States]
  /\ rs \in [Transfers -> States]
  /\ wire \in [Transfers -> Seq(Unit)]
  /\ notices \subseteq Transfers
  /\ request \in Transfers \cup {None}
  /\ curfuid \in Phones \cup {None}
  /\ activ \in Transfers \cup {None}
  /\ filetype \in [Phones -> Exts \cup {None}]
  /\ received \in [Transfers -> Seq(Unit)]
  /\ name \in [Transfers -> Exts \cup {None}]
  /\ shown \in [Transfers -> Row]
  /\ clashed \subseteq Transfers
  /\ overtaken \subseteq Transfers

(* What a session delivers is a beginning of its own file, without a gap,   *)
(* whatever chunks were short, tried again or lost, unless the phone sent   *)
(* another file before it was done with this one.                           *)
ReceivedIsPrefix ==
  \A t \in Transfers \ clashed :
    \A i \in 1..Len(received[t]) : received[t][i] = <<t, i>>

(* Why that is so.  The statics name a file of their own phone once a thread *)
(* is past addStream, and two files of a phone that are under way at the    *)
(* same time have clashed; so a thread that writes to another file's stream  *)
(* spoils only clashed files.                                               *)
StaticsOwned ==
  /\ \A p \in Phones :
       stream[p] # None => Owner[stream[p]] = p /\ ss[stream[p]] # "none"
  /\ \A t \in Transfers : pc[t] \notin {"idle", "done"} => stream[Owner[t]] # None
  /\ \A t \in Transfers : pc[t] = "idle" => ss[t] = "none"

RivalsClash ==
  \A t \in Transfers : \A u \in Siblings(t) :
    UnderWay(t) /\ UnderWay(u) => t \in clashed

(* As long as nothing was dropped, what is delivered and what is on the wire *)
(* are together what the thread has sent.                                   *)
NothingMissing ==
  \A t \in Transfers \ clashed :
    rs[t] \notin {"Closed", "done"} \cup Saving =>
      /\ Len(received[t]) + Len(wire[t]) = sent[t]
      /\ \A i \in 1..Len(wire[t]) : wire[t][i] = <<t, Len(received[t]) + i>>

(* A file is stored, listed and told as sent by the friend who sent it,     *)
(* unless its session was not done with when the next one was requested.    *)
ShownFromSender ==
  \A t \in Transfers \ overtaken :
    {shown[t].tell, shown[t].from, shown[t].row} \subseteq {None, Owner[t]}

(* Why that is so: curfuid names the friend of every session still open.    *)
CurfuidCurrent ==
  /\ \A t \in Transfers : rs[t] # "none" => curfuid # None
  /\ \A t \in Transfers \ overtaken : rs[t] \notin {"none", "done"} => curfuid = Owner[t]

(* The handshake loops end after the fourth state. *)
HandshakeBounded ==
  \A t \in Transfers :
    /\ pc[t] \in {"idle", "added", "wait", "request"} => awaited[t] = 0
    /\ pc[t] = "poll" => awaited[t] < Len(Awaits)

(* The state the thread of t waits for has come and gone, or never comes. *)
Missed(t) ==
  \/ pc[t] = "added" /\ ss[t] # "added"
  \/ /\ pc[t] = "poll"
     /\ Awaits[awaited[t] + 1] \in Before(ss[t])
     /\ mState[Owner[t]] # Awaits[awaited[t] + 1]
  \/ pc[t] \in {"wait", "poll"} /\ rs[t] \in {"Closed", "done"} \cup Saving

(* A thread that gets to look at every state of its stream, alone on its    *)
(* phone and not overtaken at the receiver, sends its file and ends.        *)
HandshakeCompletes ==
  \A t \in Transfers :
    []( ~Missed(t) /\ t \notin clashed \cup overtaken )
      => (pc[t] = "added" ~> pc[t] = "done")
=============================================================================
