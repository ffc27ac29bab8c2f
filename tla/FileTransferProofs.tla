-------------------------- MODULE FileTransferProofs --------------------------
(***************************************************************************)
(* What a session delivers is a beginning of its own file, and a file is   *)
(* shown as its sender's, for any number of phones and files: only files   *)
(* whose phone had two of them under way, and sessions that another        *)
(* request overtook, are exempt.                                           *)
(***************************************************************************)
EXTENDS FileTransfer, TLAPS

IInv ==
  /\ TypeOK
  /\ StaticsOwned
  /\ RivalsClash
  /\ HandshakeBounded
  /\ NothingMissing
  /\ ReceivedIsPrefix
  /\ CurfuidCurrent
  /\ ShownFromSender

LEMMA InitIInv == Init => IInv
<1> SUFFICES ASSUME Init PROVE IInv
  OBVIOUS
<1> USE FilesAssumption DEF Init
<1>1. TypeOK
  BY DEF TypeOK, PC, States, Saving, Awaits, Row, Friend
<1>2. StaticsOwned /\ RivalsClash /\ HandshakeBounded
  BY DEF StaticsOwned, RivalsClash, UnderWay, HandshakeBounded, Awaits
<1>3. NothingMissing /\ ReceivedIsPrefix
  BY DEF NothingMissing, ReceivedIsPrefix, Saving
<1>4. CurfuidCurrent /\ ShownFromSender
  BY DEF CurfuidCurrent, ShownFromSender
<1>5. QED
  BY <1>1, <1>2, <1>3, <1>4 DEF IInv

(* notify() moves a waiting thread on, or nobody. *)
LEMMA NotifiedMoves ==
  ASSUME NEW p \in Phones, NEW f \in [Transfers -> PC], NEW g \in Notified(p, f)
  PROVE  /\ g \in [Transfers -> PC]
         /\ \A u \in Transfers : g[u] = f[u] \/ (f[u] = "wait" /\ g[u] = "request")
BY DEF Notified, PC

(* A thread past addStream finds a file of its own phone in the statics. *)
LEMMA CurrentIsOwn ==
  ASSUME IInv, NEW t \in Transfers, pc[t] \notin {"idle", "done"}
  PROVE  Current(t) \in Transfers /\ Owner[Current(t)] = Owner[t] /\ ss[Current(t)] # "none"
BY FilesAssumption DEF IInv, TypeOK, StaticsOwned, Current

LEMMA CallbackMoves ==
  ASSUME IInv, NEW t \in Transfers, NEW s \in States, NEW f \in [Transfers -> PC],
         OnStateChanged(t, s, f)
  PROVE  /\ ss' \in [Transfers -> States] /\ mState' \in [Phones -> States]
         /\ pc' \in [Transfers -> PC]
         /\ \A u \in Transfers : pc'[u] = f[u] \/ (f[u] = "wait" /\ pc'[u] = "request")
         /\ \A u \in Transfers \ {t} : ss'[u] = ss[u]
         /\ ss'[t] = s
<1>1. Owner[t] \in Phones
  BY FilesAssumption
<1>2. /\ ss' \in [Transfers -> States] /\ mState' \in [Phones -> States]
      /\ \A u \in Transfers \ {t} : ss'[u] = ss[u]
      /\ ss'[t] = s
  BY <1>1 DEF OnStateChanged, IInv, TypeOK
<1>3. pc' \in Notified(Owner[t], f)
  BY DEF OnStateChanged
<1>4. QED
  BY <1>1, <1>2, <1>3, NotifiedMoves

-----------------------------------------------------------------------------
(* Which steps move a thread or a stream of the sending phones.             *)

StepOf(t) ==
  \/ ThreadNext(t) \/ SenderNext(t) \/ Lost(t)
  \/ ReceiverNext(t) \/ OnStreamData(t) \/ Closed(t) \/ OnFriendMessage(t)

SenderTo(t, s) == \E from \in States \ {"none", "Closed"} : SenderStep(t, from, s)

LEMMA SenderSteps ==
  ASSUME NEW t \in Transfers, SenderNext(t) \/ Lost(t)
  PROVE  \E s \in States \ {"none"} : SenderTo(t, s)
BY DEF SenderNext, Lost, Initialized, TransportReady, OnCompletion, Connected,
       SenderTo, States

(* No thread starts and no stream is added or reopened. *)
NoneStarts ==
  /\ stream' = stream
  /\ \A u \in Transfers :
       /\ pc'[u] \notin {"idle", "done"} => pc[u] \notin {"idle", "done"}
       /\ pc'[u] = "idle" => pc[u] = "idle"
       /\ ss[u] = "none" <=> ss'[u] = "none"
       /\ ss[u] = "Closed" => ss'[u] = "Closed"

LEMMA ReceiverFrame ==
  ASSUME NEW t \in Transfers,
         ReceiverNext(t) \/ OnStreamData(t) \/ Closed(t) \/ OnFriendMessage(t)
  PROVE  UNCHANGED <<senderside, clashed>>
BY DEF ReceiverNext, OnSessionRequest, ReplyRequest, Start, Joined, GetFile,
       PutFromId, AddFriendMessage, PutMsgListNew, Saves, OnStreamData, Closed, OnFriendMessage

LEMMA OnlyAddStreamStarts ==
  ASSUME IInv, NEW t \in Transfers, StepOf(t), ~AddStream(t)
  PROVE  NoneStarts /\ clashed' = clashed
<1> USE DEF IInv
<1>1. CASE Throws(t) \/ Wait(t) \/ Poll(t) \/ BulkWrite(t) \/ WriteData(t) \/ WriteFails(t)
  BY <1>1 DEF Throws, Wait, Poll, BulkWrite, WriteData, WriteFails, Goto, statics,
              NoneStarts, TypeOK
<1>2. CASE Request(t)
  <2>1. Current(t) \in Transfers
    BY <1>2, CurrentIsOwn DEF Request
  <2>2. QED
    BY <1>2, <2>1 DEF Request, Goto, statics, NoneStarts, TypeOK
<1>3. CASE Close(t)
  <2>1. Current(t) \in Transfers /\ pc[t] = "close" /\ ss[Current(t)] # "none"
    BY <1>3, CurrentIsOwn DEF Close
  <2>2. [pc EXCEPT ![t] = "done"] \in [Transfers -> PC]
    BY DEF TypeOK, PC
  <2>3. CASE ss[Current(t)] = "Closed"
    BY <1>3, <2>1, <2>3 DEF Close, Goto, NoneStarts, TypeOK
  <2>4. CASE ss[Current(t)] # "Closed"
    <3> DEFINE f == [pc EXCEPT ![t] = "done"]
               x == Current(t)
    <3>1. OnStateChanged(x, "Closed", f)
      BY <1>3, <2>4 DEF Close
    <3>2. UNCHANGED <<stream, clashed>>
      BY <1>3 DEF Close
    <3>3. x \in Transfers /\ f \in [Transfers -> PC]
      BY <2>1, <2>2
    <3>4. "Closed" \in States
      BY DEF States
    <3>6. \A u \in Transfers : f[u] = IF u = t THEN "done" ELSE pc[u]
      BY DEF TypeOK
    <3> HIDE DEF f, x, IInv
    <3>5. /\ \A u \in Transfers : pc'[u] = f[u] \/ (f[u] = "wait" /\ pc'[u] = "request")
          /\ \A u \in Transfers \ {x} : ss'[u] = ss[u]
          /\ ss'[x] = "Closed"
      BY <3>1, <3>3, <3>4, CallbackMoves
    <3>7. ss[x] # "none"
      BY <2>1 DEF x
    <3>8. ASSUME NEW u \in Transfers
          PROVE  /\ pc'[u] \notin {"idle", "done"} => pc[u] \notin {"idle", "done"}
                 /\ pc'[u] = "idle" => pc[u] = "idle"
      <4>1. CASE u = t
        BY <2>1, <3>5, <3>6, <4>1
      <4>2. CASE u # t
        BY <3>5, <3>6, <4>2
      <4>3. QED
        BY <4>1, <4>2
    <3>9. QED
      BY <3>2, <3>5, <3>7, <3>8 DEF NoneStarts
  <2>5. QED
    BY <2>3, <2>4
<1>4. CASE SenderNext(t) \/ Lost(t)
  <2>1. PICK s \in States \ {"none"}, from \in States \ {"none", "Closed"} : SenderStep(t, from, s)
    BY <1>4, SenderSteps DEF SenderTo
  <2>2. ss[t] = from /\ OnStateChanged(t, s, pc) /\ UNCHANGED <<stream, clashed>>
    BY <2>1 DEF SenderStep
  <2>3. pc \in [Transfers -> PC]
    BY DEF TypeOK
  <2>4. /\ \A u \in Transfers : pc'[u] = pc[u] \/ (pc[u] = "wait" /\ pc'[u] = "request")
        /\ \A u \in Transfers \ {t} : ss'[u] = ss[u]
        /\ ss'[t] = s
    BY <2>2, <2>3, CallbackMoves
  <2>5. QED
    BY <2>2, <2>4 DEF NoneStarts
<1>5. CASE ReceiverNext(t) \/ OnStreamData(t) \/ Closed(t) \/ OnFriendMessage(t)
  BY <1>5, ReceiverFrame DEF senderside, threads, statics, NoneStarts
<1>6. QED
  BY <1>1, <1>2, <1>3, <1>4, <1>5 DEF StepOf, ThreadNext

LEMMA UnderWayOnlyEnds ==
  ASSUME IInv, NoneStarts, NEW u \in Transfers, UnderWay(u)'
  PROVE  UnderWay(u)
BY DEF IInv, NoneStarts, UnderWay, StaticsOwned

LEMMA ThreadsStep ==
  ASSUME IInv, NEW t \in Transfers, StepOf(t), TypeOK'
  PROVE  StaticsOwned' /\ RivalsClash'
<1>1. CASE AddStream(t)
  <2>1. StaticsOwned'
    <3>1. /\ stream' = [stream EXCEPT ![Owner[t]] = t]
          /\ ss' = [ss EXCEPT ![t] = "added"]
          /\ pc' = [pc EXCEPT ![t] = "added"]
      BY <1>1 DEF AddStream, Goto
    <3>2. /\ DOMAIN stream = Phones /\ DOMAIN ss = Transfers /\ DOMAIN pc = Transfers
          /\ Owner[t] \in Phones /\ t # None
          /\ \A p \in Phones : stream[p] # None => stream[p] \in Transfers
      BY FilesAssumption DEF IInv, TypeOK
    <3>3. StaticsOwned
      BY DEF IInv
    <3>4. \A p \in Phones :
            stream'[p] # None => Owner[stream'[p]] = p /\ ss'[stream'[p]] # "none"
      BY <3>1, <3>2, <3>3 DEF StaticsOwned
    <3>5. \A u \in Transfers : pc'[u] \notin {"idle", "done"} => stream'[Owner[u]] # None
      BY <3>1, <3>2, <3>3, FilesAssumption DEF StaticsOwned
    <3>6. \A u \in Transfers : pc'[u] = "idle" => ss'[u] = "none"
      BY <3>1, <3>2, <3>3 DEF StaticsOwned
    <3>7. QED
      BY <3>4, <3>5, <3>6 DEF StaticsOwned
  <2>2. \A u \in Transfers \ {t} : UnderWay(u)' <=> UnderWay(u)
    BY <1>1 DEF IInv, AddStream, UnderWay, Goto, TypeOK
  <2>3. \A u \in Siblings(t) : UnderWay(u) => u \in clashed' /\ t \in clashed'
    BY <1>1 DEF AddStream
  <2>4. clashed \subseteq clashed'
    BY <1>1 DEF AddStream
  <2>5. QED
    BY <2>1, <2>2, <2>3, <2>4 DEF IInv, RivalsClash, Siblings
<1>2. CASE ~AddStream(t)
  <2>1. NoneStarts /\ clashed' = clashed
    BY <1>2, OnlyAddStreamStarts
  <2>2. StaticsOwned'
    <3>1. \A p \in Phones : stream[p] # None => stream[p] \in Transfers
      BY DEF IInv, TypeOK
    <3>2. \A u \in Transfers : pc'[u] = "idle" => ss'[u] = "none"
      BY <2>1 DEF IInv, NoneStarts, StaticsOwned
    <3>3. QED
      BY <2>1, <3>1, <3>2 DEF IInv, NoneStarts, StaticsOwned
  <2>3. RivalsClash'
    BY <2>1, UnderWayOnlyEnds DEF IInv, RivalsClash, Siblings
  <2>4. QED
    BY <2>2, <2>3
<1>3. QED
  BY <1>1, <1>2

-----------------------------------------------------------------------------
(* Types, and the bound of the handshake.                                   *)

LEMMA ThreadTypes ==
  ASSUME IInv, NEW t \in Transfers, ThreadNext(t)
  PROVE  TypeOK' /\ HandshakeBounded'
<1> USE FilesAssumption
<1>0. TypeOK /\ HandshakeBounded
  BY DEF IInv
<1>1. CASE AddStream(t) \/ Throws(t) \/ Wait(t) \/ Poll(t)
  <2>1. CASE AddStream(t)
    BY <1>0, <2>1
    DEF AddStream, Goto, globals, inbox, Siblings, TypeOK, HandshakeBounded, PC, States
  <2>2. CASE Throws(t)
    BY <1>0, <2>2 DEF Throws, Goto, statics, globals, inbox, TypeOK, HandshakeBounded, PC
  <2>3. CASE Wait(t)
    BY <1>0, <2>3 DEF Wait, Goto, statics, globals, inbox, TypeOK, HandshakeBounded, PC
  <2>4. CASE Poll(t)
    <3>1. Len(Awaits) = 4
      BY DEF Awaits
    <3>2. awaited' = [awaited EXCEPT ![t] = @ + 1] /\ awaited[t] \in 0..3
      BY <1>0, <2>4, <3>1 DEF Poll, TypeOK, HandshakeBounded
    <3>3. awaited' \in [Transfers -> 0..4] /\ pc' \in [Transfers -> PC]
      BY <1>0, <2>4, <3>1, <3>2 DEF Poll, Goto, TypeOK, PC
    <3>4. HandshakeBounded'
      BY <1>0, <2>4, <3>1, <3>2 DEF Poll, Goto, TypeOK, HandshakeBounded
    <3>5. QED
      BY <1>0, <2>4, <3>1, <3>3, <3>4 DEF Poll, statics, globals, inbox, TypeOK
  <2>5. QED
    BY <1>1, <2>1, <2>2, <2>3, <2>4
<1>2. CASE Request(t)
  <2>1. Current(t) \in Transfers
    BY <1>2, CurrentIsOwn DEF Request
  <2>2. QED
    BY <1>0, <1>2, <2>1
    DEF Request, Goto, statics, globals, inbox, TypeOK, HandshakeBounded, PC, States, Awaits
<1>3. CASE BulkWrite(t) \/ WriteFails(t)
  <2>1. CASE BulkWrite(t)
    <3>1. pc' \in [Transfers -> PC] /\ \A u \in Transfers : pc'[u] = pc[u] \/ pc'[u] \in {"write", "done"}
      BY <1>0, <2>1 DEF BulkWrite, Goto, TypeOK, PC
    <3>2. notices' \subseteq Transfers
      BY <1>0, <2>1 DEF BulkWrite, TypeOK
    <3>3. QED
      BY <1>0, <2>1, <3>1, <3>2
      DEF BulkWrite, statics, globals, inbox, TypeOK, HandshakeBounded
  <2>2. CASE WriteFails(t)
    BY <1>0, <2>2 DEF WriteFails, Goto, statics, globals, inbox, TypeOK, HandshakeBounded, PC
  <2>3. QED
    BY <1>3, <2>1, <2>2
<1>4. CASE WriteData(t)
  <2>1. Current(t) \in Transfers
    BY <1>4, CurrentIsOwn DEF WriteData
  <2>2. PICK rc \in 1..Least(Chunk, Size[t] - sent[t]) :
          /\ wire' = [wire EXCEPT ![Current(t)] = @ \o [i \in 1..rc |-> <<t, sent[t] + i>>]]
          /\ sent' = [sent EXCEPT ![t] = @ + rc]
    BY <1>4 DEF WriteData
  <2>3. rc \in Nat /\ rc <= Size[t] - sent[t]
    BY <1>0, <2>2 DEF Least, TypeOK
  <2>4. [i \in 1..rc |-> <<t, sent[t] + i>>] \in Seq(Unit)
    <3>1. sent[t] \in Nat
      BY <1>0 DEF TypeOK
    <3>2. \A i \in 1..rc : sent[t] + i \in Nat
      BY <2>3, <3>1
    <3>3. \A i \in 1..rc : <<t, sent[t] + i>> \in Unit
      BY <3>2 DEF Unit
    <3>4. QED
      BY <2>3, <3>3
  <2>5. wire' \in [Transfers -> Seq(Unit)]
    BY SMTT(30), <1>0, <2>1, <2>2, <2>4 DEF TypeOK
  <2>6. sent' \in [Transfers -> Nat] /\ \A u \in Transfers : sent'[u] <= Size[u]
    BY <1>0, <2>2, <2>3 DEF TypeOK
  <2>7. pc' \in [Transfers -> PC] /\ \A u \in Transfers : pc'[u] = pc[u] \/ pc'[u] \in {"write", "close"}
    BY <1>0, <1>4 DEF WriteData, Goto, TypeOK, PC
  <2>8. QED
    BY <1>0, <1>4, <2>5, <2>6, <2>7
    DEF WriteData, statics, globals, inbox, TypeOK, HandshakeBounded
<1>5. CASE Close(t)
  <2>1. Current(t) \in Transfers /\ [pc EXCEPT ![t] = "done"] \in [Transfers -> PC]
        /\ pc[t] = "close"
    BY <1>0, <1>5, CurrentIsOwn DEF Close, TypeOK, PC
  <2>2. /\ ss' \in [Transfers -> States] /\ mState' \in [Phones -> States]
        /\ pc' \in [Transfers -> PC]
        /\ \A u \in Transfers : pc'[u] \in {pc[u], "done"} \/ (pc[u] = "wait" /\ pc'[u] = "request")
    <3>1. CASE ss[Current(t)] = "Closed"
      BY <1>0, <1>5, <3>1 DEF Close, Goto, TypeOK, PC
    <3>2. CASE ss[Current(t)] # "Closed"
      <4> DEFINE f == [pc EXCEPT ![t] = "done"]
                 x == Current(t)
      <4>1. OnStateChanged(x, "Closed", f) /\ x \in Transfers /\ f \in [Transfers -> PC]
        BY <1>5, <2>1, <3>2 DEF Close
      <4>2. \A u \in Transfers : f[u] \in {pc[u], "done"}
        BY <1>0 DEF TypeOK
      <4>3. "Closed" \in States
        BY DEF States
      <4> HIDE DEF f, x
      <4>4. QED
        BY <4>1, <4>2, <4>3, CallbackMoves
    <3>3. QED
      BY <3>1, <3>2
  <2>3. QED
    BY <1>0, <1>5, <2>2 DEF Close, globals, inbox, TypeOK, HandshakeBounded
<1>6. QED
  BY <1>1, <1>2, <1>3, <1>4, <1>5 DEF ThreadNext

LEMMA SenderTypes ==
  ASSUME IInv, NEW t \in Transfers, SenderNext(t) \/ Lost(t)
  PROVE  TypeOK' /\ HandshakeBounded'
<1>0. TypeOK /\ HandshakeBounded /\ pc \in [Transfers -> PC]
  BY DEF IInv, TypeOK
<1>1. PICK s \in States \ {"none"}, from \in States \ {"none", "Closed"} : SenderStep(t, from, s)
  BY SenderSteps DEF SenderTo
<1>2. /\ ss' \in [Transfers -> States] /\ mState' \in [Phones -> States]
      /\ pc' \in [Transfers -> PC]
      /\ \A u \in Transfers : pc'[u] = pc[u] \/ (pc[u] = "wait" /\ pc'[u] = "request")
  BY <1>0, <1>1, CallbackMoves DEF SenderStep
<1>3. QED
  BY <1>0, <1>1, <1>2 DEF SenderStep, globals, inbox, TypeOK, HandshakeBounded

(* What a saving thread puts down is curfuid's, or it was put down before. *)
RowOf(t, row) ==
  /\ row \in Row
  /\ {row.tell, row.from, row.row} \subseteq
       {shown[t].tell, shown[t].from, shown[t].row, curfuid}

LEMMA SavingSteps ==
  ASSUME IInv, NEW t \in Transfers,
         PutFromId(t) \/ AddFriendMessage(t) \/ PutMsgListNew(t)
  PROVE  \E from \in Saving, to \in States \ {"none"}, row \in Row :
           Saves(t, from, to, row) /\ RowOf(t, row)
<1>0. TypeOK /\ CurfuidCurrent /\ shown[t] \in Row /\ rs[t] \in States
  BY DEF IInv, TypeOK
<1>1. CASE PutFromId(t)
  <2> DEFINE r == [shown[t] EXCEPT !.tell = curfuid, !.kind = filetype[curfuid]]
  <2>1. Saves(t, "saved", "addressed", r)
    BY <1>1 DEF PutFromId
  <2>2. curfuid \in Phones
    BY <1>0, <2>1 DEF Saves, CurfuidCurrent, TypeOK
  <2>3. RowOf(t, r)
    <3>1. curfuid \in Friend /\ filetype[curfuid] \in Exts \cup {None}
      BY <1>0, <2>2 DEF Friend, TypeOK
    <3>2. QED
      BY <1>0, <3>1 DEF RowOf, Row
  <2> HIDE DEF r
  <2>4. QED
    BY <2>1, <2>3 DEF RowOf, Saving, States
<1>2. CASE AddFriendMessage(t)
  <2> DEFINE r == [shown[t] EXCEPT !.from = curfuid]
  <2>1. Saves(t, "addressed", "stored", r)
    BY <1>2 DEF AddFriendMessage
  <2>2. curfuid \in Phones
    BY <1>0, <2>1 DEF Saves, CurfuidCurrent, TypeOK
  <2>3. RowOf(t, r)
    <3>1. curfuid \in Friend /\ filetype[curfuid] \in Exts \cup {None}
      BY <1>0, <2>2 DEF Friend, TypeOK
    <3>2. QED
      BY <1>0, <3>1 DEF RowOf, Row
  <2> HIDE DEF r
  <2>4. QED
    BY <2>1, <2>3 DEF RowOf, Saving, States
<1>3. CASE PutMsgListNew(t)
  <2> DEFINE r == [shown[t] EXCEPT !.row = curfuid]
  <2>1. Saves(t, "stored", "done", r)
    BY <1>3 DEF PutMsgListNew
  <2>2. curfuid \in Phones
    BY <1>0, <2>1 DEF Saves, CurfuidCurrent, TypeOK
  <2>3. RowOf(t, r)
    <3>1. curfuid \in Friend /\ filetype[curfuid] \in Exts \cup {None}
      BY <1>0, <2>2 DEF Friend, TypeOK
    <3>2. QED
      BY <1>0, <3>1 DEF RowOf, Row
  <2> HIDE DEF r
  <2>4. QED
    BY <2>1, <2>3 DEF RowOf, Saving, States
<1>4. QED
  BY <1>1, <1>2, <1>3

LEMMA ReceiverTypes ==
  ASSUME IInv, NEW t \in Transfers,
         ReceiverNext(t) \/ OnStreamData(t) \/ Closed(t) \/ OnFriendMessage(t)
  PROVE  TypeOK' /\ HandshakeBounded'
<1> USE FilesAssumption
<1>0. TypeOK /\ HandshakeBounded
  BY DEF IInv
<1>1. UNCHANGED <<pc, awaited, sent, stream, mState, ss, clashed>>
  BY ReceiverFrame DEF senderside, threads, statics
<1>2. HandshakeBounded'
  BY <1>0, <1>1 DEF HandshakeBounded
<1>3. CASE OnSessionRequest(t)
  BY <1>0, <1>1, <1>2, <1>3 DEF OnSessionRequest, inbox, TypeOK, States
<1>4. CASE ReplyRequest(t) \/ Start(t) \/ Joined(t)
  BY <1>0, <1>1, <1>2, <1>4 DEF ReplyRequest, Start, Joined, globals, inbox, TypeOK, States
<1>5. CASE OnStreamData(t)
  <2>1. wire[t] \in Seq(Unit) /\ received[t] \in Seq(Unit) /\ wire[t] # <<>>
    BY <1>0, <1>5 DEF OnStreamData, TypeOK
  <2>2. Tail(wire[t]) \in Seq(Unit) /\ Append(received[t], Head(wire[t])) \in Seq(Unit)
    BY <2>1
  <2>3. QED
    BY <1>0, <1>1, <1>2, <1>5, <2>2 DEF OnStreamData, globals, TypeOK
<1>6. CASE Closed(t)
  BY <1>0, <1>1, <1>2, <1>6 DEF Closed, globals, inbox, TypeOK, States
<1>7. CASE GetFile(t)
  <2>1. curfuid \in Phones
    BY <1>0, <1>7 DEF IInv, CurfuidCurrent, GetFile, TypeOK
  <2>2. QED
    BY <1>0, <1>1, <1>2, <1>7, <2>1 DEF GetFile, globals, TypeOK, States, Saving
<1>8. CASE PutFromId(t) \/ AddFriendMessage(t) \/ PutMsgListNew(t)
  <2>1. PICK from \in Saving, to \in States, row \in Row :
          Saves(t, from, to, row) /\ RowOf(t, row)
    BY <1>8, SavingSteps
  <2>2. row \in Row
    BY <2>1 DEF RowOf
  <2>3. shown' \in [Transfers -> Row] /\ rs' \in [Transfers -> States]
    BY <1>0, <2>1, <2>2 DEF Saves, TypeOK
  <2>4. QED
    BY <1>0, <1>1, <1>2, <2>1, <2>3 DEF Saves, globals, TypeOK
<1>9. CASE OnFriendMessage(t)
  BY <1>0, <1>1, <1>2, <1>9 DEF OnFriendMessage, globals, inbox, TypeOK
<1>10. QED
  BY <1>3, <1>4, <1>5, <1>6, <1>7, <1>8, <1>9 DEF ReceiverNext

LEMMA StepTypes ==
  ASSUME IInv, NEW t \in Transfers, StepOf(t)
  PROVE  TypeOK' /\ HandshakeBounded'
BY ThreadTypes, SenderTypes, ReceiverTypes DEF StepOf

-----------------------------------------------------------------------------
(* The data.                                                                *)

(* Nothing is written, delivered or dropped, no session is closed. *)
DataKept ==
  /\ UNCHANGED <<received, wire, sent>>
  /\ clashed \subseteq clashed'
  /\ \A u \in Transfers :
       rs'[u] \notin {"Closed", "done"} \cup Saving => rs[u] \notin {"Closed", "done"} \cup Saving

LEMMA DataKeptIsQuiet == IInv /\ DataKept => NothingMissing' /\ ReceivedIsPrefix'
BY DEF IInv, DataKept, NothingMissing, ReceivedIsPrefix

LEMMA OtherStepsKeepData ==
  ASSUME IInv, NEW t \in Transfers, StepOf(t),
         ~WriteData(t), ~OnStreamData(t), ~Closed(t)
  PROVE  DataKept
<1>0. rs \in [Transfers -> States]
  BY DEF IInv, TypeOK
<1>1. CASE AddStream(t) \/ Throws(t) \/ Wait(t) \/ Request(t) \/ Poll(t)
           \/ BulkWrite(t) \/ WriteFails(t) \/ Close(t)
  BY <1>1 DEF AddStream, Throws, Wait, Request, Poll, BulkWrite, WriteFails, Close,
              inbox, DataKept
<1>2. CASE SenderNext(t) \/ Lost(t)
  <2>1. PICK s \in States, from \in States : SenderStep(t, from, s)
    BY <1>2, SenderSteps DEF SenderTo
  <2>2. QED
    BY <2>1 DEF SenderStep, inbox, DataKept
<1>3. CASE OnSessionRequest(t) \/ GetFile(t) \/ OnFriendMessage(t)
  BY <1>0, <1>3 DEF OnSessionRequest, GetFile, OnFriendMessage,
                    senderside, threads, inbox, DataKept, Saving
<1>4. CASE ReplyRequest(t) \/ Start(t) \/ Joined(t)
  BY <1>0, <1>4 DEF ReplyRequest, Start, Joined, senderside, threads, inbox, DataKept, Saving
<1>5. CASE PutFromId(t) \/ AddFriendMessage(t) \/ PutMsgListNew(t)
  BY <1>0, <1>5 DEF PutFromId, AddFriendMessage, PutMsgListNew, Saves,
                    senderside, threads, DataKept, Saving
<1>6. QED
  BY <1>1, <1>2, <1>3, <1>4, <1>5 DEF StepOf, ThreadNext, ReceiverNext

(* A thread that finds another file in the statics has clashed with it. *)
LEMMA StrangersClash ==
  ASSUME IInv, NEW t \in Transfers, WriteData(t), Current(t) # t
  PROVE  t \in clashed /\ Current(t) \in clashed
<1>1. pc[t] = "write" /\ ss[Current(t)] = "Connected"
  BY DEF WriteData
<1>2. Current(t) \in Siblings(t) /\ t \in Siblings(Current(t))
  BY <1>1, CurrentIsOwn DEF Siblings
<1>3. pc[Current(t)] # "idle"
  BY <1>1, <1>2 DEF IInv, StaticsOwned, Siblings
<1>4. UnderWay(t) /\ UnderWay(Current(t))
  BY <1>1, <1>3 DEF UnderWay
<1>5. QED
  BY <1>2, <1>4 DEF IInv, RivalsClash, Siblings

(* r was delivered, w is on the wire: together the first n units of file t. *)
InFlow(t, r, w, n) ==
  /\ Len(r) + Len(w) = n
  /\ \A i \in 1..Len(w) : w[i] = <<t, Len(r) + i>>

(* r is a beginning of file t. *)
Begins(t, r) == \A i \in 1..Len(r) : r[i] = <<t, i>>

LEMMA WritingExtends ==
  ASSUME NEW S, NEW t, NEW r \in Seq(S), NEW w \in Seq(S), NEW n \in Nat, NEW k \in Nat,
         \A i \in 1..k : <<t, n + i>> \in S,
         InFlow(t, r, w, n)
  PROVE  InFlow(t, r, w \o [i \in 1..k |-> <<t, n + i>>], n + k)
<1> DEFINE m == [i \in 1..k |-> <<t, n + i>>]
           z == w \o m
<1>1. m \in Seq(S) /\ Len(m) = k
  OBVIOUS
<1>2. \A i \in 1..k : m[i] = <<t, n + i>>
  OBVIOUS
<1> HIDE DEF m
<1>3. /\ Len(z) = Len(w) + k
      /\ \A i \in 1..(Len(w) + k) : z[i] = IF i <= Len(w) THEN w[i] ELSE m[i - Len(w)]
  BY <1>1
<1> HIDE DEF z
<1>4. Len(r) \in Nat /\ Len(w) \in Nat
  OBVIOUS
<1>5. n = Len(r) + Len(w) /\ \A i \in 1..Len(w) : w[i] = <<t, Len(r) + i>>
  BY DEF InFlow
<1>6. ASSUME NEW i \in 1..(Len(w) + k), i <= Len(w) PROVE z[i] = <<t, Len(r) + i>>
  <2>1. i \in 1..Len(w)
    BY <1>4, <1>6
  <2>2. QED
    BY <1>3, <1>5, <1>6, <2>1
<1>7. ASSUME NEW i \in 1..(Len(w) + k), ~(i <= Len(w)) PROVE z[i] = <<t, Len(r) + i>>
  <2>1. i - Len(w) \in 1..k /\ n + (i - Len(w)) = Len(r) + i
    BY <1>4, <1>5, <1>7
  <2>2. z[i] = m[i - Len(w)]
    BY <1>3, <1>7
  <2>3. QED
    BY <1>2, <2>1, <2>2
<1>8. Len(r) + Len(z) = n + k
  BY <1>3, <1>4, <1>5
<1>9. QED
  BY <1>3, <1>6, <1>7, <1>8 DEF InFlow, m, z

LEMMA DeliveryShifts ==
  ASSUME NEW S, NEW t, NEW r \in Seq(S), NEW w \in Seq(S), NEW n \in Nat,
         InFlow(t, r, w, n), w # <<>>, Begins(t, r)
  PROVE  InFlow(t, Append(r, Head(w)), Tail(w), n) /\ Begins(t, Append(r, Head(w)))
<1> DEFINE a == Append(r, Head(w))
           b == Tail(w)
<1>1. Len(r) \in Nat /\ Len(w) \in Nat /\ Len(w) >= 1
  OBVIOUS
<1>2. /\ \A i \in 1..Len(r) : a[i] = r[i]
      /\ a[Len(r) + 1] = w[1]
  BY <1>1
<1>3. \A i \in 1..(Len(w) - 1) : b[i] = w[i + 1]
  BY <1>1
<1>4. Len(a) = Len(r) + 1 /\ Len(b) = Len(w) - 1
  BY <1>1
<1> HIDE DEF a, b
<1>5. \A i \in 1..Len(a) : a[i] = <<t, i>>
  <2>1. w[1] = <<t, Len(r) + 1>>
    BY <1>1 DEF InFlow
  <2>2. QED
    BY <1>1, <1>2, <1>4, <2>1 DEF Begins
<1>6. Len(a) + Len(b) = n
  <2>1. Len(r) + Len(w) = n
    BY DEF InFlow
  <2>2. QED
    BY <1>1, <1>4, <2>1
<1>7. ASSUME NEW i \in 1..Len(b) PROVE b[i] = <<t, Len(a) + i>>
  <2>1. i \in 1..(Len(w) - 1) /\ i + 1 \in 1..Len(w)
    BY <1>1, <1>3, <1>4
  <2>2. b[i] = <<t, Len(r) + (i + 1)>>
    BY <1>3, <2>1 DEF InFlow
  <2>3. Len(r) + (i + 1) = Len(a) + i
    BY <1>1, <1>2, <1>4, <2>1
  <2>4. QED
    BY <2>2, <2>3
<1>8. QED
  BY <1>5, <1>6, <1>7 DEF InFlow, Begins, a, b

LEMMA DataStep ==
  ASSUME IInv, NEW t \in Transfers, StepOf(t)
  PROVE  NothingMissing' /\ ReceivedIsPrefix'
<1>0. TypeOK /\ NothingMissing /\ ReceivedIsPrefix
  BY DEF IInv
<1>1. /\ wire[t] \in Seq(Unit) /\ received[t] \in Seq(Unit) /\ sent[t] \in Nat
      /\ rs[t] \notin {"Closed", "done"} \cup Saving /\ t \notin clashed =>
           InFlow(t, received[t], wire[t], sent[t])
      /\ t \notin clashed => Begins(t, received[t])
  BY <1>0 DEF TypeOK, NothingMissing, ReceivedIsPrefix, InFlow, Begins
<1>2. CASE WriteData(t)
  <2> DEFINE x == Current(t)
  <2>1. PICK rc \in 1..Least(Chunk, Size[t] - sent[t]) :
          /\ wire' = [wire EXCEPT ![x] = @ \o [i \in 1..rc |-> <<t, sent[t] + i>>]]
          /\ sent' = [sent EXCEPT ![t] = @ + rc]
    BY <1>2 DEF WriteData
  <2>2. UNCHANGED <<received, rs, clashed>>
    BY <1>2 DEF WriteData, inbox
  <2>3. ReceivedIsPrefix'
    BY <1>0, <2>2 DEF ReceivedIsPrefix
  <2>4. \A u \in Transfers \ {t, x} : wire'[u] = wire[u] /\ sent'[u] = sent[u]
    BY <1>0, <2>1 DEF TypeOK
  <2>5. CASE x # t
    BY ZenonT(40), <1>0, <1>2, <2>2, <2>3, <2>4, <2>5, StrangersClash DEF NothingMissing
  <2>6. CASE x = t
    <3>1. rc \in Nat
      BY FilesAssumption, <2>1, <1>0 DEF Least, TypeOK
    <3>2. wire'[t] = wire[t] \o [i \in 1..rc |-> <<t, sent[t] + i>>] /\ sent'[t] = sent[t] + rc
      BY <1>0, <2>1, <2>6 DEF TypeOK
    <3>3. ASSUME t \notin clashed, rs[t] \notin {"Closed", "done"} \cup Saving
          PROVE  InFlow(t, received[t], wire'[t], sent'[t])
      <4>1. \A i \in 1..rc : <<t, sent[t] + i>> \in Unit
        BY <1>1, <3>1 DEF Unit
      <4>2. InFlow(t, received[t], wire[t], sent[t])
        BY <1>1, <3>3
      <4>3. InFlow(t, received[t], wire[t] \o [i \in 1..rc |-> <<t, sent[t] + i>>], sent[t] + rc)
        BY <1>1, <3>1, <4>1, <4>2, WritingExtends, Zenon
      <4>4. QED
        BY <3>2, <4>3
    <3>4. NothingMissing'
      BY ZenonT(40), <1>0, <2>2, <2>4, <2>6, <3>3 DEF NothingMissing, InFlow
    <3>5. QED
      BY <2>3, <3>4
  <2>7. QED
    BY <2>5, <2>6
<1>3. CASE OnStreamData(t)
  <2>1. /\ rs[t] = "Connected" /\ wire[t] # <<>>
        /\ received' = [received EXCEPT ![t] = Append(@, Head(wire[t]))]
        /\ wire' = [wire EXCEPT ![t] = Tail(@)]
        /\ UNCHANGED <<sent, rs, clashed>>
    BY <1>3 DEF OnStreamData, senderside, threads
  <2>2. \A u \in Transfers \ {t} : received'[u] = received[u] /\ wire'[u] = wire[u]
    BY <1>0, <2>1 DEF TypeOK
  <2>3. received'[t] = Append(received[t], Head(wire[t])) /\ wire'[t] = Tail(wire[t])
    BY <1>0, <2>1 DEF TypeOK
  <2>4. ASSUME t \notin clashed
        PROVE  InFlow(t, received'[t], wire'[t], sent[t]) /\ Begins(t, received'[t])
    <3>1. InFlow(t, received[t], wire[t], sent[t]) /\ Begins(t, received[t])
      BY <1>1, <2>1, <2>4 DEF Saving
    <3>2. /\ InFlow(t, Append(received[t], Head(wire[t])), Tail(wire[t]), sent[t])
          /\ Begins(t, Append(received[t], Head(wire[t])))
      BY <1>1, <2>1, <3>1, DeliveryShifts, Zenon
    <3>3. QED
      BY <2>3, <3>2
  <2>5. NothingMissing'
    <3>1. ASSUME NEW u \in Transfers \ clashed, u # t,
                 rs'[u] \notin {"Closed", "done"} \cup Saving
          PROVE  /\ Len(received'[u]) + Len(wire'[u]) = sent'[u]
                 /\ \A i \in 1..Len(wire'[u]) : wire'[u][i] = <<u, Len(received'[u]) + i>>
      <4>1. received'[u] = received[u] /\ wire'[u] = wire[u] /\ sent'[u] = sent[u] /\ rs'[u] = rs[u]
        BY <2>1, <2>2, <3>1
      <4>2. /\ Len(received[u]) + Len(wire[u]) = sent[u]
            /\ \A i \in 1..Len(wire[u]) : wire[u][i] = <<u, Len(received[u]) + i>>
        BY <1>0, <3>1, <4>1 DEF NothingMissing
      <4>3. QED
        BY <4>1, <4>2
    <3>2. t \notin clashed =>
              /\ Len(received'[t]) + Len(wire'[t]) = sent'[t]
              /\ \A i \in 1..Len(wire'[t]) : wire'[t][i] = <<t, Len(received'[t]) + i>>
      BY <2>1, <2>4 DEF InFlow
    <3>3. QED
      BY <2>1, <3>1, <3>2 DEF NothingMissing
  <2>6. ReceivedIsPrefix'
    BY <1>0, <2>1, <2>2, <2>4 DEF ReceivedIsPrefix, Begins
  <2>7. QED
    BY <2>5, <2>6
<1>4. CASE Closed(t)
  <2>1. /\ rs' = [rs EXCEPT ![t] = "Closed"]
        /\ wire' = [wire EXCEPT ![t] = <<>>]
        /\ UNCHANGED <<sent, received, clashed>>
    BY <1>4 DEF Closed, senderside, threads, inbox
  <2>2. QED
    BY <1>0, <2>1 DEF NothingMissing, ReceivedIsPrefix, TypeOK, Saving
<1>5. CASE ~WriteData(t) /\ ~OnStreamData(t) /\ ~Closed(t)
  BY <1>5, OtherStepsKeepData, DataKeptIsQuiet
<1>6. QED
  BY <1>2, <1>3, <1>4, <1>5

-----------------------------------------------------------------------------
(* The friend.                                                              *)

(* No session opens, no request arrives and nothing is shown. *)
FriendKept ==
  /\ UNCHANGED <<curfuid, shown, overtaken>>
  /\ \A u \in Transfers :
       /\ rs'[u] # "none" => rs[u] # "none"
       /\ rs'[u] # "done" => rs[u] # "done"

LEMMA FriendKeptIsQuiet == IInv /\ FriendKept => CurfuidCurrent' /\ ShownFromSender'
BY DEF IInv, FriendKept, CurfuidCurrent, ShownFromSender

LEMMA FriendStep ==
  ASSUME IInv, NEW t \in Transfers, StepOf(t), TypeOK'
  PROVE  CurfuidCurrent' /\ ShownFromSender'
<1> USE FilesAssumption
<1>0. rs \in [Transfers -> States] /\ shown \in [Transfers -> Row]
      /\ CurfuidCurrent /\ ShownFromSender
  BY DEF IInv, TypeOK
<1>1. CASE OnSessionRequest(t)
  <2>1. /\ curfuid' = Owner[t]
        /\ overtaken' = overtaken \cup {u \in Transfers : rs[u] \notin {"none", "done"}}
        /\ \A u \in Transfers \ {t} : rs'[u] = rs[u]
        /\ rs'[t] # "none"
        /\ shown' = shown
    BY <1>0, <1>1 DEF OnSessionRequest, inbox
  <2>2. Owner[t] # None
    OBVIOUS
  <2>3. QED
    BY <1>0, <2>1, <2>2 DEF CurfuidCurrent, ShownFromSender
<1>2. CASE PutFromId(t) \/ AddFriendMessage(t) \/ PutMsgListNew(t)
  <2>1. PICK from \in Saving, to \in States \ {"none"}, row \in Row :
          Saves(t, from, to, row) /\ RowOf(t, row)
    BY <1>2, SavingSteps
  <2>2. /\ rs[t] = from /\ rs' = [rs EXCEPT ![t] = to]
        /\ shown' = [shown EXCEPT ![t] = row]
        /\ UNCHANGED <<curfuid, overtaken>>
    BY <2>1 DEF Saves, globals
  <2>3. rs[t] \notin {"none", "done"}
    BY <2>2 DEF Saving
  <2>4. CurfuidCurrent'
    BY <1>0, <2>2, <2>3 DEF CurfuidCurrent
  <2>5. t \notin overtaken => {row.tell, row.from, row.row} \subseteq {None, Owner[t]}
    BY <1>0, <2>1, <2>3 DEF CurfuidCurrent, ShownFromSender, RowOf
  <2>6. shown'[t] = row /\ \A u \in Transfers \ {t} : shown'[u] = shown[u]
    BY <1>0, <2>2
  <2>7. ShownFromSender'
    BY <1>0, <2>2, <2>5, <2>6 DEF ShownFromSender
  <2>8. QED
    BY <2>4, <2>7
<1>3. CASE ThreadNext(t)
  BY <1>3, FriendKeptIsQuiet
  DEF ThreadNext, AddStream, Throws, Wait, Request, Poll, BulkWrite, WriteData, WriteFails,
      Close, globals, inbox, FriendKept
<1>4. CASE SenderNext(t) \/ Lost(t)
  <2>1. PICK s \in States, from \in States : SenderStep(t, from, s)
    BY <1>4, SenderSteps DEF SenderTo
  <2>2. QED
    BY <2>1, FriendKeptIsQuiet DEF SenderStep, globals, inbox, FriendKept
<1>5. CASE ReplyRequest(t) \/ Start(t) \/ Joined(t) \/ GetFile(t)
  BY <1>0, <1>5, FriendKeptIsQuiet
  DEF ReplyRequest, Start, Joined, GetFile, globals, inbox, FriendKept
<1>6. CASE OnStreamData(t) \/ Closed(t) \/ OnFriendMessage(t)
  BY <1>0, <1>6, FriendKeptIsQuiet
  DEF OnStreamData, Closed, OnFriendMessage, globals, inbox, FriendKept
<1>7. QED
  BY <1>1, <1>2, <1>3, <1>4, <1>5, <1>6 DEF StepOf, ReceiverNext

-----------------------------------------------------------------------------

LEMMA NextStep == IInv /\ [Next]_vars => IInv'
<1>1. ASSUME IInv, NEW t \in Transfers, StepOf(t) PROVE IInv'
  <2>1. TypeOK' /\ HandshakeBounded'
    BY <1>1, StepTypes
  <2>2. QED
    BY <1>1, <2>1, ThreadsStep, DataStep, FriendStep DEF IInv
<1>2. ASSUME IInv, UNCHANGED vars PROVE IInv'
  <2> USE <1>2 DEF vars, threads, statics, globals, inbox
  <2>1. TypeOK' /\ HandshakeBounded'
    BY DEF IInv, TypeOK, HandshakeBounded
  <2>2. StaticsOwned' /\ RivalsClash'
    BY DEF IInv, StaticsOwned, RivalsClash, UnderWay
  <2>3. NothingMissing' /\ ReceivedIsPrefix'
    BY DEF IInv, NothingMissing, ReceivedIsPrefix
  <2>4. CurfuidCurrent' /\ ShownFromSender'
    BY DEF IInv, CurfuidCurrent, ShownFromSender
  <2>5. QED
    BY <2>1, <2>2, <2>3, <2>4 DEF IInv
<1>3. QED
  BY <1>1, <1>2 DEF Next, StepOf

LEMMA Inductive == Spec => []IInv
<1>1. QED
  BY InitIInv, NextStep, PTL DEF Spec

(* The threads, the sessions and the receiver's fields keep their types; in *)
(* particular a thread never sends more than its file has.                  *)
THEOREM TypeCorrect == Spec => []TypeOK
<1>1. IInv => TypeOK
  BY DEF IInv
<1>2. QED
  BY Inductive, <1>1, PTL

(* A session of a phone that sends one file at a time delivers a beginning  *)
(* of that file: no gap, nothing twice, nothing of another file.            *)
THEOREM DeliveryIsFaithful == Spec => []ReceivedIsPrefix
<1>1. IInv => ReceivedIsPrefix
  BY DEF IInv
<1>2. QED
  BY Inductive, <1>1, PTL

(* A file whose session no other request overtook, from its own request to  *)
(* the last statement that saves it, is told, stored and listed as its      *)
(* sender's.                                                                *)
THEOREM AttributionIsRight == Spec => []ShownFromSender
<1>1. IInv => ShownFromSender
  BY DEF IInv
<1>2. QED
  BY Inductive, <1>1, PTL
==============================================================================
