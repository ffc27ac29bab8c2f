----------------------- MODULE ReplicatedKVStoreProofs -----------------------
(***************************************************************************)
(* Why "nothing to do" is sound, for any number of keys, values, writers   *)
(* and syncers: the invariant is inductive over the single steps of        *)
(* syncAllKeys, so no schedule of the threads and of the other devices     *)
(* can break it.  And why a sync replaces only what it found older.        *)
(***************************************************************************)
EXTENDS ReplicatedKVStore, TLAPS

IInv ==
  /\ TypeOK
  /\ CarriedIsCurrent
  /\ RecordedNotAhead
  /\ RecordedMeansEqual

LEMMA InitIInv == Init => IInv
<1> SUFFICES ASSUME Init PROVE IInv
  OBVIOUS
<1>1. NoEntry \in Entry /\ NoEntry \in Local /\ NoAnswer \in Answer
      /\ NoListed \in Listed
  BY DEF NoEntry, NoAnswer, NoListed, Entry, Local, Answer, Listed
<1>2. TypeOK
  <2>1. rows \in [Keys -> Seq(Row)]
    BY DEF Init
  <2>2. listing \in [Syncers -> [Keys -> Listed]]
    BY <1>1 DEF Init
  <2>3. QED
    BY <1>1, <2>1, <2>2 DEF Init, TypeOK, PC
<1>3. CarriedIsCurrent
  BY DEF Init, CarriedIsCurrent, Carried
<1>4. RecordedNotAhead /\ RecordedMeansEqual
  BY DEF Init, RecordedNotAhead, RecordedMeansEqual, Synced
<1>5. QED
  BY <1>2, <1>3, <1>4 DEF IInv

(* A thread a step leaves alone.                                           *)
Untouched(u) ==
  pc'[u] = pc[u] /\ key'[u] = key[u] /\ loc'[u] = loc[u] /\ got'[u] = got[u]

(* Each thread is left alone or has what it carries shown afresh.          *)
OthersUntouched == \A u \in Syncers : Untouched(u) \/ Carried(u)'

(* A step that changes neither the table nor the server leaves only the    *)
(* part of the threads that moved to be shown.                             *)
LEMMA QuietStep ==
  ASSUME IInv, TypeOK', UNCHANGED <<rows, server>>, OthersUntouched
  PROVE  IInv'
<1>1. \A u \in Syncers : Carried(u)'
  BY DEF IInv, CarriedIsCurrent, Carried, Fresh, Latest, Untouched, OthersUntouched
<1>2. RecordedNotAhead' /\ RecordedMeansEqual'
  BY DEF IInv, RecordedNotAhead, RecordedMeansEqual, Synced, Latest
<1>3. QED
  BY <1>1, <1>2 DEF IInv, CarriedIsCurrent

LEMMA InsertType ==
  ASSUME NEW k \in Keys, NEW row \in Row, TypeOK, Insert(k, row)
  PROVE  rows' \in [Keys -> Seq(Row)]
<1>1. Append(rows[k], row) \in Seq(Row)
  BY DEF TypeOK
<1>2. QED
  BY <1>1 DEF TypeOK, Insert

(* A new row of key k: the row itself may only claim a version of the      *)
(* server whose value it has, and no row a thread has read is the newest   *)
(* one any more.                                                           *)
LEMMA RowStep ==
  ASSUME NEW k \in Keys, NEW row \in Row,
         IInv, TypeOK', Insert(k, row), UNCHANGED server,
         OthersUntouched,
         row.rver <= server[k].ver,
         row.rver > 0 /\ row.rver = server[k].ver /\ ~row.del =>
           row.val = server[k].val /\ ~server[k].del
  PROVE  IInv'
<1> USE DEF IInv
<1>1. /\ rows[k] \in Seq(Row) /\ rows'[k] = Append(rows[k], row)
      /\ \A j \in Keys \ {k} : rows'[j] = rows[j]
      /\ Len(rows[k]) \in Nat /\ Len(rows'[k]) = Len(rows[k]) + 1
      /\ \A i \in 1..Len(rows[k]) : rows'[k][i] = rows[k][i]
      /\ rows'[k][Len(rows'[k])] = row
  BY DEF TypeOK, Insert
<1>2. ASSUME NEW u \in Syncers, Untouched(u) PROVE Carried(u)'
  <2>1. Carried(u) /\ loc[u].ver \in Nat /\ UNCHANGED <<pc[u], key[u], loc[u], got[u]>>
    BY <1>2 DEF CarriedIsCurrent, Untouched, TypeOK, Local
  <2>2. CASE key[u] = k
    BY <1>1, <2>1, <2>2 DEF Carried, Fresh, Latest
  <2>3. CASE key[u] # k
    BY <1>1, <2>1, <2>3 DEF Carried, Fresh, Latest
  <2>4. QED
    BY <2>2, <2>3
<1>3. RecordedNotAhead'
  BY <1>1 DEF RecordedNotAhead
<1>4. RecordedMeansEqual'
  <2>1. Latest(k)' = row
    BY <1>1 DEF Latest
  <2>2. QED
    BY <1>1, <2>1 DEF RecordedMeansEqual, Synced, Latest
<1>5. QED
  BY <1>2, <1>3, <1>4 DEF CarriedIsCurrent, OthersUntouched

(* A new version on the server: no row carries it yet, and no thread's     *)
(* answer is the current one any more.                                     *)
LEMMA ServerStep ==
  ASSUME NEW k \in Keys, NEW v, NEW del,
         IInv, TypeOK', ServerWrite(k, v, del), UNCHANGED rows,
         OthersUntouched
  PROVE  IInv'
<1> USE DEF IInv
<1>1. /\ server[k].ver \in Nat
      /\ server'[k].ver = server[k].ver + 1
      /\ \A j \in Keys \ {k} : server'[j] = server[j]
  BY DEF TypeOK, Entry, ServerWrite
<1>2. ASSUME NEW u \in Syncers, Untouched(u) PROVE Carried(u)'
  <2>1. Carried(u) /\ got[u].ver \in Nat /\ UNCHANGED <<pc[u], key[u], loc[u], got[u]>>
    BY <1>2 DEF CarriedIsCurrent, Untouched, TypeOK, Answer
  <2>2. CASE key[u] = k
    BY <1>1, <2>1, <2>2 DEF Carried, Fresh, Latest
  <2>3. CASE key[u] # k
    BY <1>1, <2>1, <2>3 DEF Carried, Fresh, Latest
  <2>4. QED
    BY <2>2, <2>3
<1>3. RecordedNotAhead'
  <2> SUFFICES ASSUME NEW j \in Keys, NEW i \in 1..Len(rows[j])
               PROVE  rows[j][i].rver <= server'[j].ver
    BY DEF RecordedNotAhead
  <2>1. rows[j][i].rver <= server[j].ver
    BY DEF RecordedNotAhead
  <2>2. rows[j][i] \in Row
    BY DEF TypeOK
  <2>3. QED
    BY <1>1, <2>1, <2>2 DEF Row
<1>4. RecordedMeansEqual'
  <2>1. ~Synced(k)'
    <3>1. CASE rows[k] = <<>>
      BY <3>1 DEF Synced
    <3>2. CASE rows[k] # <<>>
      <4>1. Len(rows[k]) \in 1..Len(rows[k]) /\ Latest(k).rver \in Nat
        <5>1. rows[k] \in Seq(Row)
          BY DEF TypeOK
        <5>2. Len(rows[k]) \in 1..Len(rows[k])
          BY <3>2, <5>1
        <5>3. rows[k][Len(rows[k])] \in Row
          BY <5>1, <5>2
        <5>4. QED
          BY <5>2, <5>3 DEF Latest, Row
      <4>2. Latest(k).rver <= server[k].ver
        BY <4>1 DEF RecordedNotAhead, Latest
      <4>3. QED
        BY <1>1, <4>1, <4>2 DEF Synced, Latest
    <3>3. QED
      BY <3>1, <3>2
  <2>2. QED
    BY <1>1, <2>1 DEF RecordedMeansEqual, Synced, Latest
<1>5. QED
  BY <1>2, <1>3, <1>4 DEF CarriedIsCurrent, OthersUntouched

-----------------------------------------------------------------------------
(* The steps, each for its own thread.                                     *)

LEMMA WriterStep ==
  ASSUME NEW w \in Writers, IInv, WriterNext(w)
  PROVE  IInv'
<1> USE DEF IInv
<1>1. ASSUME NEW k \in Keys, ReadVersion(w, k) PROVE IInv'
  <2>1. TypeOK'
    BY <1>1 DEF ReadVersion, TypeOK, store, flag, svars, LocalVersion
  <2>2. QED
    BY <1>1, <2>1, QuietStep DEF ReadVersion, Untouched, OthersUntouched, store, svars
<1>2. ASSUME NEW v \in Values, Set(w, v) PROVE IInv'
  <2> DEFINE k == wkey[w]
  <2>1. k \in Keys /\ SetRow(v, FALSE) \in Row
    BY <1>2 DEF Set, SetRow, TypeOK, Row
  <2>2. TypeOK'
    BY <1>2, <2>1, InsertType DEF Set, WriterDone, TypeOK, flag, svars
  <2>3. SetRow(v, FALSE).rver = 0 /\ server[k].ver \in Nat
    BY <2>1 DEF SetRow, TypeOK, Entry
  <2>4. Insert(k, SetRow(v, FALSE)) /\ UNCHANGED server /\ OthersUntouched
    BY <1>2 DEF Set, Untouched, OthersUntouched, svars
  <2> HIDE DEF k
  <2> DEFINE row == SetRow(v, FALSE)
  <2>5. row \in Row /\ row.rver = 0 /\ Insert(k, row)
    BY <2>1, <2>3, <2>4
  <2> HIDE DEF row
  <2>6. QED
    BY <2>1, <2>2, <2>3, <2>4, <2>5, RowStep
<1>3. ASSUME Delete(w) PROVE IInv'
  <2> DEFINE k == wkey[w]
             row == SetRow(Latest(k).val, TRUE)
  <2>1. k \in Keys /\ row \in Row
    <3>1. k \in Keys /\ rows[k] \in Seq(Row) /\ Len(rows[k]) # 0
      BY <1>3 DEF Delete, TypeOK, LocalVersion
    <3>2. rows[k][Len(rows[k])] \in Row
      BY <3>1
    <3>3. QED
      BY <3>1, <3>2 DEF Latest, SetRow, TypeOK, Row
  <2>2. TypeOK'
    BY <1>3, <2>1, InsertType DEF Delete, WriterDone, TypeOK, flag, svars
  <2>3. row.rver = 0 /\ server[k].ver \in Nat
    BY <2>1 DEF SetRow, TypeOK, Entry
  <2>4. Insert(k, row) /\ UNCHANGED server /\ OthersUntouched
    BY <1>3 DEF Delete, Untouched, OthersUntouched, svars
  <2> HIDE DEF k, row
  <2>5. QED
    BY <2>1, <2>2, <2>3, <2>4, RowStep
<1>4. ASSUME WriteConflict(w) PROVE IInv'
  <2>1. TypeOK'
    BY <1>4 DEF WriteConflict, WriterDone, TypeOK, store, flag, svars
  <2>2. QED
    BY <1>4, <2>1, QuietStep DEF WriteConflict, Untouched, OthersUntouched, store, svars
<1>5. QED
  BY <1>1, <1>2, <1>3, <1>4 DEF WriterNext

LEMMA EnvironmentStep ==
  ASSUME IInv,
         \/ \E k \in Keys, v \in Values, del \in BOOLEAN : OtherDevice(k, v, del)
         \/ Tick
  PROVE  IInv'
<1> USE DEF IInv
<1>1. ASSUME NEW k \in Keys, NEW v \in Values, NEW del \in BOOLEAN,
             OtherDevice(k, v, del)
      PROVE  IInv'
  <2>1. TypeOK'
    BY <1>1 DEF OtherDevice, ServerWrite, TypeOK, Entry, store, flag, wvars, svars
  <2>2. QED
    BY <1>1, <2>1, ServerStep DEF OtherDevice, Untouched, OthersUntouched, store, svars
<1>2. CASE Tick
  <2>1. TypeOK'
    BY <1>2 DEF Tick, TypeOK, store, flag, wvars, svars
  <2>2. QED
    BY <1>2, <2>1, QuietStep DEF Tick, Untouched, OthersUntouched, store, svars
<1>3. QED
  BY <1>1, <1>2

-----------------------------------------------------------------------------
(* The steps of syncAllKeys around the kernel.                             *)

LEMMA LoopStep ==
  ASSUME NEW t \in Syncers, IInv,
         \/ TestFlag(t) \/ ClaimFlag(t) \/ ListKeys(t)
         \/ ListFails(t) \/ Finish(t) \/ KernelThrows(t)
  PROVE  IInv'
<1> USE DEF IInv
<1>1. CASE TestFlag(t) \/ ClaimFlag(t)
  <2>1. TypeOK'
    BY <1>1 DEF TestFlag, ClaimFlag, Goto, TypeOK, PC, store, flag, wvars
  <2>2. OthersUntouched /\ UNCHANGED <<rows, server>>
    BY <1>1 DEF TestFlag, ClaimFlag, Goto, TypeOK, OthersUntouched, Untouched,
                Carried, store
  <2>3. QED
    BY <2>1, <2>2, QuietStep
<1>2. CASE ListKeys(t)
  <2>1. [k \in Keys |-> [ver |-> server[k].ver, time |-> server[k].time]]
          \in [Keys -> Listed]
    BY DEF TypeOK, Entry, Listed
  <2>2. TypeOK'
    BY <1>2, <2>1 DEF ListKeys, Goto, TypeOK, PC, store, flag, wvars
  <2>3. OthersUntouched /\ UNCHANGED <<rows, server>>
    BY <1>2 DEF ListKeys, Goto, TypeOK, OthersUntouched, Untouched, Carried, store
  <2>4. QED
    BY <2>2, <2>3, QuietStep
<1>3. CASE ListFails(t) \/ Finish(t) \/ KernelThrows(t)
  <2>1. Return(t)
    BY <1>3 DEF ListFails, Finish, KernelThrows
  <2>2. [k \in Keys |-> NoListed] \in [Keys -> Listed]
    BY DEF NoListed, Listed
  <2>3. TypeOK'
    BY <2>1, <2>2 DEF Return, Goto, TypeOK, PC, store, flag, wvars
  <2>4. OthersUntouched /\ UNCHANGED <<rows, server>>
    BY <2>1 DEF Return, Goto, TypeOK, OthersUntouched, Untouched, Carried, store
  <2>5. QED
    BY <2>3, <2>4, QuietStep
<1>4. QED
  BY <1>1, <1>2, <1>3

(* Leaving _syncKey: nothing is carried any more.                          *)
LEMMA NextKeyFacts ==
  ASSUME NEW t \in Syncers, TypeOK, NextKey(t)
  PROVE  /\ OthersUntouched
         /\ pc' \in [Syncers -> PC]
         /\ key' \in [Syncers -> Keys \cup {NoKey}]
         /\ recorded' \in [Syncers -> Nat]
         /\ loc' \in [Syncers -> Local]
         /\ got' \in [Syncers -> Answer]
<1>1. NoEntry \in Local /\ NoAnswer \in Answer
  BY DEF NoEntry, NoAnswer, Local, Answer
<1>2. QED
  BY <1>1 DEF NextKey, Goto, TypeOK, PC, OthersUntouched, Untouched, Carried

LEMMA KernelReadStep ==
  ASSUME NEW t \in Syncers, IInv,
         \/ \E k \in Keys : Compare(t, k)
         \/ ReadLocal(t) \/ RequestFails(t) \/ Fetch(t) \/ StoreConflict(t)
  PROVE  IInv'
<1> USE DEF IInv
<1> DEFINE k == key[t]
<1>1. ASSUME NEW j \in Keys, Compare(t, j) PROVE IInv'
  <2>1. RemoteVersion(j) \in Nat
    <3>1. rows[j] \in Seq(Row)
      BY DEF TypeOK
    <3>2. rows[j] # <<>> => rows[j][Len(rows[j])] \in Row
      BY <3>1
    <3>3. QED
      BY <3>2 DEF RemoteVersion, Latest, Row
  <2>2. TypeOK'
    <3>1. /\ UNCHANGED <<rows, server, now, wkey, wver, listing, loc, got>>
          /\ todo' \in [Syncers -> SUBSET Keys]
      BY <1>1 DEF Compare, TypeOK, store, wvars
    <3>2. syncRunning' \in BOOLEAN
      BY <1>1, Zenon DEF Compare, flag, TypeOK
    <3>3. /\ pc' \in [Syncers -> PC] /\ key' \in [Syncers -> Keys \cup {NoKey}]
          /\ recorded' \in [Syncers -> Nat]
      <4>1. CASE UNCHANGED <<pc, key, recorded>>
        BY <4>1 DEF TypeOK
      <4>2. CASE /\ pc' = [pc EXCEPT ![t] = "read"] /\ key' = [key EXCEPT ![t] = j]
                 /\ recorded' = [recorded EXCEPT ![t] = RemoteVersion(j)]
        BY <2>1, <4>2 DEF TypeOK, PC
      <4>3. QED
        BY <1>1, <4>1, <4>2 DEF Compare, Goto
    <3>4. QED
      BY <3>1, <3>2, <3>3 DEF TypeOK
  <2>3. OthersUntouched /\ UNCHANGED <<rows, server>>
    BY <1>1 DEF Compare, Goto, TypeOK, OthersUntouched, Untouched, Carried, store
  <2>4. QED
    BY <2>2, <2>3, QuietStep
<1>2. CASE ReadLocal(t)
  <2>1. k \in Keys /\ rows[k] \in Seq(Row)
    BY <1>2 DEF ReadLocal, CarriedIsCurrent, Carried, TypeOK
  <2>2. rows[k] # <<>> => Latest(k) \in Row
    BY <2>1 DEF Latest
  <2>3. Get(k) \in Local
    BY <2>1, <2>2 DEF Get, NoEntry, Row, Local
  <2>4. TypeOK'
    BY <1>2, <2>3 DEF ReadLocal, Goto, TypeOK, PC, store, flag, wvars
  <2>5. Carried(t)'
    <3>1. /\ Get(k).ver = Len(rows[k])
          /\ rows[k] # <<>> => /\ Get(k).val = Latest(k).val
                              /\ Get(k).del = Latest(k).del
      BY <2>1 DEF Get, NoEntry
    <3>2. /\ UNCHANGED <<rows, server>> /\ key'[t] = k /\ loc'[t] = Get(k)
          /\ pc'[t] \in {"fetch", "del", "put"}
          /\ pc'[t] = "del" => Get(k).del
          /\ pc'[t] = "put" => ~Get(k).del
      BY <1>2 DEF ReadLocal, Goto, TypeOK, store
    <3> HIDE DEF k
    <3>3. Len(rows[k]) \in Nat
      BY <2>1
    <3>4. QED
      BY <2>1, <3>1, <3>2, <3>3 DEF Carried, Fresh, Latest
  <2>6. OthersUntouched /\ UNCHANGED <<rows, server>>
    BY <1>2, <2>5 DEF ReadLocal, Goto, TypeOK, OthersUntouched, Untouched, store
  <2>7. QED
    BY <2>4, <2>6, QuietStep
<1>3. CASE RequestFails(t) \/ StoreConflict(t)
  <2>1. NextKey(t)
    BY <1>3 DEF RequestFails, StoreConflict
  <2>2. TypeOK'
    BY <1>3, <2>1, NextKeyFacts
    DEF RequestFails, StoreConflict, TypeOK, store, flag, wvars
  <2>3. QED
    BY <1>3, <2>1, <2>2, NextKeyFacts, QuietStep
    DEF RequestFails, StoreConflict, store
<1>4. CASE Fetch(t)
  <2>1. k \in Keys /\ server[k] \in Entry /\ server[k].val \in Values
    <3>1. pc[t] = "fetch" /\ server[k].val # NoValue
      BY <1>4 DEF Fetch
    <3>2. Carried(t)
      BY DEF CarriedIsCurrent
    <3>3. k \in Keys
      BY <3>1, <3>2 DEF Carried
    <3>4. server[k] \in Entry
      BY <3>3 DEF TypeOK
    <3>5. QED
      BY <3>1, <3>3, <3>4 DEF Entry
  <2>2. [ver |-> server[k].ver, val |-> server[k].val, time |-> server[k].time]
          \in Answer
    BY <2>1 DEF Entry, Answer
  <2>3. TypeOK'
    BY <1>4, <2>2 DEF Fetch, Goto, TypeOK, PC, store, flag, wvars
  <2>4. Carried(t)'
    BY <1>4, <2>1
    DEF Fetch, Goto, TypeOK, CarriedIsCurrent, Carried, Fresh, store, Entry
  <2>5. OthersUntouched /\ UNCHANGED <<rows, server>>
    BY <1>4, <2>4 DEF Fetch, Goto, TypeOK, OthersUntouched, Untouched, store
  <2>6. QED
    BY <2>3, <2>5, QuietStep
<1>5. QED
  BY <1>1, <1>2, <1>3, <1>4

(* A write that took effect: the server's new value is what t pushed.      *)
LEMMA PushStep ==
  ASSUME NEW t \in Syncers, IInv, Put(t) \/ Del(t)
  PROVE  IInv'
<1> USE DEF IInv
<1> DEFINE k == key[t]
           val == IF pc[t] = "put" THEN loc[t].val ELSE server[k].val
           del == pc[t] = "del"
<1>1. /\ pc[t] \in {"put", "del"} /\ k \in Keys /\ Carried(t)
      /\ loc[t] \in Local /\ server[k] \in Entry /\ rows[k] \in Seq(Row)
  BY DEF Put, Del, CarriedIsCurrent, Carried, TypeOK
<1>2. /\ ServerWrite(k, val, del) /\ Answered(t, k)
      /\ UNCHANGED <<rows, now, syncRunning, wkey, wver, todo, listing>>
  BY DEF Put, Del, store, flag, wvars
<1>3. server' \in [Keys -> Entry] /\ server'[k].ver = server[k].ver + 1
      /\ server'[k].val = val /\ server'[k].del = del
  BY <1>1, <1>2 DEF ServerWrite, TypeOK, Entry, Local
<1> DEFINE answer == [NoAnswer EXCEPT !.ver = server[k].ver + 1]
<1>4. answer \in Answer /\ answer.ver = server[k].ver + 1
  BY <1>1 DEF NoAnswer, Answer, Entry
<1>5. CASE NextKey(t)
  BY <1>1, <1>2, <1>3, <1>5, NextKeyFacts, ServerStep DEF TypeOK
<1>6. CASE /\ Goto(t, "record")
           /\ got' = [got EXCEPT ![t] = answer]
           /\ UNCHANGED <<key, recorded, loc>>
  <2>1. TypeOK'
    BY <1>2, <1>3, <1>4, <1>6 DEF Goto, TypeOK, PC
  <2>2. pc'[t] = "record" /\ got'[t] = answer
    BY <1>6 DEF Goto, TypeOK
  <2>3. Carried(t)'
    <3>1. rows'[k] = rows[k] /\ key'[t] = k /\ loc'[t] = loc[t]
          /\ loc[t].ver <= Len(rows[k]) /\ server[k].ver \in Nat
      BY <1>1, <1>2, <1>6 DEF Carried, Entry
    <3>2. Fresh(t) => Latest(k).val = loc[t].val /\ Latest(k).del = loc[t].del
      BY <1>1 DEF Carried
    <3>3. pc[t] = "del" => loc[t].del
      BY <1>1 DEF Carried
    <3>4. Fresh(t)' => Latest(k)'.del \/ (Latest(k)'.val = val /\ ~del)
      BY <1>1, <3>1, <3>2, <3>3 DEF Fresh, Latest
    <3> HIDE DEF answer
    <3>5. got'[t].ver = server'[k].ver
      BY <1>3, <1>4, <2>2
    <3>6. server'[k].ver \in Nat
      BY <1>3, <3>1
    <3>7. key'[t] \in Keys /\ loc'[t].ver <= Len(rows'[key'[t]])
      BY <1>1, <3>1
    <3>8. got'[t].ver <= server'[key'[t]].ver
      BY <3>1, <3>5, <3>6
    <3>9. Fresh(t)' =>
            \/ Latest(key[t])'.del
            \/ Latest(key[t])'.val = server'[key'[t]].val /\ ~server'[key'[t]].del
      BY <1>3, <3>1, <3>4
    <3>10. QED
      BY <2>2, <3>7, <3>8, <3>9 DEF Carried
  <2>4. OthersUntouched
    BY <1>6, <2>3 DEF Goto, TypeOK, OthersUntouched, Untouched
  <2>5. QED
    BY <1>1, <1>2, <2>1, <2>4, ServerStep
<1>7. QED
  BY <1>2, <1>5, <1>6 DEF Answered

(* The fetched value and the server's version enter the table.             *)
LEMMA TableStep ==
  ASSUME NEW t \in Syncers, IInv, Store(t) \/ Record(t)
  PROVE  IInv'
<1> USE DEF IInv
<1> DEFINE k == key[t]
<1>1. /\ k \in Keys /\ Carried(t) /\ loc[t] \in Local /\ got[t] \in Answer
      /\ server[k] \in Entry /\ rows[k] \in Seq(Row) /\ Len(rows[k]) \in Nat
  <2>1. pc[t] \in {"store", "record"}
    BY DEF Store, Record
  <2>2. Carried(t)
    BY DEF CarriedIsCurrent
  <2>3. k \in Keys
    BY <2>1, <2>2 DEF Carried
  <2>4. QED
    BY <2>2, <2>3 DEF TypeOK
<1>2. CASE Store(t)
  <2> DEFINE row == SetRow(got[t].val, loc[t].del)
  <2>1. row \in Row /\ row.rver = 0 /\ row.val = got[t].val
    BY <1>1, <1>2 DEF Store, Carried, SetRow, Row, TypeOK, Local
  <2>2. /\ Insert(k, row) /\ loc[t].ver = Len(rows[k])
        /\ UNCHANGED <<server, now, syncRunning, wkey, wver, todo, listing, key,
                       recorded, got>>
    BY <1>2 DEF Store, flag, wvars, LocalVersion
  <2>3. rows'[k] = Append(rows[k], row)
    BY <1>1, <2>2 DEF Insert, TypeOK
  <2>4. rows' \in [Keys -> Seq(Row)]
    BY <1>1, <2>1, <2>2, InsertType
  <2>5. loc' \in [Syncers -> Local] /\ loc'[t].ver = loc[t].ver + 1
    <3>1. [loc[t] EXCEPT !.ver = loc[t].ver + 1] \in Local
      BY <1>1 DEF Local
    <3>2. loc' = [loc EXCEPT ![t] = [loc[t] EXCEPT !.ver = loc[t].ver + 1]]
      BY <1>2 DEF Store
    <3>3. QED
      BY <1>1, <3>1, <3>2 DEF TypeOK, Local
  <2>7. TypeOK'
    BY <1>2, <2>2, <2>4, <2>5 DEF Store, Goto, TypeOK, PC
  <2>8. Carried(t)'
    <3>1. pc[t] = "store" /\ pc'[t] = "record" /\ key'[t] = k
          /\ got'[t] = got[t] /\ server'[k] = server[k]
      BY <1>2, <2>2 DEF Store, Goto, TypeOK
    <3> HIDE DEF row
    <3>2. Len(rows'[k]) = Len(rows[k]) + 1 /\ rows'[k][Len(rows'[k])] = row
      BY <1>1, <2>1, <2>3
    <3>3. Latest(k)' = row
      BY <3>1, <3>2 DEF Latest
    <3>4. QED
      BY <1>1, <2>1, <2>2, <2>5, <3>1, <3>2, <3>3 DEF Carried, Latest
  <2>9. OthersUntouched
    BY <1>2, <2>8 DEF Store, Goto, TypeOK, OthersUntouched, Untouched
  <2> HIDE DEF row, k
  <2>10. QED
    BY <1>1, <2>1, <2>2, <2>7, <2>9, RowStep DEF Entry
<1>3. CASE Record(t)
  <2>1. /\ NextKey(t) /\ pc[t] = "record"
        /\ UNCHANGED <<server, now, syncRunning, wkey, wver, todo, listing>>
    BY <1>3 DEF Record, flag, wvars
  <2>2. CASE loc[t].ver >= 1 /\ loc[t].ver = LocalVersion(k)
    <3> DEFINE row == RemoteRow(k, got[t].ver)
    <3>1. Insert(k, row)
      BY <1>3, <2>2 DEF Record
    <3>2. rows[k] # <<>> /\ Fresh(t)
      BY <1>1, <2>2 DEF LocalVersion, Fresh, Local
    <3>3. Latest(k) \in Row
      BY <1>1, <3>2 DEF Latest
    <3>4. /\ row \in Row /\ row.rver = got[t].ver
          /\ row.val = Latest(k).val /\ row.del = Latest(k).del
      BY <1>1, <3>3 DEF RemoteRow, Row, Answer, TypeOK
    <3>5. /\ row.rver <= server[k].ver
          /\ row.rver = server[k].ver /\ ~row.del =>
               row.val = server[k].val /\ ~server[k].del
      BY <1>1, <2>1, <3>2, <3>4 DEF Carried
    <3>6. TypeOK'
      BY <1>1, <2>1, <3>1, <3>4, InsertType, NextKeyFacts DEF TypeOK
    <3> HIDE DEF row, k
    <3>7. QED
      BY <1>1, <2>1, <3>1, <3>4, <3>5, <3>6, NextKeyFacts, RowStep
  <2>3. CASE ~(loc[t].ver >= 1 /\ loc[t].ver = LocalVersion(k))
    <3>1. UNCHANGED rows
      BY <1>3, <2>3 DEF Record
    <3>2. TypeOK'
      BY <2>1, <3>1, NextKeyFacts DEF TypeOK
    <3>3. QED
      BY <2>1, <3>1, <3>2, NextKeyFacts, QuietStep
  <2>4. QED
    BY <2>2, <2>3
<1>4. QED
  BY <1>2, <1>3

LEMMA StutterStep == IInv /\ UNCHANGED vars => IInv'
BY DEF vars, IInv, TypeOK, CarriedIsCurrent, Carried, Fresh, Latest,
       RecordedNotAhead, RecordedMeansEqual, Synced

LEMMA NextStep == IInv /\ [Next]_vars => IInv'
<1>1. ASSUME IInv, NEW t \in Syncers, SyncerNext(t) PROVE IInv'
  BY <1>1, LoopStep, KernelReadStep, PushStep, TableStep DEF SyncerNext
<1>2. QED
  BY <1>1, WriterStep, EnvironmentStep, StutterStep DEF Next

LEMMA Inductive == Spec => []IInv
<1>1. QED
  BY InitIInv, NextStep, PTL DEF Spec

(* The variables of the store and of its syncers keep their types.         *)
THEOREM TypeCorrect == Spec => []TypeOK
<1>1. IInv => TypeOK
  BY DEF IInv
<1>2. QED
  BY Inductive, <1>1, PTL

(* The optimisation at the entry of _syncKey is sound for any number of    *)
(* syncing threads, racing flag included, and any other devices.           *)
THEOREM SkippingIsSound == Spec => []RecordedMeansEqual
<1>1. IInv => RecordedMeansEqual
  BY DEF IInv
<1>2. QED
  BY Inductive, <1>1, PTL

(* No row ever claims a server version from the future.                    *)
THEOREM VersionsAreReal == Spec => []RecordedNotAhead
<1>1. IInv => RecordedNotAhead
  BY DEF IInv
<1>2. QED
  BY Inductive, <1>1, PTL

(* What the table records of the server is right in every row of every key, *)
(* however many syncs, writers and other devices race (_syncKey).           *)
THEOREM RecordsAreSound == Spec => []RecordedIsSound
<1>1. RecordedMeansEqual /\ RecordedNotAhead => RecordedIsSound
  BY DEF RecordedIsSound
<1>2. QED
  BY <1>1, SkippingIsSound, VersionsAreReal, PTL

-----------------------------------------------------------------------------
(* What a sync may replace.                                                *)

(* The row t has read was listed as older than the server's value, and is   *)
(* so for as long as it is the newest one.                                  *)
Outdated(t) ==
  pc[t] \in {"fetch", "store"} /\ Fresh(t) =>
    Latest(key[t]).time < listing[t][key[t]].time

FetchesAreDue == \A t \in Syncers : Outdated(t)

(* Rows are only ever added.                                               *)
TableGrows ==
  \A k \in Keys : rows'[k] = rows[k] \/ Len(rows'[k]) = Len(rows[k]) + 1

LEMMA InsertGrows ==
  ASSUME TypeOK, NEW k \in Keys, NEW row, Insert(k, row)
  PROVE  TableGrows
<1>1. rows[k] \in Seq(Row) /\ rows'[k] = Append(rows[k], row)
      /\ \A j \in Keys \ {k} : rows'[j] = rows[j]
  BY DEF TypeOK, Insert
<1>2. Len(rows'[k]) = Len(rows[k]) + 1
  BY <1>1
<1>3. QED
  BY <1>1, <1>2 DEF TableGrows

(* A thread that a step leaves alone has read an older row for good.       *)
LEMMA OutdatedKept ==
  ASSUME IInv, NEW t \in Syncers, Outdated(t), Untouched(t), listing'[t] = listing[t], TableGrows
  PROVE  Outdated(t)'
<1> SUFFICES ASSUME pc'[t] \in {"fetch", "store"}, Fresh(t)'
             PROVE  Latest(key[t])'.time < listing'[t][key'[t]].time
  BY DEF Outdated
<1>1. /\ pc[t] \in {"fetch", "store"} /\ key'[t] = key[t] /\ loc'[t] = loc[t]
      /\ Carried(t)
  BY DEF Untouched, IInv, CarriedIsCurrent
<1>2. key[t] \in Keys /\ loc[t].ver <= Len(rows[key[t]])
  BY <1>1 DEF Carried
<1>3. /\ rows[key[t]] \in Seq(Row) /\ Len(rows[key[t]]) \in Nat /\ loc[t].ver \in Nat
  BY <1>2 DEF IInv, TypeOK, Local
<1>4. loc[t].ver = Len(rows'[key[t]])
  BY <1>1 DEF Fresh
<1>5. rows'[key[t]] = rows[key[t]]
  BY <1>2, <1>3, <1>4 DEF TableGrows
<1>6. Fresh(t)
  BY <1>1, <1>5 DEF Fresh
<1>7. Latest(key[t]).time < listing[t][key[t]].time
  BY <1>1, <1>6 DEF Outdated
<1>8. QED
  BY <1>1, <1>5, <1>7 DEF Latest

(* Only a thread that goes to "fetch" has something new to show.           *)
LEMMA OutdatedOthers ==
  ASSUME IInv, FetchesAreDue, TableGrows,
         \A u \in Syncers : (Untouched(u) /\ listing'[u] = listing[u]) \/ Outdated(u)'
  PROVE  FetchesAreDue'
BY OutdatedKept DEF FetchesAreDue

LEMMA FetchesInit == Init => FetchesAreDue
BY DEF Init, FetchesAreDue, Outdated

LEMMA FetchesWriter ==
  ASSUME IInv, FetchesAreDue, NEW w \in Writers, WriterNext(w)
  PROVE  FetchesAreDue'
<1>1. \A u \in Syncers : Untouched(u) /\ listing'[u] = listing[u]
  BY DEF WriterNext, ReadVersion, Set, Delete, WriteConflict, svars, Untouched
<1>2. TableGrows
  <2>1. TypeOK
    BY DEF IInv
  <2>2. CASE rows' = rows
    BY <2>2 DEF TableGrows
  <2>3. CASE rows' # rows
    <3>1. wkey[w] \in Keys /\ \E row : Insert(wkey[w], row)
      BY <2>1, <2>3 DEF WriterNext, ReadVersion, Set, Delete, WriteConflict, store, TypeOK
    <3>2. QED
      BY <2>1, <3>1, InsertGrows
  <2>4. QED
    BY <2>2, <2>3
<1>3. QED
  BY <1>1, <1>2, OutdatedOthers

LEMMA FetchesSyncer ==
  ASSUME IInv, FetchesAreDue, NEW t \in Syncers, SyncerNext(t)
  PROVE  FetchesAreDue'
<1>0. TypeOK /\ Carried(t)
  BY DEF IInv, CarriedIsCurrent
<1>1. \A u \in Syncers \ {t} : Untouched(u) /\ listing'[u] = listing[u]
  <2>1. CASE TestFlag(t) \/ ClaimFlag(t) \/ ListKeys(t) \/ ListFails(t) \/ Finish(t) \/ KernelThrows(t)
    BY <1>0, <2>1 DEF TestFlag, ClaimFlag, ListKeys, ListFails, Finish, KernelThrows, Return, Goto,
                      Untouched, TypeOK
  <2>2. ASSUME NEW k \in Keys, Compare(t, k)
        PROVE  \A u \in Syncers \ {t} : Untouched(u) /\ listing'[u] = listing[u]
    BY <1>0, <2>2 DEF Compare, Goto, Untouched, TypeOK
  <2>3. CASE ReadLocal(t) \/ RequestFails(t) \/ Fetch(t) \/ StoreConflict(t)
    BY <1>0, <2>3 DEF ReadLocal, RequestFails, Fetch, StoreConflict, NextKey, Goto, Untouched, TypeOK
  <2>4. CASE Put(t) \/ Del(t)
    BY <1>0, <2>4 DEF Put, Del, Answered, NextKey, Goto, Untouched, TypeOK
  <2>5. CASE Store(t) \/ Record(t)
    BY <1>0, <2>5 DEF Store, Record, NextKey, Goto, Untouched, TypeOK
  <2>6. QED
    BY <2>1, <2>2, <2>3, <2>4, <2>5 DEF SyncerNext
<1>2. TableGrows
  <2>1. CASE rows' = rows
    BY <2>1 DEF TableGrows
  <2>2. CASE rows' # rows
    <3>1. (Store(t) \/ Record(t)) /\ \E row : Insert(key[t], row)
      BY <2>2 DEF SyncerNext, TestFlag, ClaimFlag, ListKeys, ListFails, Finish, KernelThrows, Return,
                  Compare, ReadLocal, RequestFails, Fetch, StoreConflict, Put, Del, Store, Record, store
    <3>2. key[t] \in Keys
      BY <1>0, <3>1 DEF Store, Record, Carried
    <3>3. QED
      BY <1>0, <3>1, <3>2, InsertGrows
  <2>3. QED
    BY <2>1, <2>2
<1>3. Outdated(t)'
  <2>1. CASE pc'[t] \notin {"fetch", "store"}
    BY <2>1 DEF Outdated
  <2>2. CASE ReadLocal(t) /\ pc'[t] = "fetch"
    <3>1. /\ key[t] \in Keys /\ rows[key[t]] \in Seq(Row) /\ pc[t] = "read"
          /\ UNCHANGED <<rows, key, listing>>
          /\ Get(key[t]).time < listing[t][key[t]].time
      BY <1>0, <2>2 DEF ReadLocal, Carried, TypeOK, Goto, store
    <3>2. rows[key[t]] # <<>> => Get(key[t]).time = Latest(key[t]).time
      BY DEF Get
    <3>3. QED
      BY <3>1, <3>2 DEF Outdated, Fresh, Latest
  <2>3. CASE Fetch(t)
    <3>1. pc[t] = "fetch" /\ UNCHANGED <<rows, key, listing, loc>>
      BY <2>3 DEF Fetch, store
    <3>2. Outdated(t)
      BY DEF FetchesAreDue
    <3>3. QED
      BY <3>1, <3>2 DEF Outdated, Fresh, Latest
  <2>4. CASE UNCHANGED pc
    <3>1. PICK k \in Keys : Compare(t, k)
      BY <1>0, <2>4 DEF SyncerNext, TestFlag, ClaimFlag, ListKeys, ListFails, Finish, KernelThrows, Return,
         ReadLocal, RequestFails, Fetch, StoreConflict, Put, Del, Answered, Store, Record, NextKey, Goto, TypeOK
    <3>2. pc[t] = "loop"
      BY <3>1 DEF Compare
    <3>3. QED
      BY <2>4, <3>2 DEF Outdated
  <2>5. QED
    <3>1. ASSUME NEW k \in Keys, Compare(t, k) PROVE UNCHANGED pc \/ pc'[t] \notin {"fetch", "store"}
      BY <1>0, <3>1 DEF Compare, Goto, TypeOK
    <3>2. ReadLocal(t) => pc'[t] \notin {"store"}
      BY <1>0 DEF ReadLocal, Goto, TypeOK
    <3>3. TestFlag(t) \/ ClaimFlag(t) \/ ListKeys(t) \/ ListFails(t) \/ Finish(t) \/ KernelThrows(t)
          \/ RequestFails(t) \/ StoreConflict(t) \/ Put(t) \/ Del(t) \/ Store(t) \/ Record(t)
            => pc'[t] \notin {"fetch", "store"}
      BY <1>0 DEF TestFlag, ClaimFlag, ListKeys, ListFails, Finish, KernelThrows, Return,
           RequestFails, StoreConflict, Put, Del, Answered, Store, Record, NextKey, Goto, TypeOK
    <3>4. QED
      BY <2>1, <2>2, <2>3, <2>4, <3>1, <3>2, <3>3 DEF SyncerNext
<1>4. QED
  BY <1>1, <1>2, <1>3, OutdatedOthers

LEMMA FetchesStep == IInv /\ FetchesAreDue /\ [Next]_vars => FetchesAreDue'
<1> SUFFICES ASSUME IInv, FetchesAreDue, [Next]_vars PROVE FetchesAreDue'
  OBVIOUS
<1>1. CASE \/ \E k \in Keys, v \in Values, del \in BOOLEAN : OtherDevice(k, v, del)
           \/ Tick \/ UNCHANGED vars
  <2>1. UNCHANGED <<rows, pc, key, loc, got, listing>>
    BY <1>1 DEF OtherDevice, Tick, vars, store, svars
  <2>2. \A u \in Syncers : Untouched(u) /\ listing'[u] = listing[u]
    BY <2>1 DEF Untouched
  <2>3. TableGrows
    BY <2>1 DEF TableGrows
  <2>4. QED
    BY <2>2, <2>3, OutdatedOthers
<1>2. QED
  BY <1>1, FetchesWriter, FetchesSyncer DEF Next

LEMMA ClobbersNothing ==
  ASSUME IInv, FetchesAreDue, [Next]_vars,
         NEW k \in Keys, rows[k] # <<>>, rows[k] # rows'[k], UNCHANGED wkey,
         Latest(k).val # Latest(k)'.val
  PROVE  \E t \in Syncers : Latest(k).time < listing[t][k].time
<1>0. TypeOK /\ rows[k] \in Seq(Row) /\ Len(rows[k]) \in Nat \ {0}
  BY DEF IInv, TypeOK
<1>1. ASSUME NEW w \in Writers, WriterNext(w) PROVE FALSE
  <2>1. rows' # rows
    OBVIOUS
  <2>2. wkey[w] # NoKey /\ wkey' = [wkey EXCEPT ![w] = NoKey]
    BY <1>1, <2>1 DEF WriterNext, ReadVersion, Set, Delete, WriteConflict, WriterDone, store
  <2>3. wkey'[w] = NoKey
    BY <1>0, <2>2 DEF TypeOK
  <2>4. QED
    BY <2>2, <2>3
<1>2. ASSUME NEW t \in Syncers, Store(t)
      PROVE  Latest(k).time < listing[t][k].time
  <2>1. key[t] = k
    <3>1. Carried(t) /\ pc[t] = "store"
      BY <1>2 DEF IInv, CarriedIsCurrent, Store
    <3>2. rows' = [rows EXCEPT ![key[t]] = Append(@, SetRow(got[t].val, loc[t].del))]
      BY <1>2 DEF Store, Insert
    <3>3. QED
      BY <1>0, <3>2 DEF TypeOK
  <2>2. pc[t] = "store" /\ loc[t].ver = Len(rows[k])
    BY <1>2, <2>1 DEF Store, LocalVersion
  <2>3. Fresh(t) /\ Outdated(t)
    BY <2>1, <2>2 DEF Fresh, FetchesAreDue
  <2>4. QED
    BY <2>1, <2>2, <2>3 DEF Outdated
<1>3. ASSUME NEW t \in Syncers, Record(t) PROVE FALSE
  <2>1. /\ Insert(key[t], RemoteRow(key[t], got[t].ver))
        /\ rows' = [rows EXCEPT ![key[t]] = Append(@, RemoteRow(key[t], got[t].ver))]
    BY <1>3 DEF Record, Insert
  <2>2. key[t] = k
    BY <1>0, <2>1 DEF TypeOK
  <2>3. rows'[k] = Append(rows[k], RemoteRow(k, got[t].ver))
    BY <1>0, <2>1, <2>2 DEF TypeOK
  <2>4. Latest(k) \in Row /\ RemoteRow(k, got[t].ver).val = Latest(k).val
    <3>1. Latest(k) \in Row
      BY <1>0 DEF Latest
    <3>2. QED
      BY <3>1 DEF RemoteRow, Row
  <2>5. RemoteRow(k, got[t].ver) \in Row
    <3>1. got[t].ver \in Nat /\ now \in Nat
      BY <1>0 DEF TypeOK, Answer
    <3>2. QED
      BY <2>4, <3>1 DEF RemoteRow, Row
  <2> DEFINE row == RemoteRow(k, got[t].ver)
  <2>6. row \in Row /\ row.val = Latest(k).val /\ rows'[k] = Append(rows[k], row)
    BY <2>3, <2>4, <2>5
  <2> HIDE DEF row
  <2>7. rows'[k][Len(rows'[k])] = row
    BY <1>0, <2>6
  <2>8. QED
    BY <2>6, <2>7 DEF Latest
<1>4. ASSUME NEW t \in Syncers, SyncerNext(t) PROVE Store(t) \/ Record(t)
  BY <1>4 DEF SyncerNext, TestFlag, ClaimFlag, ListKeys, ListFails, Finish, KernelThrows, Return,
              Compare, ReadLocal, RequestFails, Fetch, StoreConflict, Put, Del, store
<1>5. QED
  BY <1>1, <1>2, <1>3, <1>4 DEF Next, OtherDevice, Tick, vars, store

(* A sync never overwrites a value it was not told to: what is stored while *)
(* the server's value is fetched stays, because the fetched value is stored *)
(* only over the row that was compared with the listing (_syncKey, _set).   *)
THEOREM NeverClobbers == Spec => SyncNeverClobbers
<1> DEFINE Kept == \A k \in Keys :
        ( /\ rows[k] # <<>> /\ rows[k] # rows'[k]
          /\ UNCHANGED wkey
          /\ Latest(k).val # Latest(k)'.val )
        => \E t \in Syncers : Latest(k).time < listing[t][k].time
<1>1. IInv /\ FetchesAreDue /\ [Next]_vars => [Kept]_vars
  BY ClobbersNothing
<1>2. Spec => [](IInv /\ FetchesAreDue)
  BY InitIInv, NextStep, FetchesInit, FetchesStep, PTL DEF Spec
<1>3. Spec => [][Kept]_vars
  BY <1>1, <1>2, PTL DEF Spec
<1>4. QED
  BY <1>3 DEF SyncNeverClobbers

=============================================================================
