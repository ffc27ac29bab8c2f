-------------------------- MODULE ReplicatedKVStore --------------------------
(***************************************************************************)
(* The versioned key-value store of com.platform.kvstore.  A key is a      *)
(* table of numbered rows in SQLite: every change appends the row with the *)
(* next version, which carries the server version it is known to equal     *)
(* (remote_version, 0 when it is not).  syncAllKeys exchanges the newest   *)
(* rows with a server other devices write to as well.                      *)
(*                                                                         *)
(* The flag syncRunning is a plain field, read and then written: both      *)
(* halves are steps.  Every SQLite operation is one step (the methods that *)
(* write are synchronized and transactional), every request to the server  *)
(* is one step, and whatever the code reads in one step it uses in a later *)
(* one.                                                                    *)
(***************************************************************************)
EXTENDS Integers, Sequences

CONSTANTS
  Keys,        \* keys that satisfy isKeyValid
  Values,      \* non-empty values
  Writers,     \* threads that read a version and then set or delete
  Syncers,     \* threads that call syncAllKeys
  NoKey,       \* a writer or syncer that works on no key
  NoValue,     \* the empty value of a key that does not exist
  MaxRows,     \* bound: local changes are made below this many rows of a key
  MaxRemote,   \* bound: other devices write, answers are lost, below this version
  MaxVersion,  \* bound: the server takes writes below this version
  MaxTime      \* bound: ticks of the clock

ASSUME ConstantsAssumption ==
  /\ NoKey \notin Keys
  /\ NoValue \notin Values
  /\ MaxRows \in Nat /\ MaxRemote \in Nat /\ MaxVersion \in Nat /\ MaxTime \in Nat

VARIABLES
  rows,        \* kvStoreTable: the rows of a key, the index is the version
  server,      \* the server's entry for a key, version 0 when it has none
  now,         \* System.currentTimeMillis, here and on the server
  syncRunning, \* the field of that name
  wkey, wver,  \* a writer's key and the local version it has read
  pc,          \* where a syncer is in syncAllKeys / _syncKey
  todo,        \* keys its loop has still to visit
  listing,     \* remote version and time of each key, as keys() returned them
  key,         \* the parameter of _syncKey
  recorded,    \* recorderRemoteVersion
  loc,         \* localKv, with its version
  got          \* version, value and time of the server's last answer

store == <<rows>>
flag  == <<syncRunning>>
wvars == <<wkey, wver>>
svars == <<pc, todo, listing, key, recorded, loc, got>>
vars  == <<rows, server, now, syncRunning, wkey, wver, pc, todo, listing,
           key, recorded, loc, got>>

PC == {"idle", "claim", "keys", "loop", "read", "put", "del",
       "fetch", "store", "record"}

Row    == [rver : Nat, val : Values, time : Nat, del : BOOLEAN]
Entry  == [ver : Nat, val : Values \cup {NoValue}, time : Nat, del : BOOLEAN]
Local  == [ver : Nat, val : Values \cup {NoValue}, time : Nat, del : BOOLEAN]
Answer == [ver : Nat, val : Values \cup {NoValue}, time : Nat]
Listed == [ver : Nat, time : Nat]

NoEntry  == [ver |-> 0, val |-> NoValue, time |-> 0, del |-> FALSE]
NoAnswer == [ver |-> 0, val |-> NoValue, time |-> 0]
NoListed == [ver |-> 0, time |-> 0]

Init ==
  /\ rows = [k \in Keys |-> <<>>]
  /\ server = [k \in Keys |-> NoEntry]
  /\ now = 1
  /\ syncRunning = FALSE
  /\ wkey = [w \in Writers |-> NoKey]
  /\ wver = [w \in Writers |-> 0]
  /\ pc = [t \in Syncers |-> "idle"]
  /\ todo = [t \in Syncers |-> {}]
  /\ listing = [t \in Syncers |-> [k \in Keys |-> NoListed]]
  /\ key = [t \in Syncers |-> NoKey]
  /\ recorded = [t \in Syncers |-> 0]
  /\ loc = [t \in Syncers |-> NoEntry]
  /\ got = [t \in Syncers |-> NoAnswer]

-----------------------------------------------------------------------------
(* The local table.                                                        *)

LocalVersion(k) == Len(rows[k])

Latest(k) == rows[k][Len(rows[k])]

RemoteVersion(k) == IF rows[k] = <<>> THEN 0 ELSE Latest(k).rver

(* get(key, 0): the newest row, deleted ones too, or the notFound default. *)
Get(k) ==
  IF rows[k] = <<>> THEN NoEntry
  ELSE [ver |-> Len(rows[k]), val |-> Latest(k).val,
        time |-> Latest(k).time, del |-> Latest(k).del]

Insert(k, row) == rows' = [rows EXCEPT ![k] = Append(@, row)]

(* _set and _delete stamp the row with the current time and leave          *)
(* remote_version to the column's default.                                 *)
SetRow(val, del) == [rver |-> 0, val |-> val, time |-> now, del |-> del]

(* setRemoteVersion: the newest row again, with the server's version and   *)
(* a fresh time.                                                           *)
RemoteRow(k, rver) == [Latest(k) EXCEPT !.rver = rver, !.time = now]

-----------------------------------------------------------------------------
(* KVStoreManager.put...: read the local version, later set or delete.     *)

ReadVersion(w, k) ==
  /\ wkey[w] = NoKey
  /\ LocalVersion(k) < MaxRows
  /\ wkey' = [wkey EXCEPT ![w] = k]
  /\ wver' = [wver EXCEPT ![w] = LocalVersion(k)]
  /\ UNCHANGED <<store, server, now, flag, svars>>

WriterDone(w) ==
  /\ wkey' = [wkey EXCEPT ![w] = NoKey]
  /\ wver' = [wver EXCEPT ![w] = 0]

Set(w, v) ==
  LET k == wkey[w] IN
  /\ k # NoKey
  /\ wver[w] = LocalVersion(k)
  /\ Insert(k, SetRow(v, FALSE))
  /\ WriterDone(w)
  /\ UNCHANGED <<server, now, flag, svars>>

Delete(w) ==
  LET k == wkey[w] IN
  /\ k # NoKey
  /\ wver[w] # 0
  /\ wver[w] = LocalVersion(k)
  /\ Insert(k, SetRow(Latest(k).val, TRUE))
  /\ WriterDone(w)
  /\ UNCHANGED <<server, now, flag, svars>>

(* The version moved on: conflict is returned and the callers only log it. *)
WriteConflict(w) ==
  /\ wkey[w] # NoKey
  /\ wver[w] # LocalVersion(wkey[w])
  /\ WriterDone(w)
  /\ UNCHANGED <<store, server, now, flag, svars>>

-----------------------------------------------------------------------------
(* syncAllKeys.                                                            *)

Goto(t, label) == pc' = [pc EXCEPT ![t] = label]

TestFlag(t) ==
  /\ pc[t] = "idle"
  /\ ~syncRunning
  /\ Goto(t, "claim")
  /\ UNCHANGED <<store, server, now, flag, wvars, todo, listing, key,
                 recorded, loc, got>>

ClaimFlag(t) ==
  /\ pc[t] = "claim"
  /\ syncRunning' = TRUE
  /\ Goto(t, "keys")
  /\ UNCHANGED <<store, server, now, wvars, todo, listing, key, recorded,
                 loc, got>>

(* keys() lists the server's keys, tombstones among them; local keys the   *)
(* server lacks are added with version and time 0.                         *)
ListKeys(t) ==
  /\ pc[t] = "keys"
  /\ listing' = [listing EXCEPT ![t] =
       [k \in Keys |-> [ver |-> server[k].ver, time |-> server[k].time]]]
  /\ todo' = [todo EXCEPT ![t] =
       {k \in Keys : server[k].ver > 0 \/ rows[k] # <<>>}]
  /\ Goto(t, "loop")
  /\ UNCHANGED <<store, server, now, flag, wvars, key, recorded, loc, got>>

(* The way out of syncAllKeys: its last key is done, keys() failed, or     *)
(* _syncKey threw.  The finally clause clears the flag whoever set it.     *)
ReturnFlagSet(t) ==
  /\ Goto(t, "idle")
  /\ todo' = [todo EXCEPT ![t] = {}]
  /\ listing' = [listing EXCEPT ![t] = [k \in Keys |-> NoListed]]
  /\ UNCHANGED <<store, server, now, flag, wvars, key, recorded, loc, got>>

Return(t) ==
  /\ syncRunning' = FALSE
  /\ Goto(t, "idle")
  /\ todo' = [todo EXCEPT ![t] = {}]
  /\ listing' = [listing EXCEPT ![t] = [k \in Keys |-> NoListed]]
  /\ UNCHANGED <<store, server, now, wvars, key, recorded, loc, got>>

ListFails(t) == pc[t] = "keys" /\ Return(t)

Finish(t) == pc[t] = "loop" /\ todo[t] = {} /\ Return(t)

KernelThrows(t) ==
  /\ pc[t] = "loop"
  /\ todo[t] # {}
  /\ ~syncRunning
  /\ Return(t)

-----------------------------------------------------------------------------
(* _syncKey.                                                               *)

(* Back in the loop; the locals of the call are gone.                      *)
NextKey(t) ==
  /\ Goto(t, "loop")
  /\ key' = [key EXCEPT ![t] = NoKey]
  /\ recorded' = [recorded EXCEPT ![t] = 0]
  /\ loc' = [loc EXCEPT ![t] = NoEntry]
  /\ got' = [got EXCEPT ![t] = NoAnswer]

(* The entry: nothing to do when the newest row is known to equal the      *)
(* server's version.                                                       *)
Compare(t, k) ==
  /\ pc[t] = "loop"
  /\ k \in todo[t]
  /\ syncRunning
  /\ todo' = [todo EXCEPT ![t] = @ \ {k}]
  /\ IF listing[t][k].ver > 0 /\ RemoteVersion(k) = listing[t][k].ver
     THEN UNCHANGED <<pc, key, recorded>>
     ELSE /\ Goto(t, "read")
          /\ key' = [key EXCEPT ![t] = k]
          /\ recorded' = [recorded EXCEPT ![t] = RemoteVersion(k)]
  /\ UNCHANGED <<store, server, now, flag, wvars, listing, loc, got>>

(* Read the newest row and choose: the local one wins a tie.               *)
ReadLocal(t) ==
  LET row == Get(key[t]) IN
  /\ pc[t] = "read"
  /\ loc' = [loc EXCEPT ![t] = row]
  /\ Goto(t, IF row.time < listing[t][key[t]].time THEN "fetch"
             ELSE IF row.del THEN "del" ELSE "put")
  /\ UNCHANGED <<store, server, now, flag, wvars, todo, listing, key,
                 recorded, got>>

(* The server refused the request or could not be reached: RemoteKVStore   *)
(* answers "unknown" and _syncKey returns false.                           *)
RequestFails(t) ==
  /\ pc[t] \in {"put", "del", "fetch"}
  /\ NextKey(t)
  /\ UNCHANGED <<store, server, now, flag, wvars, todo, listing>>

UseRemoteVerPlain(t) == listing[t][key[t]].ver

UseRemoteVer(t) ==
  LET remoteVersion == listing[t][key[t]].ver IN
  IF remoteVersion = 0 \/ remoteVersion < recorded[t] THEN 1 ELSE remoteVersion

(* The server takes a write that names its current version, or version 1   *)
(* when it does not have the key.                                          *)
Accepts(k, version) ==
  /\ server[k].ver < MaxVersion
  /\ version = IF server[k].ver = 0 THEN 1 ELSE server[k].ver

ServerWrite(k, val, del) ==
  server' = [server EXCEPT ![k] =
    [ver |-> @.ver + 1, val |-> val, time |-> now, del |-> del]]

(* A write that took effect is answered with its version, or the answer is *)
(* lost, or empty, and counts as an error.                                 *)
Answered(t, k) ==
  \/ /\ Goto(t, "record")
     /\ got' = [got EXCEPT ![t] = [NoAnswer EXCEPT !.ver = server[k].ver + 1]]
     /\ UNCHANGED <<key, recorded, loc>>
  \/ /\ server[k].ver < MaxRemote
     /\ NextKey(t)

Put(t) ==
  LET k == key[t] IN
  /\ pc[t] = "put"
  /\ loc[t].val # NoValue
  /\ Accepts(k, UseRemoteVer(t))
  /\ ServerWrite(k, loc[t].val, FALSE)
  /\ Answered(t, k)
  /\ UNCHANGED <<store, now, flag, wvars, todo, listing>>

Del(t) ==
  LET k == key[t] IN
  /\ pc[t] = "del"
  /\ server[k].ver # 0
  /\ Accepts(k, listing[t][k].ver)
  /\ ServerWrite(k, server[k].val, TRUE)
  /\ Answered(t, k)
  /\ UNCHANGED <<store, now, flag, wvars, todo, listing>>

(* The server returns its current entry, and 410 for a tombstone.          *)
Fetch(t) ==
  LET e == server[key[t]] IN
  /\ pc[t] = "fetch"
  /\ e.ver # 0 /\ ~e.del /\ e.val # NoValue
  /\ got' = [got EXCEPT ![t] = [ver |-> e.ver, val |-> e.val, time |-> e.time]]
  /\ Goto(t, "store")
  /\ UNCHANGED <<store, server, now, flag, wvars, todo, listing, key,
                 recorded, loc>>

(* _set with the fetched value, under the version and with the deleted     *)
(* flag read in ReadLocal.                                                 *)
StoreUnchecked(t) ==
  LET k == key[t] IN
  /\ pc[t] = "store"
  /\ Insert(k, SetRow(got[t].val, loc[t].del))
  /\ loc' = [loc EXCEPT ![t].ver = LocalVersion(k) + 1]
  /\ Goto(t, "record")
  /\ UNCHANGED <<server, now, flag, wvars, todo, listing, key, recorded, got>>

Store(t) ==
  LET k == key[t] IN
  /\ pc[t] = "store"
  /\ loc[t].ver = LocalVersion(k)
  /\ Insert(k, SetRow(got[t].val, loc[t].del))
  /\ loc' = [loc EXCEPT ![t].ver = loc[t].ver + 1]
  /\ Goto(t, "record")
  /\ UNCHANGED <<server, now, flag, wvars, todo, listing, key, recorded, got>>

StoreConflict(t) ==
  /\ pc[t] = "store"
  /\ loc[t].ver # LocalVersion(key[t])
  /\ NextKey(t)
  /\ UNCHANGED <<store, server, now, flag, wvars, todo, listing>>

(* setRemoteVersion, which refuses a version that is no longer the newest. *)
RecordUnchecked(t) ==
  LET k == key[t] IN
  /\ pc[t] = "record"
  /\ Insert(k, RemoteRow(k, got[t].ver))
  /\ NextKey(t)
  /\ UNCHANGED <<server, now, flag, wvars, todo, listing>>

Record(t) ==
  LET k == key[t] IN
  /\ pc[t] = "record"
  /\ IF loc[t].ver >= 1 /\ loc[t].ver = LocalVersion(k)
     THEN Insert(k, RemoteRow(k, got[t].ver))
     ELSE UNCHANGED rows
  /\ NextKey(t)
  /\ UNCHANGED <<server, now, flag, wvars, todo, listing>>

-----------------------------------------------------------------------------
(* The other devices of the account, and the clock.                        *)

OtherDevice(k, v, del) ==
  /\ server[k].ver < MaxRemote
  /\ del => server[k].ver # 0 /\ server[k].val = v
  /\ ServerWrite(k, v, del)
  /\ UNCHANGED <<store, now, flag, wvars, svars>>

Tick ==
  /\ now < MaxTime
  /\ now' = now + 1
  /\ UNCHANGED <<store, server, flag, wvars, svars>>

-----------------------------------------------------------------------------

WriterNext(w) ==
  \/ \E k \in Keys : ReadVersion(w, k)
  \/ \E v \in Values : Set(w, v)
  \/ Delete(w)
  \/ WriteConflict(w)

SyncerNext(t) ==
  \/ TestFlag(t) \/ ClaimFlag(t) \/ ListKeys(t) \/ ListFails(t)
  \/ Finish(t) \/ KernelThrows(t)
  \/ \E k \in Keys : Compare(t, k)
  \/ ReadLocal(t) \/ RequestFails(t)
  \/ Put(t) \/ Del(t) \/ Fetch(t)
  \/ Store(t) \/ StoreConflict(t) \/ Record(t)

Next ==
  \/ \E w \in Writers : WriterNext(w)
  \/ \E t \in Syncers : SyncerNext(t)
  \/ \E k \in Keys, v \in Values, del \in BOOLEAN : OtherDevice(k, v, del)
  \/ Tick

Spec == Init /\ [][Next]_vars

(* A thread that runs syncAllKeys goes on running, every request returns or *)
(* times out, and a server that is asked again and again answers at times.  *)
Fairness ==
  \A t \in Syncers :
    /\ WF_vars(SyncerNext(t))
    /\ SF_vars(TestFlag(t))
    /\ SF_vars(ListKeys(t))
    /\ SF_vars((Put(t) \/ Del(t)) /\ pc'[t] = "record")
    /\ SF_vars(Fetch(t))

FairSpec == Spec /\ Fairness

-----------------------------------------------------------------------------
(* Properties.                                                             *)

TypeOK ==
  /\ rows \in [Keys -> Seq(Row)]
  /\ server \in [Keys -> Entry]
  /\ now \in Nat
  /\ syncRunning \in BOOLEAN
  /\ wkey \in [Writers -> Keys \cup {NoKey}]
  /\ wver \in [Writers -> Nat]
  /\ pc \in [Syncers -> PC]
  /\ todo \in [Syncers -> SUBSET Keys]
  /\ listing \in [Syncers -> [Keys -> Listed]]
  /\ key \in [Syncers -> Keys \cup {NoKey}]
  /\ recorded \in [Syncers -> Nat]
  /\ loc \in [Syncers -> Local]
  /\ got \in [Syncers -> Answer]

(* The newest row of k carries the server's current version, which is what  *)
(* makes _syncKey return at its entry.                                      *)
Synced(k) ==
  /\ rows[k] # <<>>
  /\ Latest(k).rver > 0
  /\ Latest(k).rver = server[k].ver

(* "If they match, there is nothing to do" is sound: a live row that       *)
(* carries the server's current version has the server's value, whatever   *)
(* the other thread and the other devices did between the steps of a sync. *)
RecordedMeansEqual ==
  \A k \in Keys :
    Synced(k) /\ ~Latest(k).del =>
      Latest(k).val = server[k].val /\ ~server[k].del

(* The row t has read is still the newest one of its key.                  *)
Fresh(t) == rows[key[t]] # <<>> /\ loc[t].ver = Len(rows[key[t]])

(* What a syncer carries from step to step, the rest of the inductive       *)
(* invariant: a version it read never runs ahead, the row it read is the    *)
(* newest one unless that has grown, and the answer it holds is the         *)
(* server's value unless the server has moved on.                           *)
Carried(t) ==
  LET k == key[t] IN
  /\ pc[t] \notin {"idle", "claim", "keys", "loop"} => k \in Keys
  /\ pc[t] \in {"put", "del", "fetch", "store", "record"} =>
       loc[t].ver <= Len(rows[k])
  /\ pc[t] = "put" => ~loc[t].del
  /\ pc[t] = "del" => loc[t].del
  /\ pc[t] \in {"put", "del"} /\ Fresh(t) =>
       Latest(k).val = loc[t].val /\ Latest(k).del = loc[t].del
  /\ pc[t] \in {"store", "record"} => got[t].ver <= server[k].ver
  /\ pc[t] = "store" => got[t].val \in Values
  /\ pc[t] = "store" /\ got[t].ver = server[k].ver =>
       got[t].val = server[k].val /\ ~server[k].del
  /\ pc[t] = "record" /\ got[t].ver = server[k].ver /\ Fresh(t) =>
       Latest(k).del \/ (Latest(k).val = server[k].val /\ ~server[k].del)

CarriedIsCurrent == \A t \in Syncers : Carried(t)

(* No row, old or new, claims a server version the server never had.       *)
RecordedNotAhead ==
  \A k \in Keys : \A i \in 1..Len(rows[k]) : rows[k][i].rver <= server[k].ver

(* What the table records of the server holds, for the current row and for  *)
(* every older one.                                                        *)
RecordedIsSound == RecordedMeansEqual /\ RecordedNotAhead

(* A sync replaces a local value only if it was listed as newer than the   *)
(* row it replaces: a set or delete that lands while the value is being    *)
(* fetched is never overwritten by it.                                     *)
SyncNeverClobbers ==
  [][ \A k \in Keys :
        ( /\ rows[k] # <<>> /\ rows[k] # rows'[k]
          /\ UNCHANGED wkey
          /\ Latest(k).val # Latest(k)'.val )
        => \E t \in Syncers : Latest(k).time < listing[t][k].time ]_vars

(* A sync never leaves the flag set behind it, whatever fails in it.       *)
FlagIsReleased == syncRunning ~> ~syncRunning

(* When changes stop and nothing is deleted, what the table holds and what  *)
(* the server holds end up the same, and stay so.                           *)
Alive == \A k \in Keys : ~server[k].del /\ (rows[k] # <<>> => ~Latest(k).del)

AllSynced ==
  \A k \in Keys : Synced(k) \/ (rows[k] = <<>> /\ server[k].ver = 0)

EventuallySynced == <>[]Alive => <>[]AllSynced
=============================================================================
