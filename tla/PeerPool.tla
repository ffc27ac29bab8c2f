------------------------------- MODULE PeerPool -------------------------------
(***************************************************************************)
(* The connections of the peer manager: BRPeerManager.c.                   *)
(*                                                                         *)
(* Each peer's thread reports to the manager under the manager's lock, and *)
(* the calls that follow the unlock (the application's callbacks and the   *)
(* reconnection) run as a "job" of that thread, side by side with the      *)
(* application's own calls.  What a connection does is PeerLink's subject, *)
(* what the blocks contain ChainSync's: here a peer connects, relays the   *)
(* next block, answers a mempool request or is lost.                       *)
(*                                                                         *)
(* What PeerLink has under the same name is called Pool... or Manager...   *)
(* here, so that one module can extend both.                               *)
(***************************************************************************)
EXTENDS Naturals, FiniteSets, FiniteSetsExt

CONSTANTS
  Peers,        \* addresses
  Seeds,        \* the addresses the DNS seeds may answer with
  LastBlock,    \* the height a peer reports
  MaxConnect,   \* PEER_MAX_CONNECTIONS
  MaxFailures,  \* MAX_CONNECT_FAILURES
  MaxHeight,    \* bound on the height of the chain
  MaxCalls,     \* bound on the application's calls
  Jobs,         \* bound on the calls that run at once
  NoPeer

ASSUME PeersAssumption   == IsFiniteSet(Peers) /\ NoPeer \notin Peers /\ Seeds \subseteq Peers
ASSUME HeightsAssumption == LastBlock \in [Peers -> Nat] /\ MaxHeight \in Nat
ASSUME LimitsAssumption  == {MaxConnect, MaxFailures} \subseteq Nat \ {0} /\ MaxCalls \in Nat

VARIABLES
  addrs,     \* peers: the addresses to choose from
  conn,      \* connectedPeers, and how far each is
  download,  \* downloadPeer; isConnected is download # NoPeer
  failures,  \* connectFailureCount
  syncing,   \* syncStartHeight > 0
  height,    \* lastBlock->height
  estimated, \* estimatedHeight
  load,      \* of each peer: its filter is being loaded, then its mempool
  job,       \* what each running call does next
  calls,     \* calls of the application so far
  stopped    \* history: Disconnect was called, and neither Connect nor Rescan since

pool  == <<addrs, conn, download, failures>>
chain == <<syncing, height, estimated, load>>
poolVars  == <<pool, chain, job, calls, stopped>>

Connected == {p \in Peers : conn[p] # "none"}

\* BRPeerConnectStatus is BRPeerStatusConnected, also while the thread of a peer
\* whose socket was closed has not noticed.
Up == {p \in Peers : conn[p] \in {"up", "closing"}}

PoolInit ==
  /\ addrs \in SUBSET Peers
  /\ conn = [p \in Peers |-> "none"]
  /\ download = NoPeer
  /\ failures = 0
  /\ syncing = FALSE /\ height = 0 /\ estimated = 0
  /\ load = [p \in Peers |-> "none"]
  /\ job = [j \in Jobs |-> "none"]
  /\ calls = 0
  /\ stopped = FALSE

\* A call that has something left to do after the unlock.
Continue(step) ==
  LET free == {j \in Jobs : job[j] = "none"}
  IN  free # {} /\ job' = [job EXCEPT ![CHOOSE j \in free : TRUE] = step]

Goes(j, step) == job' = [job EXCEPT ![j] = step]

-----------------------------------------------------------------------------
(* BRPeerManagerConnect, called by the application and by the thread of a   *)
(* peer that was lost.                                                      *)

\* BRPeerConnect: the network may be unreachable, and then the peer waits for
\* the next BRPeerManagerConnect; the thread may fail to start.
Dialled == {"dialing", "waiting", "unborn"}

\* array_count(connectedPeers).
Count(c) == Cardinality({p \in Peers : c[p] # "none"})

\* Peers are added until there are enough or no address is left.
Fill(j, c, from) ==
  LET free  == {p \in from : c[p] = "none"}
      room  == IF Count(c) < MaxConnect THEN MaxConnect - Count(c) ELSE 0
      count == IF Cardinality(free) < room THEN Cardinality(free) ELSE room
  IN  \E new \in kSubset(count, free), how \in Dialled :
        /\ conn' = [p \in Peers |-> IF p \in new THEN how ELSE c[p]]
        /\ IF Count(c) + count = 0
             THEN syncing' = FALSE /\ Goes(j, "stopped")
             ELSE UNCHANGED syncing /\ Goes(j, "none")

\* Waiting peers are dialled again; if there are too few addresses, or they are
\* old, the DNS seeds are asked without the lock.
OpenPeers(j) ==
  \E how \in Dialled :
    LET c == [p \in Peers |-> IF conn[p] = "waiting" THEN how ELSE conn[p]]
    IN  \/ /\ Cardinality(Connected) < MaxConnect
           /\ conn' = c /\ Goes(j, "find") /\ UNCHANGED syncing
        \/ /\ Cardinality(addrs) >= MaxConnect \/ Cardinality(Connected) >= MaxConnect
           /\ Fill(j, c, addrs)

\* A sync starts, unless one is running; syncStarted is called without the lock.
ConnectBegins(j) ==
  /\ job[j] = "connect"
  /\ failures' = IF failures >= MaxFailures THEN 0 ELSE failures
  /\ IF (download = NoPeer \/ height < estimated) /\ ~syncing
       THEN syncing' = TRUE /\ Goes(j, "started") /\ UNCHANGED conn
       ELSE OpenPeers(j)
  /\ UNCHANGED <<addrs, download, height, estimated, load, calls, stopped>>

SyncStarted(j) ==
  /\ job[j] = "started"
  /\ OpenPeers(j)
  /\ UNCHANGED <<addrs, download, failures, height, estimated, load, calls, stopped>>

\* The threads that ask the seeds end, with an answer or without one, and the
\* call takes the lock again.
SeedsAnswer(j) ==
  /\ job[j] = "find" /\ Goes(j, "fill")
  /\ \E found \in SUBSET Seeds : addrs' = addrs \cup found
  /\ UNCHANGED <<conn, download, failures, chain, calls, stopped>>

FindPeers(j) ==
  /\ job[j] = "fill"
  /\ Fill(j, conn, addrs)
  /\ UNCHANGED <<addrs, download, failures, height, estimated, load, calls, stopped>>

\* syncStopped, without the lock.
SyncStopped(j) == job[j] = "stopped" /\ Goes(j, "none") /\ UNCHANGED <<pool, chain, calls, stopped>>

-----------------------------------------------------------------------------
(* The peers' threads.                                                      *)

\* BRPeerDisconnect as the manager calls it: the socket of a connected peer is
\* closed, that of a dialing one only if it is open yet.
Dropped(S) ==
  {[p \in Peers |-> CASE p \in S /\ conn[p] = "up"                      -> "closing"
                      [] p \in S /\ conn[p] = "dialing" /\ p \in open -> "lost"
                      [] OTHER                                         -> conn[p]] :
   open \in SUBSET S}

\* The filters of S are loaded, or their mempools asked for at once.
Loading(S, at) == [p \in Peers |-> IF p \in S THEN at ELSE load[p]]

\* Mutant: the mempool of the download peer is not asked for.
LoadMempoolsBeside(up, dl) == load' = Loading(up \ {dl}, "filter")

\* _BRPeerManagerLoadMempools: the download peer's filter is kept if it is fresh.
LoadMempools(up, dl) ==
  \E fresh \in BOOLEAN :
    load' = [p \in Peers |-> CASE p \notin up -> load[p]
                               [] p \in up /\ p = dl /\ fresh -> "mempool"
                               [] OTHER -> "filter"]

\* _peerConnected: a peer that does not serve is dropped.
ConnectRefused(p) ==
  /\ conn[p] = "dialing"
  /\ conn' = [conn EXCEPT ![p] = "closing"]
  /\ UNCHANGED <<addrs, download, failures, chain, job, calls, stopped>>

\* _peerConnected: the download peer is kept, and the new one is used for its
\* mempool if there is nothing to download from it.
ConnectBeside(p) ==
  /\ conn[p] = "dialing"
  /\ download # NoPeer
  /\ LastBlock[download] >= LastBlock[p] \/ height >= LastBlock[p]
  /\ conn' = [conn EXCEPT ![p] = "up"]
  /\ \/ /\ height >= LastBlock[p]
        /\ failures' = 0
        /\ load' = Loading({p}, "filter")
     \/ height < LastBlock[p] /\ UNCHANGED <<failures, load>>
  /\ UNCHANGED <<addrs, download, syncing, height, estimated, job, calls, stopped>>

\* _peerConnected: the best of the connected peers becomes the download peer.
ConnectDownload(p) ==
  /\ conn[p] = "dialing"
  /\ ~(download # NoPeer /\ (LastBlock[download] >= LastBlock[p] \/ height >= LastBlock[p]))
  /\ \E best \in {p} \cup {q \in Up : LastBlock[q] >= LastBlock[p]} :
       /\ conn' = [q \in Peers |-> CASE q = p -> "up"
                                     [] q # p /\ q = download /\ conn[q] = "up" -> "closing"
                                     [] OTHER -> conn[q]]
       /\ download' = best
       /\ estimated' = LastBlock[best]
       /\ IF height < LastBlock[best]
            THEN UNCHANGED <<failures, load>>           \* blocks are requested
            ELSE failures' = 0 /\ LoadMempools(Up \cup {p}, best)
  /\ UNCHANGED <<addrs, syncing, height, job, calls, stopped>>

PeerConnected(p) == ConnectRefused(p) \/ ConnectBeside(p) \/ ConnectDownload(p)

\* Mutant: the next block is expected already.
SeenNext(h) == h + 1

\* A block higher than expected raises the estimated height.
Seen(h) == IF h > estimated THEN h ELSE estimated

\* _peerRelayedBlock, as far as the connections go: the next block arrives.
RelayedBlock(p) ==
  /\ p \in Up /\ height < MaxHeight
  /\ height' = height + 1
  /\ failures' = IF height' < estimated /\ p = download THEN 0 ELSE failures
  /\ estimated' = Seen(height')
  /\ IF height' = estimated THEN LoadMempools(Up, download) ELSE UNCHANGED load
  /\ UNCHANGED <<addrs, conn, download, syncing, job, calls, stopped>>

\* _loadBloomFilterDone(1): now the mempool is asked for.
FilterLoaded(p) ==
  /\ p \in Up /\ load[p] = "filter"
  /\ load' = [load EXCEPT ![p] = "mempool"]
  /\ UNCHANGED <<pool, syncing, height, estimated, job, calls, stopped>>

\* _mempoolDone(1): the sync has succeeded.
MempoolDone(p) ==
  /\ p \in Up /\ load[p] = "mempool"
  /\ load' = [load EXCEPT ![p] = "none"]
  /\ syncing' = FALSE
  /\ \/ syncing /\ Continue("stopped")
     \/ ~syncing /\ UNCHANGED job
  /\ UNCHANGED <<pool, height, estimated, calls, stopped>>

\* The link fails, times out or is closed by the remote.
Lose(p) ==
  /\ conn[p] \in {"dialing", "up", "closing"}
  /\ conn' = [conn EXCEPT ![p] = "lost"]
  /\ UNCHANGED <<addrs, download, failures, chain, job, calls, stopped>>

\* The completion callbacks of a lost peer: _loadBloomFilterDone(0) of the
\* download peer ends the sync.
LoadFails(p) ==
  /\ conn[p] = "lost" /\ load[p] # "none"
  /\ load' = [load EXCEPT ![p] = "none"]
  /\ \/ load[p] = "filter" /\ p = download /\ syncing' = FALSE /\ Continue("stopped")
     \/ ~(load[p] = "filter" /\ p = download) /\ UNCHANGED <<syncing, job>>
  /\ UNCHANGED <<pool, height, estimated, calls, stopped>>

\* The addresses after a peer was lost: a peer that broke the protocol, or failed,
\* is forgotten, and after ten that broke it all are.
Forgotten(p, error) ==
  CASE error = "none"  -> {addrs}
    [] error = "proto" -> {addrs \ {p}, {}}
    [] OTHER           -> {addrs \ {p}}

\* Mutant: a freed peer is left as the download peer.
DownloadKept(p) == download

\* The download peer once p is gone.
DownloadWithout(p) == IF p = download THEN NoPeer ELSE download

\* Mutant: the failures are never cut back to the limit.
CountedAll(p, n) == n

\* The failures once p is gone, n of them so far.
Counted(p, n) == IF p = download /\ n > MaxFailures THEN MaxFailures ELSE n

\* _peerDisconnected.
PeerDisconnected(p) ==
  /\ conn[p] = "lost" /\ load[p] = "none"
  /\ \E error \in {"none", "proto", "other"} :
       LET dl    == DownloadWithout(p)
           fails == Counted(p, IF error = "other" THEN failures + 1 ELSE failures)
       IN  /\ failures' = fails /\ download' = dl
           /\ conn' = [conn EXCEPT ![p] = "none"]
           /\ \/ /\ dl = NoPeer /\ fails = MaxFailures          \* the sync has failed
                 /\ syncing' = FALSE /\ addrs' = {} /\ Continue("stopped")
              \/ /\ fails < MaxFailures
                 /\ addrs' \in Forgotten(p, error) /\ Continue("connect")
                 /\ UNCHANGED syncing
              \/ /\ fails >= MaxFailures /\ ~(dl = NoPeer /\ fails = MaxFailures)
                 /\ addrs' \in Forgotten(p, error)
                 /\ UNCHANGED <<syncing, job>>
  /\ UNCHANGED <<height, estimated, load, calls, stopped>>

\* _peerRelayedPeers: addresses are added; the bounds leave no room for the 2500
\* after which the oldest are dropped.
RelayedPeers(p) ==
  /\ p \in Up
  /\ \E more \in SUBSET Peers : addrs' = addrs \cup more /\ addrs' # addrs
  /\ UNCHANGED <<conn, download, failures, chain, job, calls, stopped>>

-----------------------------------------------------------------------------
(* The application.                                                         *)

Call(step) == calls < MaxCalls /\ calls' = calls + 1 /\ Continue(step)

ManagerConnect ==
  /\ Call("connect")
  /\ stopped' = FALSE
  /\ UNCHANGED <<pool, chain>>

\* BRPeerManagerDisconnect: every peer is disconnected, and the call waits until
\* all are gone.
ManagerDisconnect ==
  /\ Call("wait")
  /\ failures' = IF Connected # {} THEN MaxFailures ELSE failures
  /\ conn' \in Dropped(Connected)
  /\ stopped' = TRUE
  /\ UNCHANGED <<addrs, download, chain>>

DisconnectReturns(j) ==
  /\ job[j] = "wait" /\ Connected = {} /\ \A k \in Jobs : job[k] # "find"
  /\ Goes(j, "none")
  /\ UNCHANGED <<pool, chain, calls, stopped>>

\* BRPeerManagerRescan and its variants: an older block becomes the last one and
\* another download peer is to be found.
Rescan ==
  /\ download # NoPeer
  /\ Call("connect")
  /\ height' \in 0..height
  /\ addrs' = addrs \ {download}
  /\ conn' \in Dropped({download})
  /\ syncing' = FALSE
  /\ stopped' = FALSE
  /\ UNCHANGED <<download, failures, estimated, load>>

Running(j) ==
  \/ ConnectBegins(j) \/ SyncStarted(j) \/ SeedsAnswer(j) \/ FindPeers(j)
  \/ SyncStopped(j) \/ DisconnectReturns(j)

PoolNext ==
  \/ \E j \in Jobs : Running(j)
  \/ \E p \in Peers :
       \/ PeerConnected(p) \/ RelayedBlock(p) \/ FilterLoaded(p) \/ MempoolDone(p)
       \/ Lose(p) \/ LoadFails(p) \/ PeerDisconnected(p) \/ RelayedPeers(p)
  \/ ManagerConnect \/ ManagerDisconnect \/ Rescan

\* Threads run, and a connection attempt ends within CONNECT_TIMEOUT.  Nothing is
\* assumed of what a connected peer answers.
PoolFairness ==
  /\ \A j \in Jobs : WF_poolVars(Running(j))
  /\ \A p \in Peers :
       /\ WF_poolVars(conn[p] \in {"dialing", "closing"} /\ (PeerConnected(p) \/ Lose(p)))
       /\ WF_poolVars(LoadFails(p) \/ PeerDisconnected(p))

PoolSpec == PoolInit /\ [][PoolNext]_poolVars

FairPoolSpec == PoolSpec /\ PoolFairness

-----------------------------------------------------------------------------
(* Properties                                                              *)

\* The variables have the values the code gives them; the estimated height is that
\* of a block or one a peer reported.
PoolTypeOK ==
  /\ addrs \subseteq Peers /\ download \in Peers \cup {NoPeer}
  /\ conn \in [Peers -> {"none", "waiting", "unborn", "dialing", "up", "closing", "lost"}]
  /\ failures \in Nat
  /\ syncing \in BOOLEAN /\ height \in 0..MaxHeight
  /\ estimated \in 0..MaxHeight \cup {LastBlock[p] : p \in Peers}
  /\ load \in [Peers -> {"none", "filter", "mempool"}]
  /\ job \in [Jobs -> {"none", "connect", "started", "find", "fill", "stopped", "wait"}]
  /\ calls \in 0..MaxCalls /\ stopped \in BOOLEAN

\* downloadPeer is never a peer that was freed.
DownloadIsConnected == download # NoPeer => download \in Connected

\* When nothing runs and no peer is left, no sync is left running, unless the
\* application disconnected.
NoDeadSync ==
  Connected = {} /\ (\A j \in Jobs : job[j] = "none") /\ ~stopped => ~syncing

\* What the code relies on and cannot enforce: the download peer relays what it was
\* asked for, and every peer answers the ping after a filter and the request for
\* its mempool, as long as their links hold.  A peer that is already synced or
\* connects beside is never timed, and the mempool of a peer beside, once it came,
\* cancels the download peer's timeout: a silent peer may keep a sync going for ever.
RemotesAnswer == \A p \in Peers :
  /\ WF_poolVars(p = download /\ height < estimated /\ (RelayedBlock(p) \/ Lose(p)))
  /\ WF_poolVars(load[p] # "none" /\ (FilterLoaded(p) \/ MempoolDone(p) \/ Lose(p)))

\* If from some time on no link is lost and the remotes answer, every sync ends,
\* unless from some time on the application has disconnected, a peer waits for the
\* network or has no thread, or all the connected peers were connected beside a
\* download peer that is gone: only a peer that connects can become the download peer.
LinksHold == <>[][\A p \in Peers : ~Lose(p)]_poolVars

Stuck ==
  \/ stopped
  \/ \E p \in Peers : conn[p] \in {"waiting", "unborn"}
  \/ download = NoPeer /\ Up # {}

SyncEnds == LinksHold /\ RemotesAnswer => []<>~syncing \/ <>[]Stuck
=============================================================================
