------------------------------- MODULE ChainSync -------------------------------
(***************************************************************************)
(* The block chain of breadwallet-core's peer manager: BRPeerManager.c,    *)
(* _peerRelayedBlock and what it keeps in manager->blocks, ->orphans,      *)
(* ->lastBlock; the rescans; the blocks it has the app save, and their     *)
(* loading by BRPeerManagerNew.                                            *)
(*                                                                         *)
(* Nodes relay any block of a tree of blocks (Prev), in any order, as a    *)
(* header or with the hashes of its wallet transactions.  Of the wallet    *)
(* the module keeps the heights it was told (conf), with the effect that   *)
(* UpdateTransactions and SetTxUnconfirmedAfter have on them (CoreWallet). *)
(* Each peer's thread runs the handler under manager->lock, once more for  *)
(* an orphan that follows (todo), with the lock released in between.       *)
(*                                                                         *)
(* What TxRelay has under the same name has another here, so that one      *)
(* module can extend both.                                                 *)
(***************************************************************************)
EXTENDS Integers, FiniteSets, FiniteSetsExt

CONSTANTS Block,        \* blocks, by their hashes
          Prev,         \* Prev[b]: the block before b, or NoBlock
          Height,       \* Height[b]: the length of the chain up to b
          Checkpoints,  \* the checkpoints, in blocks from the beginning
          Start,        \* the latest checkpoint a week older than earliestKeyTime
          Early,        \* blocks old enough to be fetched as headers only
          Recent,       \* blocks not older than a week
          BadTarget,    \* blocks whose difficulty target is wrong
          TxOf,         \* TxOf[b]: the wallet's transactions in b
          Nodes,        \* connected peers
          PeerLast,     \* PeerLast[p]: the height p says it has
          MaxRewinds,   \* bound: rescans and starts after the first
          Interval,     \* BLOCK_DIFFICULTY_INTERVAL
          NoBlock

WalletTx == UNION {TxOf[b] : b \in Block}
MaxHeight == Max({Height[b] : b \in Block})
TxUnconfirmed == MaxHeight + 1            \* TX_UNCONFIRMED

(* b and what comes before it: the least set that goes on from b by Prev.    *)
Ancestors ==
  [b \in Block |->
     {a \in Block : \A S \in SUBSET Block :
        b \in S /\ (\A x \in S : Prev[x] # NoBlock => Prev[x] \in S) => a \in S}]

ASSUME TreeAssumption ==
  /\ IsFiniteSet(Block) /\ NoBlock \notin Block
  /\ Prev \in [Block -> Block \union {NoBlock}]
  /\ Height \in [Block -> Nat]
  /\ Interval \in Nat \ {0}
  /\ PeerLast \in [Nodes -> Nat]
  /\ \A b \in Block : Prev[b] # NoBlock => Height[b] = Height[Prev[b]] + 1
  /\ Start \in Checkpoints /\ Checkpoints \subseteq Block
  /\ \A c, d \in Checkpoints : Height[c] % Interval = 0 /\ (Height[c] = Height[d] => c = d)
  /\ MaxRewinds \in Nat

(* A chain has a transaction once.                                          *)
ASSUME ChainsAssumption ==
  \A b \in Block : \A a \in Ancestors[b] \ {b} : TxOf[a] \intersect TxOf[b] = {}

(* The wallet's transactions are not older than its first key               *)
(* (earliestKeyTime).                                                       *)
ASSUME KeyTimeAssumption == \A b \in Early \intersect Block : TxOf[b] = {}

VARIABLES blocks,       \* manager->blocks: headers and blocks that are linked to a checkpoint
          full,         \* those of them that came with their transaction hashes
          orphans,      \* manager->orphans, at most one for each previous block
          lastOrphan,   \* manager->lastOrphan
          lastBlock,    \* manager->lastBlock
          estimated,    \* manager->estimatedHeight
          filter,       \* manager->bloomFilter # NULL
          conf,         \* the wallet: the height of every transaction
          saved,        \* what the app has stored: <<block, with its hashes>>
          saving,       \* saving[p]: what p's thread is about to have stored
          todo,         \* todo[p]: an orphan that p's thread is about to process
          rewinds,      \* the number of rescans and restarts
          rewound,      \* history: main chains that a rescan or a restart left
          met,          \* history: what of NoFault's and the others' exceptions has happened
          fault         \* the code has followed a NULL pointer or failed an assertion

chain == <<blocks, full, lastBlock, conf>>
chainVars == <<chain, orphans, lastOrphan, estimated, filter, saved, saving, todo, rewinds, rewound, met, fault>>

---------------------------------------------------------------------------
(* Walking manager->blocks. *)

(* b and the blocks before it that a walk through bs meets, which ends at   *)
(* the first that is missing.                                               *)
Walk(bs, b) ==
  LET missing == Ancestors[b] \ (bs \union {b})
  IN  {a \in Ancestors[b] : \A x \in missing : Height[a] > Height[x]}

AtHeight(bs, b, h) ==
  IF \E a \in Walk(bs, b) : Height[a] = h
  THEN CHOOSE a \in Walk(bs, b) : Height[a] = h ELSE NoBlock

MainChain == Walk(blocks, lastBlock)

---------------------------------------------------------------------------
(* Checking a block: _BRPeerManagerVerifyBlock. *)

IsTransition(b) == Height[b] % Interval = 0

(* the previous transition that a transition block is checked against.      *)
Transition(b) == AtHeight(blocks \union {b}, b, Height[b] - Interval)

(* Mutant: what lies between the two transitions is freed, too.            *)
FreedBetween(b) ==
  IF IsTransition(b) /\ Height[b] >= Interval /\ Transition(b) # NoBlock
  THEN {a \in Walk(blocks, Prev[b]) : ~IsTransition(a)}
  ELSE {}

(* "free up some memory": what lies before the previous transition.         *)
Freed(b) ==
  IF IsTransition(b) /\ Height[b] >= Interval /\ Transition(b) # NoBlock
  THEN {a \in Walk(blocks, Transition(b)) \ {Transition(b)} : ~IsTransition(a)}
  ELSE {}

Verified(b) ==
  /\ IsTransition(b) => Height[b] >= Interval /\ Transition(b) # NoBlock
  /\ b \notin BadTarget
  /\ \A c \in Checkpoints : Height[c] = Height[b] => c = b

---------------------------------------------------------------------------
(* What the wallet is told. *)

UpdateTransactions(cf, b) == [t \in WalletTx |-> IF t \in TxOf[b] THEN Height[b] ELSE cf[t]]
SetTxUnconfirmedAfter(cf, h) == [t \in WalletTx |-> IF cf[t] > h THEN TxUnconfirmed ELSE cf[t]]

(* Saving: a transition block is added to what is stored; at the end of a   *)
(* download the blocks from the transition before the last one replace it.  *)
SaveOf(bs, fs, b) ==
  LET n == (Height[b] % Interval) + Interval + 1
      path == {a \in Walk(bs, b) : Height[a] + n > Height[b]}
      low == Min({Height[a] : a \in path})
      start == IF low % Interval = 0 THEN low ELSE low + Interval - (low % Interval)
  IN  {<<a, a \in fs>> : a \in {c \in path : Height[c] >= start}}

(* The end of the handler: what is to be saved once the lock is released,   *)
(* and an orphan that follows b and is taken next.                          *)
Finish(p, b, os, save) ==
  LET next == {o \in os : Prev[o] = b}
  IN  /\ orphans' = os \ next
      /\ todo' = [todo EXCEPT ![p] = IF next = {} THEN NoBlock ELSE CHOOSE o \in next : TRUE]
      /\ saving' = [saving EXCEPT ![p] = save]
      /\ estimated' = IF Height[b] > estimated THEN Height[b] ELSE estimated

(* The block is freed or put away: nothing is saved and nothing follows.    *)
Taken(p) == /\ todo' = [todo EXCEPT ![p] = NoBlock]
            /\ UNCHANGED <<saving, estimated>>

---------------------------------------------------------------------------
(* _peerRelayedBlock, by its branches; b came in a message of p or waited   *)
(* for its previous block; hdr says that it is only a header.               *)

Ignored(p) ==
  /\ Taken(p)
  /\ UNCHANGED <<chain, orphans, lastOrphan, fault>>

(* Mutant: a second orphan of the same previous block is kept beside the   *)
(* first.                                                                  *)
PutAwayBeside(b) == orphans \union {b}

PutAway(b) == {o \in orphans : Prev[o] # Prev[b]} \union {b}

Orphan(p, b) ==
  /\ orphans' = PutAway(b) /\ lastOrphan' = b
  /\ Taken(p)
  /\ UNCHANGED <<chain, fault>>

Keep(b) == blocks \ Freed(b)            \* what is left of blocks when b has been checked
FullWith(b, hdr) == IF hdr THEN full \ (Freed(b) \union {b}) ELSE (full \ Freed(b)) \union {b}

(* b is invalid, or on a fork that is too old.                              *)
Refused(p, b) ==
  /\ blocks' = Keep(b) /\ full' = full \ Freed(b)
  /\ Taken(p)
  /\ UNCHANGED <<lastBlock, conf, orphans, lastOrphan, fault>>

(* b becomes lastBlock.  When that completes the download, its stretch of   *)
(* the chain is saved, and filters are loaded for other peers, if there are *)
(* any: then the orphans are dropped.                                       *)
NewLast(p, b, bs, fs, save) ==
  /\ lastBlock' = b
  /\ IF Height[b] = estimated
     THEN \E loads \in BOOLEAN :
            /\ Finish(p, b, IF loads THEN {} ELSE orphans, SaveOf(bs, fs, b))
            /\ lastOrphan' = IF loads THEN NoBlock ELSE lastOrphan
     ELSE Finish(p, b, orphans, save) /\ UNCHANGED lastOrphan

Extend(p, b, hdr) ==
  LET bs == Keep(b) \union {b}
      fs == FullWith(b, hdr)
  IN
  /\ blocks' = bs /\ full' = fs
  /\ conf' = IF hdr THEN conf ELSE UpdateTransactions(conf, b)
  /\ NewLast(p, b, bs, fs, IF IsTransition(b) THEN {<<b, ~hdr>>} ELSE {})
  /\ UNCHANGED fault

(* The block, or its header, is known already; at is NULL when the walk     *)
(* back to its height ends before it.                                       *)
Existing(p, b, hdr) ==
  LET at == IF Height[b] < Height[lastBlock]
            THEN AtHeight(Keep(b), lastBlock, Height[b]) ELSE lastBlock
  IN
  /\ fault' = (at = NoBlock)
  /\ blocks' = Keep(b) /\ full' = FullWith(b, hdr)
  /\ conf' = IF at = b /\ ~hdr THEN UpdateTransactions(conf, b) ELSE conf
  /\ lastOrphan' = IF lastOrphan = b /\ \A q \in Nodes : todo[q] # b THEN NoBlock ELSE lastOrphan
  /\ Finish(p, b, orphans, {})
  /\ UNCHANGED lastBlock

(* A new block arrives while a rescan is catching up.                       *)
Ahead(p, b) == Height[lastBlock] < PeerLast[p] /\ Height[b] > Height[lastBlock] + 1

DuringRescan(p, b) ==
  /\ blocks' = Keep(b) /\ full' = full \ Freed(b)
  /\ Finish(p, b, PutAway(b), {})
  /\ lastOrphan' = b
  /\ UNCHANGED <<lastBlock, conf, fault>>

LastCheckpoint == Max({Height[c] : c \in Checkpoints})

Fork(p, b, hdr) ==
  /\ blocks' = Keep(b) \union {b} /\ full' = FullWith(b, hdr)
  /\ Finish(p, b, orphans, {})
  /\ UNCHANGED <<lastBlock, conf, lastOrphan, fault>>

(* Walking back from the new tip and from lastBlock, which is lower, to     *)
(* where the chains join.  One of the walks may end before that: then b is  *)
(* NULL, or one below the end of the walk from lastBlock.                   *)
Common(bs, tip) == Walk(bs, tip) \intersect Walk(bs, lastBlock)

Join(bs, tip) ==
  IF Common(bs, tip) # {}
  THEN CHOOSE a \in Common(bs, tip) : \A c \in Common(bs, tip) : Height[c] <= Height[a]
  ELSE AtHeight(bs, tip, Min({Height[a] : a \in Walk(bs, lastBlock)}) - 1)

(* Mutant: only the new tip's transactions get their height.                *)
ReorganisedTip(bs, fs, b) ==
  LET cf == SetTxUnconfirmedAfter(conf, Height[Join(bs, b)])
  IN  [t \in WalletTx |-> IF b \in fs /\ t \in TxOf[b] THEN Height[b] ELSE cf[t]]

(* After a walk that ended early no transaction gets a height.              *)
Reorganised(bs, fs, b) ==
  LET cf == SetTxUnconfirmedAfter(conf, Height[Join(bs, b)])
      new == IF Common(bs, b) = {} THEN {}
             ELSE {a \in Walk(bs, b) \intersect fs : Height[a] > Height[Join(bs, b)]}
  IN  [t \in WalletTx |-> IF \E a \in new : t \in TxOf[a]
                          THEN Height[CHOOSE a \in new : t \in TxOf[a]] ELSE cf[t]]

(* The process ends at a NULL or a freed pointer.                           *)
Fault == /\ fault' = TRUE
         /\ UNCHANGED <<chain, orphans, lastOrphan, saving, todo, estimated>>

Reorganise(p, b, hdr) ==
  LET bs == Keep(b) \union {b}
      fs == FullWith(b, hdr)
  IN
  IF Join(bs, b) = NoBlock THEN Fault
  ELSE /\ blocks' = bs /\ full' = fs
       /\ conf' = Reorganised(bs, fs, b)
       /\ NewLast(p, b, bs, fs, {})
       /\ UNCHANGED fault

(* The walk that frees old blocks may free lastBlock, which is read next.   *)
Handle(p, b, hdr) ==
  IF (hdr /\ b \notin Early) \/ ~filter THEN Ignored(p)
  ELSE IF Prev[b] \notin blocks THEN IF b \in Recent THEN Orphan(p, b) ELSE Ignored(p)
  ELSE IF lastBlock \in Freed(b) THEN Fault
  ELSE IF ~Verified(b) THEN Refused(p, b)
  ELSE IF Prev[b] = lastBlock THEN Extend(p, b, hdr)
  ELSE IF b \in blocks THEN Existing(p, b, hdr)
  ELSE IF Ahead(p, b) THEN DuringRescan(p, b)
  ELSE IF Height[b] <= LastCheckpoint THEN Refused(p, b)
  ELSE IF Height[b] <= Height[lastBlock] THEN Fork(p, b, hdr)
  ELSE Reorganise(p, b, hdr)

(* b is on a fork that left what is kept of the chain before the transition *)
(* that precedes b's last one, or before all of it.                         *)
Deep(b) ==
  /\ Prev[b] \in blocks /\ b \notin MainChain /\ lastBlock \notin Ancestors[b]
  /\ \A a \in Ancestors[b] \intersect MainChain :
       \E x \in Ancestors[b] : IsTransition(x) /\ Height[x] > Height[a] + Interval

(* b follows a block that is higher than lastBlock: "special case, new      *)
(* block mined durring rescan".                                             *)
AheadOfRescan(b) ==
  Prev[b] \in blocks /\ Height[b] > Height[lastBlock] + 1 /\ (IsTransition(b) \/ b \notin blocks)

RelayedBlock(p, b, hdr) ==
  /\ saving[p] = {}
  /\ Handle(p, b, hdr)
  /\ met' = met \union (IF Deep(b) THEN {"deep fork"} ELSE {})
                 \union (IF AheadOfRescan(b) THEN {"ahead"} ELSE {})
  /\ UNCHANGED <<filter, saved, rewound, rewinds>>

Receive(p, b, hdr) == todo[p] = NoBlock /\ RelayedBlock(p, b, hdr)

(* "check if the next block was received as an orphan"                      *)
NextBlock(p) ==
  \E hdr \in BOOLEAN : /\ todo[p] # NoBlock /\ (hdr => todo[p] \in Early \ Recent)
                       /\ RelayedBlock(p, todo[p], hdr)

(* saveBlocks, called after the lock is released: more than one block       *)
(* replace what was stored.                                                 *)
SaveBlocks(p) ==
  /\ saving[p] # {}
  /\ saved' = IF Cardinality(saving[p]) > 1 THEN saving[p] ELSE saved \union saving[p]
  /\ saving' = [saving EXCEPT ![p] = {}]
  /\ UNCHANGED <<chain, orphans, lastOrphan, estimated, filter, todo, rewinds, rewound, met, fault>>

---------------------------------------------------------------------------
(* The bloom filter.  A transaction that uses up the addresses it was made  *)
(* for has it dropped; loading it drops the orphans.                        *)

FilterDropped ==
  /\ filter /\ filter' = FALSE
  /\ UNCHANGED <<chain, orphans, lastOrphan, estimated, saved, saving, todo, rewinds, rewound, met, fault>>

LoadBloomFilter == filter' = TRUE /\ orphans' = {} /\ lastOrphan' = NoBlock

FilterLoaded ==
  /\ ~filter /\ estimated # 0 /\ LoadBloomFilter
  /\ UNCHANGED <<chain, estimated, saved, saving, todo, rewinds, rewound, met, fault>>

(* _peerConnected: p becomes the download peer.                             *)
SelectDownloadPeer(p) ==
  /\ LoadBloomFilter
  /\ estimated' = PeerLast[p]
  /\ UNCHANGED <<chain, saved, saving, todo, rewinds, rewound, met, fault>>

---------------------------------------------------------------------------
(* Rescans, and the next start of the app. *)

(* Of the blocks that forks and rescans have left.                          *)
Deeps == {"deep fork", "deep before"}
MainIsSure == met \intersect (Deeps \union {"jump", "stale start"}) = {}

(* What one of the three rescans starts from: a checkpoint, or a block of   *)
(* the chain by its number.                                                 *)
RescanFrom == (Checkpoints \intersect blocks) \union Walk(blocks, lastBlock)

Rescan(b) ==
  /\ estimated # 0 /\ b \in RescanFrom
  /\ rewinds < MaxRewinds /\ rewinds' = rewinds + 1
  /\ lastBlock' = b
  /\ rewound' = rewound \union Ancestors[lastBlock]
  /\ met' = met \union {"rescan"} \union (IF b \in Ancestors[lastBlock] THEN {} ELSE {"jump"})
  /\ UNCHANGED <<blocks, full, conf, orphans, lastOrphan, estimated, filter, saved, saving, todo, fault>>

(* BRPeerManagerNew: the stored blocks become orphans, at most one for each *)
(* previous block; the chain goes on from the last stored transition.       *)
Stored == {s[1] : s \in saved}

LastTransitions ==
  {s \in Stored : IsTransition(s) /\ \A o \in Stored : IsTransition(o) => Height[o] <= Height[s]}

LoadedFrom(os, b) == {a \in os \union {b} : b \in Walk(os \union {b}, a)}

Restart ==
  /\ rewinds < MaxRewinds /\ rewinds' = rewinds + 1
  /\ \E os \in SUBSET Stored :
    /\ \A s \in Stored : Cardinality({o \in os : Prev[o] = Prev[s]}) = 1
    /\ \E b \in IF LastTransitions = {} THEN {NoBlock} ELSE LastTransitions :
         LET ld == IF b = NoBlock THEN {} ELSE LoadedFrom(os, b)
             last == IF b = NoBlock THEN Start
                     ELSE CHOOSE a \in ld : \A c \in ld : Height[c] <= Height[a]
         IN  /\ blocks' = Checkpoints \union ld
             /\ full' = {a \in ld : <<a, TRUE>> \in saved}
             /\ orphans' = {o \in os : \A a \in ld : Prev[o] # Prev[a]}
             /\ lastBlock' = last
  /\ lastOrphan' = NoBlock /\ estimated' = 0 /\ filter' = FALSE
  /\ saving' = [p \in Nodes |-> {}] /\ todo' = [p \in Nodes |-> NoBlock]
  /\ rewound' = rewound \union Ancestors[lastBlock]
  /\ met' = (IF lastBlock' \in Ancestors[lastBlock] /\ MainIsSure THEN {} ELSE {"stale start"})
             \union (IF met \intersect Deeps = {} THEN {} ELSE {"deep before"})
  /\ fault' = FALSE
  /\ UNCHANGED <<conf, saved>>

---------------------------------------------------------------------------

ChainInit ==
  /\ blocks = Checkpoints /\ full = {} /\ lastBlock = Start
  /\ conf = [t \in WalletTx |-> TxUnconfirmed]
  /\ orphans = {} /\ lastOrphan = NoBlock /\ estimated = 0 /\ filter = FALSE
  /\ saved = {} /\ rewound = {} /\ rewinds = 0 /\ met = {} /\ fault = FALSE
  /\ saving = [p \in Nodes |-> {}] /\ todo = [p \in Nodes |-> NoBlock]

ChainNext ==
  \/ /\ ~fault
     /\ \/ \E p \in Nodes : \/ \E b \in Block, hdr \in BOOLEAN : Receive(p, b, hdr)
                            \/ NextBlock(p) \/ SaveBlocks(p) \/ SelectDownloadPeer(p)
        \/ FilterDropped \/ FilterLoaded
        \/ \E b \in Block : Rescan(b)
  \/ Restart

ChainSpec == ChainInit /\ [][ChainNext]_chainVars
---------------------------------------------------------------------------
(* Correctness. *)

(* The manager's sets and fields keep their types, and an orphan is found   *)
(* by its previous block: there is at most one for each.                    *)
ChainTypeOK ==
  /\ blocks \subseteq Block /\ full \subseteq blocks /\ orphans \subseteq Block
  /\ lastOrphan \in Block \union {NoBlock}
  /\ lastBlock \in Block /\ estimated \in Nat /\ filter \in BOOLEAN
  /\ conf \in [WalletTx -> Nat]
  /\ saved \subseteq Block \X BOOLEAN /\ saving \in [Nodes -> SUBSET (Block \X BOOLEAN)]
  /\ todo \in [Nodes -> Block \union {NoBlock}]
  /\ rewound \subseteq Block /\ rewinds \in 0..MaxRewinds /\ fault \in BOOLEAN
  /\ met \subseteq {"rescan", "jump", "ahead", "deep fork", "deep before", "stale start"}
  /\ \A o, q \in orphans : Prev[o] = Prev[q] => o = q

(* Following the chain back never ends at NULL and never meets a freed      *)
(* block (_peerRelayedBlock's walks), unless a rescan is under way or a     *)
(* fork is taken up that left the chain too long ago.                       *)
NoFault == fault => met \intersect {"rescan", "ahead", "deep fork"} # {}

(* "special case, new block mined durring rescan ... marking new block as   *)
(* orphan until rescan completes" (BRPeerManager.c:1276): such a block      *)
(* waits.  It does not if it is a transition: checking it frees lastBlock.  *)
NewBlockWaits == fault => "deep fork" \in met

(* A transaction that the wallet was told is in a block is in a block of    *)
(* the main chain at that height, or of one that a rescan or restart left.  *)
ConfirmedOnMain ==
  met \intersect Deeps = {} =>
    \A t \in WalletTx : conf[t] # TxUnconfirmed =>
      \E b \in Ancestors[lastBlock] \union rewound : t \in TxOf[b] /\ conf[t] = Height[b]

(* Whatever was freed, saved or loaded, enough of the chain is left for a   *)
(* good block after lastBlock to pass _BRPeerManagerVerifyBlock.            *)
NextIsValid ==
  met \intersect {"jump", "ahead", "deep fork"} = {} =>
    \A b \in Block \ BadTarget :
      Prev[b] = lastBlock /\ (\A c \in Checkpoints : Height[c] = Height[b] => c = b) => Verified(b)

(* "set transaction heights for new main chain" (BRPeerManager.c:1306): the *)
(* wallet knows the height of every transaction in the main chain's blocks. *)
MainIsConfirmed ==
  MainIsSure => \A b \in MainChain \intersect full : \A t \in TxOf[b] : conf[t] = Height[b]

(* The heights the wallet is told are those of the main chain, both ways.   *)
HeightsAreRight == ConfirmedOnMain /\ MainIsConfirmed

(* Enough of the chain is kept to walk it and to go on from it.             *)
EnoughIsKept == NoFault /\ NextIsValid

=============================================================================
