# ElaChat for Android: TLA+ specifications and proofs

ElaChat is a chat client on the Elastos Carrier peer-to-peer network with an
ELA wallet taken over from Bread.  It has two halves: Java code for the chat,
its tables and the key-value store, and the wallet core in C
(breadwallet-core), which follows the block chain over connections to peers,
keeps the wallet, and runs a light node for Ethereum.  This directory holds
TLA+ specifications of the parts of both where threads, the network and stored
state meet, the TLC configurations that check them, and theorems TLAPS proves
about them.

Paths of Java code are under `src/app/src/main/java/`, paths of C code under
`src/app/src/main/jni/breadwallet-core/`, unless they start with `src/`.

## The system

| component | state it keeps | operations | talks to |
|---|---|---|---|
| **Replicated key-value store** `com/platform/kvstore` | SQLite table `kvStoreTable` (rows of key, version, remote version, value, time, deleted), the flag `syncRunning` | `set`, `get`, `delete`, `setRemoteVersion`, `syncAllKeys`, `_syncKey` | the kv server over HTTP (`RemoteKVStore`), shared with the account's other devices; `KVStoreManager` above it |
| **File transfer** `org/ela/Carrier/Chatcarrier`, `ElachatApp` | sender: static `session`, `stream`, `mState`; receiver: `curfuid`, `activsession`, `sessionRequestSdp`, `receivefiletype`, `receivedData1` per stream | `streamWrite`, `doBulkWrite`, state / completion / data handlers, `getFile` | Carrier sessions, Carrier friend messages, the chat database |
| **Chat database and conversation** `com/eladapp/elachat/db/Db`, `chat/ChatActivity` | tables `messagelist`, `message_list_new`, `newmessagelast`; the open conversation's list, page offset and receiver | `addfriendmessage`, `putMsgListNew`, `addorupdatenewmessagelast`, `getfriendmessagelist`, `onReceive`, `loadMore` | Carrier callbacks, threads of received files, the UI thread, broadcasts |
| **Contacts** `Db`, `chat/FriendlistActivity`, `ElachatApp` | table `friend_list`; the contact screen's list and receiver | `updateFriendList`, `updateFriendInfo`, `getFriendList`, `onFriendConnection`, `onFriendInfoChanged`, `updateFriendStatus` | the Carrier's own friend list and callbacks, the UI thread, broadcasts |
| **Wallet** `BRWallet.c` | `allTx`, the sorted array `transactions`, two chains of addresses, and what the balance update derives: unspent and spent outputs, pending and invalid transactions, balances | `BRWalletNew`, `RegisterTransaction`, `RemoveTransaction`, `UpdateTransactions`, `SetTxUnconfirmedAfter`, `UnusedAddrs` | the peer manager's threads, the application's threads |
| **Block chain** `BRPeerManager.c` | `blocks`, `orphans`, `lastBlock`, `estimatedHeight`, the bloom filter, what the application has saved | `_peerRelayedBlock`, `_BRPeerManagerVerifyBlock`, the rescans, `BRPeerManagerNew` | peers, the wallet, the application's storage |
| **Peer connection** `BRPeer.c` | status, socket, flags, pending pings and mempool request, known hashes, the block being completed | `_peerThreadRoutine`, `BRPeerConnect`, `BRPeerDisconnect`, the `BRPeerSend*` and `_BRPeerAccept*` functions | the remote peer, the peer manager through callbacks |
| **Peer manager's connections** `BRPeerManager.c` | `peers`, `connectedPeers`, `downloadPeer`, `connectFailureCount`, `syncStartHeight` | `Connect`, `Disconnect`, `Rescan`, `_findPeers`, `_peerConnected`, `_peerDisconnected`, `_mempoolDone` | peers' threads, DNS seeds, the application |
| **Transaction relay** `BRPeerManager.c` | `publishedTx` with callbacks, `txRelays`, `txRequests`, timeouts | `BRPeerManagerPublishTx`, `_peerRelayedTx`, `_peerHasTx`, `_peerRejectedTx`, `_peerRequestedTx`, `_requestUnrelayedTxGetdataDone` | peers' threads, the wallet, the application |
| **Ethereum light node** `ethereum/BREthereumLightNode*.c`, `BREthereumWallet.c` | node state, transactions, the wallet's sorted list, the address's nonce | `Connect`, `Disconnect`, create, sign, submit, `AnnounceTransaction`, `AnnounceNonce`, `AnnounceSubmitTransaction` | a server through the client's callbacks, the event handler |
| **Event handler** `ethereum/event/*.c` | a queue of events and the one thread that dispatches it | `eventHandlerSignalEvent`, `eventHandlerThread` | the light node and its listener |
| Carrier start and friend requests `ElachatApp`, `Db`, `chat/NewFriends*` | `newfriendlist` | `start`, `onReady`, `onFriendRequest`, `addnewfriend`, `updatenewfriend` | Carrier callbacks, the requests screen |
| ELA wallet `com/breadwallet/wallet/wallets/ela` | cached transactions, balance, page preferences, `historyTransactionEntity` | `createElaTx`, `sendElaRawTx`, `cacheMultTx`, `getHistory`, `refreshCachedBalance`, `wipeData` | ELA server over HTTP, wallet screens, key store |
| Transaction manager `com/breadwallet/tools/manager/TxManager` | current page, `mIsLoading` | `init`, `loadMoreData`, `updateTxList` | ELA wallet, main thread |
| Platform API client `com/platform/APIClient` | `mIsPlatformUpdating`, items left, token | `updatePlatform`, `sendRequest`, `getToken` | executor threads, platform server, key-value store |
| Key-value clients `com/platform/tools/KVStoreManager` | none of its own | `putTxMetaData`, `putWalletInfo`, token list | key-value store |
| Screens, DID, dapps, settings | views | single calls of the above | |
| Sets, transactions, merkle blocks, keys, addresses, payment protocol, Ethereum values and encodings (C) | values | pure functions of them | all of the above |
| JNI glue, Ethereum LES, tests, secp256k1, resources | | | |

### What is hard in it, and what makes it correct

* **Key-value store.** Two threads may sync at once (`syncRunning` is read and
  written without a lock), a local change may land between any two steps of a
  sync, other devices write, answers get lost.  Correct: skipping a key whose
  versions match is sound; a version is never recorded that the server never
  had; a fetched value never overwrites a change it has not seen; the flag is
  always given back; when changes stop both sides become equal.
* **File transfer.** Threads of one phone share static fields; the receiver's
  fields are overwritten by the next request; waits are woken by notifications
  that may come early; the extension travels beside the session.  Correct: a
  session delivers its own file without gaps; the file is shown as sent by its
  sender; the handshake ends.
* **Chat database.** Each storing is a series of statements without a
  transaction on several threads, and the process may be killed in between.
  Correct: the conversation list shows the newest message and each friend
  once; paging through an open conversation skips nothing.
* **Contacts.** The library's list is taken, written to the table friend by
  friend and read back while friends come, go and change their data; a new
  process knows nothing of friends who are offline.  Correct: the screen shows
  who is online; stored data is current; data once known is never erased.
* **Friend requests.** They come again, and accepting may fail.  Correct: a
  request marked as accepted was accepted.
* **Wallet.** The description of a payment is one shared field; the answer to a
  publication may be lost; refreshes are under way while the wallet is wiped.
  Correct: a payment is cached with its own data; wiped means gone.
* **Platform update, transaction manager.** Latches released by counting tasks
  or by a task posted to another thread.  Correct: they are released.

* **Wallet (C).** The lock is released between the parts of a registration and
  of a removal; parents become known after children; double spends are decided
  by the chain, which may be reorganised.  Correct: the array stays sorted and
  holds no freed transaction, what counts is consistent with one future of the
  chain, and nobody is left without what it spends from.
* **Block chain.** Blocks of two branches arrive in any order, as headers, blocks
  or orphans, while old ones are freed, saved and rescanned.  Correct: the walks
  back through the chain end where they should, the next block can always be
  verified, and the wallet's heights are those of the main chain.
* **Peer connection.** The peer's thread and the manager's calls change one
  structure, with a lock on one side only.  Correct: connected and disconnected
  are reported once, and each completion callback is called once.
* **Connections and relay.** Peers come, fail and are replaced while a sync waits
  for one of them; answers of several peers and timeouts race for one callback.
  Correct: a sync ends, a caller hears once, a transaction is given up only when
  nobody has it.
* **Ethereum.** Answers come in any order, late and again; nonces and signatures
  are not under the lock; the event queue's signal can miss its thread.
  Correct: a payment is listed once, its nonce is fresh, and the listener learns
  in the end what was mined.

The hazards, each with its line and the properties that would notice it, are
listed in `PROJECT.json`; those that no property covers are under *Known
divergences* and *Not modelled* below.

## Modules

| module | models | state and actions |
|---|---|---|
| `ReplicatedKVStore` | the key-value store and the server as it uses it | `rows` is the table (a key's rows, the index is the version), `server` the server's entries, `pc`, `todo`, `listing`, `key`, `recorded`, `loc`, `got` the locals of the threads in `syncAllKeys`/`_syncKey`.  One action per SQLite operation, per request and per half of a read-then-write of the flag |
| `FileTransfer` | `Chatcarrier.streamScheme`/`doBulkWrite` and its handlers, the receiving half of `ElachatApp` | `stream` and `mState` are a phone's static fields, `pc`, `awaited`, `sent` the locals of a file's thread, `ss`/`rs` the states of its stream at both ends, `wire` what is on its way, `curfuid`, `activ`, `request`, `filetype` the receiver's fields, `shown` what its file's thread put down |
| `ChatStore` | the message tables of `Db`, the threads that fill them, an open `ChatActivity` | `history`, `rows`, `last` are the three tables, `curfuid` the field of `ElachatApp`, `pc` and `job` the threads, `view`, `start`, `registered`, `inbox` the conversation.  One action per SQL statement and per UI handler |
| `FriendBook` | `friend_list` in `Db`, the handler's friend callbacks, `FriendlistActivity` | `members`, `book`, `version`, `calls` are the library, `rowed` and `row` the table, `pc`, `taken`, `todo` `onCreate` on its way through `updateFriendList` and `refresh`, `listed`, `list`, `inbox` the screen.  One action per callback, per SQL statement and per UI handler |
| `CoreWallet` | `BRWallet.c` | `w` is the structure with the heights of its transactions, `op` what each caller is in the middle of, `mined` and `tip` the chain outside.  One action per stretch between two lock operations |
| `ChainSync` | `_peerRelayedBlock` and everything that moves `lastBlock` | `blocks`, `full`, `orphans`, `lastOrphan`, `lastBlock`, `estimated`, `filter` are the manager's fields, `saving` and `todo` the locals of a peer's thread, `saved` the application's storage.  One action per run of the handler, with a definition per branch |
| `PeerLink` | one `BRPeer` | `thread` is where its thread is, `pongs`, `mempool`, `waits`, `known`, `blocks`, `last`, `current`, `missing` the fields, `busy` the manager's lock.  One action per message handler, per call and per step of the thread's life |
| `PeerContract` | what `BRPeer.c` promises the manager | `phase` and `answer`: the abstract specification `PeerLink` implements |
| `PeerPool` | the manager's connections | `conn`, `download`, `failures`, `syncing`, `load`, and `job`: what each call does after it has released the lock.  Names it would share with `PeerLink` carry `Pool` or `Manager`, so that `PeerProofs` can extend both |
| `TxRelay` | publishing and relaying of transactions | `published`, `callback`, `relays`, `requests`, `timer`, `asked` (what was sent to a peer and waits for its answer).  One action per handler, with the callbacks it calls after the unlock |
| `EventHandler` | the event queue and its thread | `pending`, `handler`; its operators are used by `EthNode` |
| `EthNode` | the light node, its wallet and the server, composed with `EventHandler` | `txs`, `wallet`, `nonce`, `signing`, `raising`, `told`.  One action per stretch under `node->lock`, and per unprotected read or write of the nonce |
| `MC*` | constants and symmetry for TLC | |
| `*Proofs` | inductive invariants and theorems | |

How they fit together: a `PeerLink` is one of the peers of `PeerPool`,
`ChainSync` and `TxRelay`, which are three views of the one structure
`BRPeerManager` under its one lock, each with the fields its subject needs;
`CoreWallet` is what the last two call.  A view takes of the others what their
operations may do to it: `PeerPool` has blocks as a height, `ChainSync` the
wallet as heights, `TxRelay` both as `behind` and a state per transaction.
`EthNode` stands by itself with its `EventHandler`.  `FileTransfer` and
`ChatStore` meet in the thread of a received file: the former follows whose
friend `curfuid` names, the latter what a changing one does to the tables.

History variables are only read by properties: `clashed`, `overtaken`, `oldest`,
`missed`, `disturbed`, `fetched`, `raced` (Java), `rewound`, `met` (ChainSync),
`answer`, `relayed`, `skipped`, `given` (PeerLink), `stopped` (PeerPool),
`answered`, `told`, `claims` (TxRelay), `torn`, `told` (EthNode).  `former` of
`EthNode` is the network's past, from which late answers come.  `fault` of
`ChainSync` ends the process.

### ReplicatedKVStore

A set or delete of a client is two actions, as in `KVStoreManager`: it reads
the local version and later writes under it, and gets a conflict when the
version has moved on.  `_syncKey` is `Compare` (its entry), `ReadLocal`, one of
`Put`, `Del`, `Fetch` with `Store`, and `Record`; `RequestFails` stands for
every request that is refused or lost before it takes effect, the second half
of `Answered` for an answer lost after it did.

The server is external.  As the code uses it: version 1 creates a key,
otherwise `If-None-Match` has to be the current version; a DELETE leaves a
tombstone that is listed by `keys` and answered with 410; its clock is the
device's.  Encryption, the
loss of the encryption key and the race in `getInstance` are left out, and so
is the public `syncKey`, which has no caller.  The only caller of `syncAllKeys`
in the tree is `APIClient.syncKvStore`, behind a latch of its own; that two
calls overlap concerns the store's public interface, which guards against it
with `syncRunning`.

### FileTransfer

A thread per file runs `streamScheme`.  Whatever it does to "the" session goes
to the file the phone's statics name by then (`Current`).  The library is
external: a session is requested, replied to, started at both ends, connected
and closed; a stream is reliable, closing may cost what is under way.
`newSession` and `addStream` are one step.  A full send buffer (0x81000010)
makes the loop try the same bytes again, which is no step.  A thread that
writes, closes or requests when the session is in a wrong state gets an
exception: `Throws` and `WriteFails`.

`Wait` is the unconditional `wait()` at `Chatcarrier.java:330`.  `Notified`
models `notify()`: it wakes one of the waiting threads, and it makes a
difference only for the wait that has no timeout.

At the receiver `OnSessionRequest`, `ReplyRequest`, `Start`, `OnStreamData`,
`Closed` and `GetFile` are the handlers in their order, each reading the shared
fields as they are by then.  The file's thread reads `curfuid` anew for the
broadcast, the message and the row (`PutFromId`, `AddFriendMessage`,
`PutMsgListNew`), and a session request may come between any two.  Left out: files without
a byte, `createThumb`, and two files saved within one second (they would get
the same name).

### ChatStore

`AddFriendMessage` is the insert into `messagelist`; `QueryRow` and `PutRow`
the two statements of `putMsgListNew`; `CheckLast` and `RecordLast` those of
`addorupdatenewmessagelast`, which only `onFriendMessage` calls; `Notify` the
broadcast together with the receiver's choice of friend, `AlarmFails` the
exception of `startAlarm` before it.  Sent messages are stored by the UI thread,
files by their own, which have no friend of their own either: `SaveFile`,
`ReadFriend` and `ReadRowFriend` are the three places where such a thread reads
`curfuid` (`ElachatApp.java:371`, 374/379/385, 375/380/386), and `OnSessionRequest`
changes it at any time.  A thread therefore holds three friends: of its message
(`to`), of the row it puts (`row`) and of the broadcast (`tell`).  When the first
two differ, both friends count as `disturbed`: the one's list row does not show
the message, the other's shows one that is not his, until his next message.  `OpenChat`, `LoadFirst`, `Register`,
`OnReceive`, `LoadMore`, `Send` and `CloseChat` are the handlers of
`ChatActivity`; `Kill` is the end of the process, which keeps the tables.

Left out: the read flag, the contents of a message, more than one
`ChatActivity` at a time, and a database that stays locked.

### FriendBook

`Open`, `Register`, `GetFriends`, `WriteRow`, `Written`, `Refresh` are
`onCreate`: the receiver is registered, the library's list taken, each friend
inserted or updated (all of it when online, the status when offline), the table
read back.  `GetFriendsThrows` is the exception after which the old table is
shown; `StatusShown`, part of `FriendsAreCurrent`, promises nothing then.  Broadcasts are received when
`onCreate` has returned.  A query and the statement it leads to are one step:
the query only asks whether there is a row, only the UI thread inserts rows,
and nobody removes any.

The library is external: a friend's status and data are known to it while the
friend is online and the data afterwards; its callbacks come in the order of
the changes, each some time after the list has changed; data it learns is
announced; a new process starts with all friends offline and nothing known of
them.  `raced` marks a friend whose new data was stored while an older list was
still to be written over it: then the row stays old until the next
announcement or the next opening of the screen.

Left out: `FriendlistActivity.updateFriendInfo` (its only call is commented
out), more than one contact screen, a database error.

### CoreWallet

A transaction is a name with constant inputs and outputs; an address is a chain
and an index.  `Init` is `BRWalletNew` on any of `SavedLists`, loading one
transaction a step (`LoadTx`, `Loaded`).  `RegisterTransaction` inserts and
computes the balance under the lock; the two calls of `BRWalletUnusedAddrs`
that follow take the lock again (`Replenish`).  `RemoveTransaction` finds the
dependents, gives the lock back and calls itself for each (`RemoveStep`, with
`todo` for the recursion).  `UpdateTransactions` holds the lock over its whole
loop, of which each turn is an `UpdateTx`.  `Follows` is
`_BRWalletTxCompare`, `InsertTx` the insertion from the end, `UpdateBalance`
the loop of `_BRWalletUpdateBalance` as a function of the part of the array
that was walked; `Dependents` and `SetTxUnconfirmedAfter` search from the end
and stop where the code does.

Assumed: the transactions are finitely many, with outputs of natural amounts
(`TxAssumption`; `LastIndex` stands for the 2^32 indices of an address chain, and
sums of amounts do not overflow, because all coins together fit 64 bits); and of
what the application stored (`SavedAssumption`), that it holds each transaction
once, that those with a height were in blocks of one chain, and that all of them
are the wallet's by the addresses the new wallet has, which `BRWalletNew` verifies
for the first one.

The environment mines blocks with up to two transactions that the chain would
take, and reorganises; the peer manager reports both as it does in
`_peerRelayedBlock`.  Left out: building and signing payments, fees, timestamps
(a transaction that has the height may have the timestamp or not), queries, and
callbacks of the application.

### ChainSync

Blocks form a constant tree with heights; a peer may relay any of them at any
time, as a header or in full.  `Handle` is `_peerRelayedBlock` with its branches
in the code's order: `Ignored`, `Orphan`, `Refused`, `Extend`, `Existing`,
`DuringRescan`, `Fork`, `Reorganise`.  `Verified` and `Freed` are
`_BRPeerManagerVerifyBlock`, which checks a block and frees old ones; `Finish`
is the end of the handler, which goes on with an orphan.  A walk that reaches
`NULL` where the code follows the pointer, or reads freed memory, is `Fault`:
the process has ended and only `Restart` is possible.  Saving happens after the
lock is released (`SaveBlocks`).  `Restart` is `BRPeerManagerNew`.

Proof of work, targets and timestamps are constants of a block (`BadTarget`,
`Early`, `Recent`); `BLOCK_DIFFICULTY_INTERVAL` is the constant `Interval`.
Left out: the false positive rate and locators.

`met` records what the properties except: a rescan (`rescan`), one that left the
chain (`jump`), a block that follows one above `lastBlock` (`ahead`), a fork
that left what is kept of the chain more than an interval before the block's
last transition (`deep fork`, before a restart `deep before`), and a start from
stored blocks that are not of the chain the wallet knows (`stale start`).

Assumed of the constants (`TreeAssumption`): finitely many blocks with heights
that go up by one, checkpoints at transitions and one for each height.
`ChainsAssumption`: a chain has a transaction once.  `KeyTimeAssumption`: a
block that is relayed as a header, being a week older than `earliestKeyTime`
(`BRPeerManager.c:1188`), has no transaction of the wallet.  `Ancestors` is
written as the least set that goes on by `Prev`, and a walk through
`manager->blocks` as the part of it above everything that is missing: both are
what the code's loops compute, without recursion.  The names that `TxRelay` has
as well carry a `Chain`, `Wallet` or `Tx` before them, because `ManagerProofs`
extends both modules.

### PeerLink and PeerContract

The peer's thread opens its socket (over IPv6 and then IPv4), says hello, reads
and handles messages until the link fails, and then calls every callback that
is left (`DrainPongs`, `DropMempool`, `ClearMempool`) and reports.  The mempool
callback is called in one step and cleared in another, with no lock: one that is
set in between is cleared unheard.  The manager's calls happen
while it holds its lock (`busy`), the thread takes that lock only inside a
callback; so calls race with everything the thread does outside callbacks.
`HandOver`, `Forget` and `Disarm` are the three unprotected writes by which the
mempool callback is given to a ping.  The remote sends any message at any time.
Arrays are changed in one step each; what two threads do to one array at once is
undefined and left out.

`PeerContract` says what the manager relies on: connected at most once,
disconnected once and last, no callback called twice, success only while
connected, and no callback forgotten that was asked for before the link failed.
`PeerLink` implements it with `phase` and `answer` (`KeepsContract`).  A request
made while the callbacks are being drained may be missed; the contract calls it
`late`.

### PeerPool

`ConnectBegins`, `SyncStarted`, `SeedsAnswer` and `FindPeers` are the stretches of
`BRPeerManagerConnect` between its unlocks, run by the application and by the
thread of each peer that was lost (`job`).  The seeds answer with any of their
addresses or none, as `getaddrinfo` may fail.  A peer is `dialing`, `waiting` for
the network, `unborn` (its thread could not be created), `up`, `closing` (its
socket was closed, its thread has not noticed) or `lost` (its thread is about
to report).  `PeerConnected` chooses the download peer, `RelayedBlock`,
`FilterLoaded`, `MempoolDone` and `LoadFails` are the callbacks that end a sync,
`PeerDisconnected` counts failures and decides whether to reconnect.

Left out: fixed peers, timestamps and saving of addresses, `BRPeerManagerFree`.

### TxRelay

`asked` holds what was sent to a peer with a callback behind a ping; a peer
answers in order, or is lost and its callbacks are called with 0 (`Drain`).
`RelayedTx`, `HasTx`, `NotFound`, `RejectedTx`, `RequestedTx` are the handlers of
what a peer says of a transaction; `PublishListed` is `BRPeerManagerPublishTx`;
`GetdataDone` removes what nobody has.  `Connect` starts a sync without a download
peer and also beside one that is behind, with or without dialling;
`ConnectBeside` loads the filter and publishes if the chain has reached the
height the peer itself reports, which it may also while the download peer is
behind (`BRPeerManager.c:746-748`): the model has both then.  `PeerDisconnected` calls the callbacks
that wait.  `claims` are the transactions a peer may have: it was asked for them
and has not answered, or the last it said of them, outside a sync, was that it has
them.  What a peer says during a sync is not counted by the code, hence the
exception (see *Known divergences*).

Left out: timestamps that mark a transaction as verified, fees, updates of the
bloom filter, invalid transactions.

### EthNode and EventHandler

The node's lock makes a step of what runs under it: announcements
(`AnnounceTransaction`, `SubmitAnswered`) and creation.  Signing takes three
steps (`SignReads`, `SignWrites`, `SignEnds`) and an announced nonce two
(`AnnounceNonce`, `SetNonce`), because the account has no lock.  `txs` is
`node->transactions` (a tid is an index), `wallet` the sorted list of the wallet
that holds Ether; `Less` is `transactionCompare`.

The server is external: it has the transactions submitted to it, those of the
account's other devices and earlier processes, and incoming ones, mines them in
the order of the account's nonces, and answers what it is asked in any order,
late and again.  `Reorganise` takes the end of the chain back; what was in it may
be mined again in another block or never, and what the server said of it may
still arrive (`former`).  A transaction that is blocked already is skipped
(`BREthereumLightNodeAnnounce.c:373`) and keeps the block it has.  Events go
through `EventHandler`, whose `FindNone` and `Block` are the check and the wait
between which a signal is lost, because `eventQueueCreate` copies the handler's
mutex instead of sharing it.

Left out: tokens and logs, blocks, balances, gas, deletion of transactions,
more than one listener, stopping the handler.  `NoNonce` stands for
`TRANSACTION_NONCE_IS_NOT_ASSIGNED`, `UINT64_MAX` in the code; a node that has used up
all nonces below it signs no more (`SignReads`).

## Runs

| run | instance | checks |
|---|---|---|
| `kv_race` | two syncing threads, a writer, another device, one key | `RecordedIsSound`, `SyncNeverClobbers` |
| `kv_live` | one syncing thread, under fairness | `FlagIsReleased`, `EventuallySynced` |
| `ft` | two phones with a file each, two extensions, under fairness | `TypeOK`, `ReceivedIsPrefix`, `ShownFromSender`, `HandshakeCompletes` |
| `chat_list` | two friends, Carrier, one file thread, session requests, UI, three messages, pages of two | `TypeOK`, `ListIsSound`, `NoHoles` |
| `friends` | two friends, six events, the screen opened and closed, process killed | `TypeOK`, `FriendsAreCurrent`, `NeverForgets` |
| `wallet` | a foreign transaction, a payment from it, two that spend it, one of them locked; two callers; two blocks | `TypeOK`, `ListIsSound`, `ConfirmedIsRight`, `AccountIsSound`, `DependentsGoFirst` |
| `chain` | two branches of three and two blocks, one bad block, an interval of two, one peer, one rescan or restart | `ChainTypeOK`, `EnoughIsKept`, `HeightsAreRight` |
| `link` | two requests, two transactions, three blocks, two known hashes | `TypeOK`, `BlockIsComplete`, `SkippedIsKnown`, `KeepsContract`, `DisconnectEnds` |
| `pool` | two addresses, one of them a seed and higher; two calls of the application, two at once | `PoolTypeOK`, `DownloadIsConnected`, `NoDeadSync`, `SyncEnds` |
| `tx` | two peers, a payment and one that spends its change, one caller, two connections, one unasked message | `TypeOK`, `CallbackOnce`, `AnnouncedIsTimed`, `RemovedIsUnclaimed` |
| `eth` | a payment, one of another device, an incoming one, two mined, reorganisations that take the payment back, two calls | `TypeOK`, `ListedOnce`, `BlockedFollowChain`, `NonceIsFresh`, `ListenerCatchesUp` |

What they show:

* **`kv_race`, `kv_live`.** A live row marked with the server's current version has
  its value and no row claims a version the server never had; a value fetched
  from the server never overwrites a change the sync has not seen; the flag is
  given back, and both sides become equal when changes stop.
* **`ft`.** A session delivers a beginning of its own file unless the files of a
  phone overlap; it is stored, listed and told as its sender's unless another
  session was requested before all three were done; the handshake ends for a thread that sees every state.
* **`chat_list`, `friends`.** See *What makes it correct*; the exceptions
  (a friend for whom two threads store at once or a file was listed for another,
  data overwritten by an older list) are the named history variables.
* **`wallet`.** The wallet's array never holds a freed transaction and stays
  sorted by height; confirmed is what the chain confirmed, and it counts; the
  account is that of one future of the chain; a removal takes the dependents
  first, even when another thread registers one between its parts.
* **`chain`.** Freeing, saving and loading leave enough of the chain to walk it and
  to verify the next block; the wallet is told the main chain's heights, neither
  more nor less, through reorganisations of any length.
* **`link`.** `BRPeer.c` keeps its contract; a block is relayed after its
  transactions; announced blocks that were not requested are still found; a peer
  that is disconnected goes down.
* **`pool`.** The download peer is a connected one; no sync is left running when
  everybody is gone; a sync ends if links hold and the remotes answer, unless the
  exceptions of `Stuck` apply.
* **`tx`.** A caller hears once, and as long as it waits every peer it was
  announced to is under a timeout; a transaction is given up only when no
  connected peer was asked for it and has not answered, or said last, outside a
  sync, that it has it, or with a transaction it spends from.
* **`eth`.** A payment is listed once, shown in a block it is or was in, and sorted
  by that block through reorganisations; its nonce is fresh
  unless two unprotected writes hit each other; the listener hears in the end
  of everything mined.

One run finds what the code does against its own comment:

| run | property | what happens |
|---|---|---|
| `chain_rescan` | `NewBlockWaits` | a block that is a difficulty transition arrives during a rescan; checking it frees the blocks before the previous transition, `lastBlock` among them, before the branch is reached that would put the new block away until the rescan completes |

### Bounds

* Key-value store: one key, because `_syncKey` touches nothing of another key
  and the loop over keys shows in `todo`; `MaxRows` bounds local changes,
  `MaxRemote` the other devices' and lost answers, `MaxVersion` all writes (two
  overlapping syncers may put to each other without end), `MaxTime` the clock.
  Two local changes, two remote ones and two threads give every overlap of a
  sync with a change on either side; the theorems cover more.
* File transfer: a file of each phone is enough for every mix-up of the
  receiver's fields, which hold one of each; a file of several units in chunks of
  up to two has short, full and last writes.  Two files of one phone are covered
  by the theorems.
* Chat: three messages and pages of two give a first page, a second, shorter one
  and one beyond the end while messages arrive, and a friend who is listed for
  another's file and then sends a message that puts it right; three threads are all kinds there
  are.  Friends are interchangeable, hence the symmetry.
* Contacts: six events (added, comes, changes, goes) let one friend come and go
  twice with changed data while the other is written; the screen may be opened,
  closed and killed any number of times.
* Wallet: four transactions have a chain of three, a double spend, a locked one
  and a foreign parent; `MaxHeight` two gives a reorganisation that moves a
  transaction to another block.  `LastIndex` two is the highest index used in an
  output; chains grow beyond it.
* Chain: an interval of two has two transitions below the tip, which is what
  freeing needs; the branches part below one of them and the longer overtakes the
  other; `MaxRewinds` is one rescan or restart.  Only a one-peer instance is
  small enough; two peers' handlers are serialised by the lock and meet only in
  `todo` and `saving`.
* Connection: two requests are a ping and a mempool request, or two of either;
  three blocks, announced one and two at a time, make the list of known blocks
  overflow at `MaxKnown` two and part of it be cut.
* Pool: two peers, a failure limit of two and two calls of the application let
  peers be lost, replaced and dialled again while a call runs.
* Relay: `MaxLinks` bounds connections, `MaxNews` what is said unasked and the calls
  of `BRPeerManagerConnect` that dial nobody, so that a peer can be lost and come
  back once; a block confirms a transaction only after what it spends from;
  `Payments` is what is published, the one of the two that spends the other's
  change.
* Ethereum: `MaxChain` bounds what is mined; `Loose` names what a reorganisation
  may take back, from each place once: the user's payment, so that it is mined
  again in the same block, in the other one, or its nonce is taken by the other
  device's; `MaxCalls` bounds connects and disconnects,
  `NoNonce` (99, never reached) the nonces;
  an event that repeats the newest one queued about its subject is not queued
  again (`Enqueue`).

The deadlock check is off where the system may stop or the bounds are used up:
`FileTransfer` (all files handled), `ReplicatedKVStore` (bounds), `ChainSync`
(the process has ended and no restart is left), `PeerLink` (the peer was freed),
`PeerPool` (`BRPeerManagerDisconnect` may wait for ever), `TxRelay` (bounds) and
`EthNode` (a node left disconnecting, a handler that waits).  `CoreWallet`,
`ChatStore` and `FriendBook` never stop.

### Fairness

* `ReplicatedKVStore!FairSpec`: a thread in `syncAllKeys` goes on (it is never
  blocked, and requests time out), syncs are started again and again
  (`updatePlatform` is called whenever the application connects), and a server
  that is asked again and again answers at times (strong fairness on the
  requests).  Nothing is assumed of writers, other devices or the clock.
* `FileTransfer!FairSpec`: threads run, and the library goes on with a
  handshake both ends are in.  Data, closing and lost connections are not fair.
  `HandshakeCompletes` is stated for a thread that gets to see every state
  (`~Missed`): the code waits without a condition at line 330 and compares with
  exact states from 334 on, so a notification that comes too early makes it
  wait for ever.
* `PeerLink!FairSpec`: the peer's thread runs and the manager gives its lock back.
  The remote may fall silent, so reading is not fair.
* `PeerPool!FairPoolSpec`: running calls go on, and an attempt to connect ends by
  `CONNECT_TIMEOUT`.  That a connected peer answers is not part of it, because the
  code does not see to it; `SyncEnds` has two premises instead.  `LinksHold`: from
  some time on no link is lost, since a network that loses every peer again and
  again keeps a sync alive.  `RemotesAnswer`: the download peer goes on relaying,
  and filters and mempools are answered or the link is lost, since a silent peer
  keeps a sync alive too (see *Known divergences*).
* `EthNode!FairSpec`: the node's thread and the handler's thread run, a connected
  node's server answers about what was mined, and the thread that got an answer
  queues its event.  Users, faults and spurious wake-ups are not owed.

## Proofs

TLAPS proves, for all values of the constants allowed by the modules'
assumptions:

| theorem | statement |
|---|---|
| `ReplicatedKVStoreProofs!TypeCorrect` | `Spec => []TypeOK` |
| `ReplicatedKVStoreProofs!SkippingIsSound` | `Spec => []RecordedMeansEqual` |
| `ReplicatedKVStoreProofs!VersionsAreReal` | `Spec => []RecordedNotAhead` |
| `ReplicatedKVStoreProofs!RecordsAreSound` | `Spec => []RecordedIsSound` (both) |
| `ReplicatedKVStoreProofs!NeverClobbers` | `Spec => SyncNeverClobbers` |
| `FileTransferProofs!TypeCorrect` | `Spec => []TypeOK` |
| `FileTransferProofs!DeliveryIsFaithful` | `Spec => []ReceivedIsPrefix` |
| `FileTransferProofs!AttributionIsRight` | `Spec => []ShownFromSender` |
| `ChatStoreProofs!TypeCorrect` | `Spec => []TypeOK` |
| `ChatStoreProofs!ListShowsNewest` | `Spec => []ListIsCurrent` |
| `ChatStoreProofs!DuplicatesAreBounded` | `Spec => []ListedAtMostOncePerThread` |
| `ChatStoreProofs!ListIsRight` | `Spec => []ListIsSound` (both) |
| `ChatStoreProofs!PagesHaveNoHoles` | `Spec => []NoHoles` |
| `FriendBookProofs!TypeCorrect` | `Spec => []TypeOK` |
| `FriendBookProofs!ScreenShowsStatus` | `Spec => []StatusShown` |
| `FriendBookProofs!TableIsCurrent` | `Spec => []RowCurrent` |
| `FriendBookProofs!ContactsCatchUp` | `Spec => []FriendsAreCurrent` (both) |
| `FriendBookProofs!DataIsKept` | `Spec => NeverForgets` |
| `CoreWalletProofs!TypeCorrect` | `Spec => []TypeOK` |
| `CoreWalletProofs!ListStaysSound` | `Spec => []ListIsSound` |
| `CoreWalletProofs!ConfirmedStaysRight` | `Spec => []ConfirmedIsRight` |
| `CoreWalletProofs!AccountStaysSound` | `Spec => []AccountIsSound` |
| `CoreWalletProofs!DependentsGo` | `Spec => DependentsGoFirst` |
| `PeerProofs!TypeCorrect` | `Spec => []TypeOK` |
| `PeerProofs!ContractKept` | `Spec => KeepsContract`: `PeerLink` implements `PeerContract` |
| `PeerProofs!BlocksAreComplete` | `Spec => []BlockIsComplete` |
| `PeerProofs!SkippedAreKnown` | `Spec => []SkippedIsKnown` |
| `PeerProofs!PoolTypeCorrect` | `PoolSpec => []PoolTypeOK` |
| `PeerProofs!DownloadIsUsable` | `PoolSpec => []DownloadIsConnected` |
| `PeerProofs!NoSyncIsLeft` | `PoolSpec => []NoDeadSync` |
| `ManagerProofs!TypeCorrect` | `Spec => []TypeOK` |
| `ManagerProofs!CalledBackOnce` | `Spec => []CallbackOnce` |
| `ManagerProofs!WaitsUnderTimeout` | `Spec => []AnnouncedIsTimed` |
| `ManagerProofs!GivenUpIsUnclaimed` | `Spec => RemovedIsUnclaimed` |
| `ManagerProofs!ChainTypeCorrect` | `ChainSpec => []ChainTypeOK` |
| `ManagerProofs!EnoughStaysKept` | `ChainSpec => []EnoughIsKept` |
| `ManagerProofs!ConfirmedStaysOnMain` | `ChainSpec => []ConfirmedOnMain` |
| `ManagerProofs!HeightsStayRight` | `ChainSpec => []HeightsAreRight` |
| `EthNodeProofs!TypeCorrect` | `Spec => []TypeOK` |
| `EthNodeProofs!PaymentsAreListedOnce` | `Spec => []ListedOnce` |
| `EthNodeProofs!ListFollowsChain` | `Spec => []BlockedFollowChain` |
| `EthNodeProofs!NoncesAreFresh` | `Spec => []NonceIsFresh` |

Each follows from an inductive invariant (`IInv`, in `PeerProofs`,
`ManagerProofs` and `ChatStoreProofs` one per subject), with one lemma or step per action; the theorems `WalletInvariant`,
`LinkInvariant`, `PoolInvariant`, `RelayInvariant` and `ChainInvariant` state it for the C
modules.  The invariants and why they are needed:

* **Key-value store.** `RecordedMeansEqual` speaks of a row and the server; a
  sync that is half way carries copies of both.  `CarriedIsCurrent` says what
  these copies are worth: the row it read is the newest one unless the table has
  grown, the answer it holds is the server's value unless the server has moved
  on.  Then `Record` marks equal values, or values whose version is out of date.
  `FetchesAreDue` gives the action property: the row a fetching thread has read was
  listed as older, and no other thread can make a different row pass for it, since
  rows are only added and `Store` compares their number.
* **File transfer.** `ReceivedIsPrefix` needs `NothingMissing` (received, on the
  wire and sent fit together), which holds only while no other thread writes to
  the stream: `StaticsOwned` (the statics name a file of their own phone) and
  `RivalsClash` (two files of a phone under way at once have clashed) give that.
  `HandshakeBounded` keeps the handshake counter in its range.
  `ShownFromSender` follows from `CurfuidCurrent`: every session that is open
  or being saved and not overtaken has its friend in `curfuid`, at each of the
  three reads.
* **Chat.** `StoredAlone`: while a friend is undisturbed, the one thread that
  stores has the newest message, and what its query found still holds when it
  puts the row, which is then for the friend of the message.  `RowsCounted`: the rows of a friend and the threads about to
  insert one are together at most the threads; a thread joins them only while
  there is no row.  `NoHoles` has an invariant of its own, `ChatInv`: `PagesMeet`
  (the oldest row loaded is not newer than what the offset counts to now, since
  the table only grows, so the next page begins where the last one ended or
  overlaps it) and `MessagesFresh` (a message that a thread still holds is in one
  friend's history only, so that a broadcast the conversation ignores is none
  of its own).
* **Contacts.** `CallsTrueOf` and `ToldTrue`: the last call, then the last
  broadcast, about a friend says what the library says.  `StatusOnTheWay`
  follows the status from the list that was taken through the row to the
  screen, for friends of whom nothing is under way; a call that is made turns
  into a broadcast, which is why the receiver has to be registered before the
  list is taken.  `DataTrueOf` and `DataKept` do the same for the data, and
  `KnownOnline` (a friend who is online is known) gives the action property.
* **Wallet.** `ListFits` is what every search in the array relies on: each
  transaction once, by height, known, with the height it has in the chain
  (`MinedAgree`: two of the chain never conflict).  `ListIsOwn` keeps
  `UpdateTransactions` from freeing what is listed; it holds because
  addresses are only added and what a listed transaction spends from is not
  removed before it, and while the wallet is being loaded `LoadIsOwn` stands for
  it.  `TodoIsMined` says that what an update is about to set is the chain's.
  `AccountIsKept` is the account: what was walked last is still what a walk
  would find, except that between `UpdateTransactions` and the walk it ends
  with a transaction that has just been confirmed may not count yet.
* **Connection.** `PhaseTrue` ties the status to what the manager was told;
  `PongsAsked`, `MempoolAsked` and `AskedWaits` say that the pings and the mempool
  request that wait are exactly the requests without an answer, each in one
  place, except while the mempool callback is handed over to a ping.  From them
  every step is one of the contract's or a stutter.  `BlockUnderway`: what the
  block being completed needs was known, has come or is missing.  That the
  list of known blocks keeps what was skipped rests on its length and the
  third that is cut.
* **Block chain.** `NextIsValid` needs `Rooted`: the walk back from `lastBlock`, and
  from every checkpoint before it, since a rescan may start there, ends at a
  transition; then the walk from the next transition meets the one before it.
  It holds because what a checked block frees ends just before a transition of
  the same chain (`CutClean`).  `NoFault` needs `ForksAreKept` (what a kept fork
  has in common with the chain, its own walk meets) and `NothingHigher` (but for
  checkpoints nothing kept is higher than `lastBlock`), while no rescan is under
  way: so both walks of a reorganisation reach the block where the chains part.
  `ConfirmedOnMain` is inductive by itself.  `MainIsConfirmed` is not, because
  of a rescan and of a restart: `AncestorsConfirmed` states it of all blocks
  before `lastBlock` and of those that were stored with their hashes and that
  the next start may load (`Loadable`), or are about to be stored.  For these
  `HashesKept` says that they have their hashes as long as they are kept: a
  reorganisation that comes back to them confirms them again.  The lemmas about
  `Walk` (`WalkAbove`, `WalkOn`, `WalkFrom`, `WalkUnfold`, `WalkEnds`), which
  every step needs, follow from those about `Ancestors`; that of finitely many
  blocks one is highest follows from the well-foundedness of inclusion
  (`HighestIs`).
* **Connections.** `SyncIsTended`: a sync without a peer is one for which a call
  is about to connect or to look for peers.  `LimitIsHeeded`: once the failures
  reach the limit, a sync without a download peer goes on only if somebody is
  about to connect, who counts anew.  Without the latter the failure that ends
  the last call could leave the sync behind.
* **Relay.** `CallsInOnePlace`: a waiting callback is that of a call that was made
  and not answered, in one entry only.  `ToldIsListed`: a peer was told only of
  what is listed.  `ClaimsAreListed`: what a peer may have is in its relays or
  requests, which `_requestUnrelayedTxGetdataDone` looks at.  The dependents
  that go with a removed transaction are the least set closed under spending.
* **Ethereum node.** An announcement is looked up by its hash and, failing that,
  among the node's own by its nonce; what is not found is taken for new.
  `SubmittedAreHeld` (what reached the network is held here, under the nonce it has
  there), `MinedAreSubmitted` (the chain, now or before a
  reorganisation, has nothing of this node's payments but that) and `UnhashedAreDrafts` (what has no hash yet was made here) say that it
  then is new, hence `ListedOnce`.  `NoncesAssigned` keeps a nonce from being
  assigned twice while signing is in its steps.  What is blocked is in one of
  `Places`, which a reorganisation only adds to (`ReorganiseKeeps`).
  The list stays sorted because `walletInsertTransactionSorted` puts a transaction
  behind the last that is not greater, and what `walletUpdateTransactionSorted`
  takes out leaves the rest in order.

What the models compute along an array or over a set (the account, the sum of
amounts, the dependents) is written as a recursive function and reasoned about by
the least number for which a claim would fail: `LeastNumber` in
`CoreWalletProofs` and `EthNodeProofs` and `UpTo` in the former follow from the well-foundedness of the natural numbers and
replace the induction theorems of the library, which take an operator as a
parameter and cannot be used with the installed provers.

Only model-checked: the liveness properties (`FlagIsReleased`, `EventuallySynced`,
`HandshakeCompletes`, `DisconnectEnds`, `SyncEnds`, `ListenerCatchesUp`), which are
out of TLAPS's reach, and `chain_rescan`, which shows a violation.  Every other
property of a passing run is a theorem.

## Known divergences

Where the code does something else than its comments, names or callers say.  The
first is shown by a run; the others were met while modelling, are modelled as
the code has them, and are kept out of the properties by the named exceptions.

* **A new transition block during a rescan** (`BRPeerManager.c:1113`, `1232`; run
  `chain_rescan`), see above.
* **Forks from long ago** (`BRPeerManager.c:1295-1300`): the walk to where a fork
  joins the main chain ends at `NULL` when what is freed lies in between, and the
  next line reads `b->height`; when only the walk from `lastBlock` ends, the loop at
  1306 is not entered and no transaction of the new chain gets a height.  A block
  that is relayed again after the chain freed its height makes the walk at
  1259-1260 end at `NULL`, which `BRMerkleBlockEq` reads.  Both take a fork that
  left the chain before the transition that precedes the block's last one
  (`Deep`); the properties except them by name.
* **Publishing a listed transaction** (`BRPeerManager.c:228`): a second
  `BRPeerManagerPublishTx` of a transaction that is already listed drops the new
  callback, which is never called.  `CallbackOnce` says at most once.
* **Unknown transactions count as relayed** (1427): a peer that asks for a
  transaction is added to its relays whether it is known or not; `txRequests`
  (825-838) keeps peers that are gone, and a pointer that is used again for
  another peer makes it look asked.
* **Publishing during a sync** (459, 966; comment at 466): "don't remove
  transactions until we're connected to maxConnectCount peers, and all peers have
  finished relaying their mempools".  `_publishTxInvDone` requests what is
  unrelayed, and the ping behind that request marks the peer as synced before its
  mempool was asked for; what a peer relays during the sync is not counted while
  its request is cleared.  A transaction that a connected peer has can be
  removed.  `RemovedIsUnclaimed` counts only what was said outside a sync.
* **Removed transactions** stay in `allTx` and `BRWalletRegisterTransaction` does
  not take them up again when they are relayed after all.
* **`BRPeerManagerDisconnect` may wait for ever** (1674): a peer that waits for the
  network or whose thread could not be created never leaves the list; and a peer
  that connects meanwhile resets the failure count (749, 796) and is followed by
  reconnections (856, 883).  `SyncEnds` and `NoDeadSync` except a stopped pool.
* **The copied mutex** (`ethereum/event/BREventQueue.c`, `BREvent.c:175`): a signal
  may wake nobody until the next event.  `ListenerCatchesUp` holds because the
  node polls again.
* **Silent peers** (`BRPeerManager.c:748-757`, 795-798): only the download peer of a
  sync that is behind has a timeout.  A peer that is connected beside, or when the
  chain is complete, is asked for its filter's ping and its mempool without one,
  and `_mempoolDone` of a peer beside (556-559) calls `_BRPeerManagerSyncStopped`,
  which cancels the download peer's timeout (218) although it may be behind.  A
  peer that falls silent then leaves the sync on for ever.  `SyncEnds` has the
  premise `RemotesAnswer`.
* **Reorganisations of Ethereum** (`BREthereumLightNodeAnnounce.c:373`): a
  transaction that is already blocked is not blocked again, so one that is mined in
  another block after a reorganisation, or no longer mined at all, keeps its
  block and its place in the list, and the listener is told of confirmations.
  `BlockedIsMined` excepts exactly that (`former`).
* **The friend of a file** (`ElachatApp.java:371-386`): the thread that saves a
  received file reads `curfuid` for each of its statements, and the next session
  request replaces it (305): the file may be stored under one friend, listed under
  another and broadcast to a third.  `ShownFromSender` and `ListIsSound` except it
  (`overtaken`, `disturbed`).
* **`lightNodeDisconnect`** before the node's thread has run is overwritten
  (`BREthereumLightNode.c:176`), and of a node that is not connected leaves it
  disconnecting for ever (259).
* **Nonces** (`BREthereumAccount.c:157`): two unprotected writes can set the nonce
  back; `NonceIsFresh` excepts exactly that (`torn`).  After a restart the nonce is
  0 until the server announces it, and a transaction of another device with the
  nonce of a payment held here marks that one as mined (`Settles`).
* **`syncRunning`** (`ReplicatedKVStore.java:613-650`): of two overlapping syncs the
  first to end clears the flag, and the other runs into "how did we get here?"
  (481).
* **"if their last-modified date is newer than ours"** (479): recording a server
  version renews the row's time (716), so an older local value may win.
* **The deleted flag** (586): a newer value is stored under the old flag and stays
  hidden; the branch for remote tombstones (549) cannot be reached.
* **`checkmessagelast`** (`Db.java:592`, comment at 553): the last message of a
  second friend is an update of no row.
* **Waits of the file transfer** (`Chatcarrier.java:330`): see *Fairness*; the
  extension travels beside the session and a file may be stored before it comes
  (`ElachatApp.java:361`).

## Plan

1. The composition of `PeerPool` with `PeerContract` for its peers.
2. `BRWalletCreateTxForOutputs` in `CoreWallet` (coins chosen while others are
   registered), tokens in `EthNode`.
3. `FriendRequests` (`newfriendlist`, requests that come again, their acceptance
   and its failure), `ElaWallet` (create, publish, cache, refresh, wipe),
   `PlatformUpdate` (the latch of `updatePlatform`), `KVClients` over an abstract
   versioned register.

## Not modelled

*Java.* Screens, layout, emoji, recording and playback; DID, dapps and settings
(single calls); exchange rates, formatting and preferences; the Android key
store.  `Db.checkfriend` (523-537) loops for ever on a known friend; it has no
caller.  The store methods of `Db` return the opposite of what they mean to
(`rs != -1` is returned as false); nobody reads the result.

*C.* Most of it by length is not control but data: the vendored library secp256k1
and the keys, addresses and encodings above it are functions of bytes whose
correctness is arithmetic; the word list, the checkpoints' table and the table of
tokens are constants; the JNI layer converts arguments around one call each;
`test.c` is test code; the LES client under `ethereum/les` is not compiled in
(`src/app/CMakeLists.txt`).  Parsing and serialising of messages, transactions,
blocks and RLP, big-number arithmetic, bloom filters and merkle trees are pure;
the models take what they compute (a transaction's inputs and outputs, a block's
matched transactions, a message that is good or bad) and leave out how.  What is
modelled is the code that keeps state across calls and threads, which is a
small part of the lines: `BRPeerManager.c`, `BRPeer.c`, `BRWallet.c` and the
light node.
