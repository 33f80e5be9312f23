# A TLA+ model of the Wesharish wallet core

The repository is an Android wallet. Its own logic is the C library under
`src/core/Java/Core/src/main/cpp/core`: a bitcoin-style SPV wallet (`bitcoin/`, with the
parameters of `bcash/`) and an Ethereum light client (`ethereum/`), on shared helpers
(`support/`). The Java and JNI code wraps C objects one to one, and the Android application is
user interface. This directory holds TLA+ modules translated from the C code, the TLC
configurations that check them and proofs for TLAPS.

All paths below are relative to `src/core/Java/Core/src/main/cpp/core`.

## 1. The system

| Component | State | Operations | Hard behaviour |
|---|---|---|---|
| `bitcoin/BRWallet.c` | list of wallet transactions, set of all registered ones, balance caches (UTXOs, spent outputs, invalid, pending), address chains, best height | register, remove, update heights, unconfirm after a height, unused addresses, balance | called from every peer's thread and from the application; the mutex is released before callbacks and inside the recursive removal |
| `bitcoin/BRPeerManager.c` (chain) | block set, orphans, tip, estimated height | relayed block, rescans, start from saved blocks | several peers in any order, forks, blocks freed to save memory, recursion after the unlock |
| `bitcoin/BRPeerManager.c` (network) | peers, download peer, bloom filter, published transactions, relay counts | connect, disconnect, relayed transaction, publish, filter update, sync start/stop | timeouts, pongs that confirm earlier messages, callbacks that must come exactly once |
| `bitcoin/BRPeer.c` | one connection: handshake, ping queue, mempool request, merkleblock under assembly | one handler per message, timeouts | callback queues shared by two threads |
| `bitcoin/BRWalletManager.c`, `support/BRFileService.c` | the files of blocks, peers and transactions | save, remove, clear, load | crash between clearing and writing, order of callbacks |
| `bitcoin/BRMerkleBlock.c`, `BRTransaction.c`, `BRBloomFilter.c`, `support/BRSet.c` | none, or one data structure | pure algorithms | boundaries |
| `ethereum/event` | queue of pooled events, handler thread, alarms | enqueue, dispatch, alarm, stop | stop racing dispatch, queue order |
| `ethereum/bcs` (slice) | chain of block headers, orphans, what was asked for each block, transactions of the account | announcement, sync, one handler per kind of answer, submit | answers in any order or never, reorganisations |
| `ethereum/bcs` (sync) | tree of ranges, the request that is out | start, answer, failure, stop | boundaries of ranges, progress told from several places |
| `ethereum/les`, `ethereum/ewm` | requests and nodes, transfers and nonces | submit, retry | retries, replaced transactions |

How they interact. Each `BRPeer` runs a thread that reads its socket and calls the peer
manager's handlers (`_peerConnected`, `_peerRelayedTx`, `_peerRelayedBlock`, ...). These take
`manager->lock` and call the wallet, which takes `wallet->lock`. The wallet and the peer manager
report to the wallet manager by callbacks, after their locks are released (`txAdded`,
`txUpdated`, `txDeleted`, `balanceChanged`) or while they are held (`saveBlocks`), and the wallet
manager writes files. At a start the files are given back to `BRWalletNew` and
`BRPeerManagerNew`. Pongs carry continuations: a ping sent after a message comes back when the
remote node has handled that message.

On the Ethereum side every part has an event handler: a queue and a thread that dispatches its
events. One alarm clock, shared by all, sends the handlers their timeouts. The slice (`bcs`) runs on
its handler's thread: announcements and answers of the LES client, the timeout, and events it sends
to itself. A sync hands the slice runs of headers; the slice decides what they do to its chain and
asks LES for bodies, receipts, accounts and proofs. The wallet manager (`ewm`) owns a handler, and
starts and stops it and the clock from the application's threads.

What makes the parts correct:

* wallet: the list is sorted and owned, no output is offered twice, of two conflicting
  transactions one counts, the balance is what the unspent outputs are worth, removals take their
  dependents, every call returns;
* chain: the highest branch wins, transactions carry the heights they have on it, orphans are
  relayed when their parent comes, the chain can always go on past the next difficulty transition;
* network: one answer for each publish, `syncStopped` after each `syncStarted`, a dropped filter is
  reloaded;
* persistence: a start that can read its files misses nothing below its tip and loses little of the
  chain, wherever the crash came;
* events: the queue keeps its order and its records, a due alarm fires, an event whose signal was
  lost is dispatched after the next timeout, no timeout reaches a stopped handler;
* sync: every block that changes the account is found, progress goes forward and is told once, every
  sync ends;
* slice: the chain stays linked, the transactions of its blocks are known, those that are not
  settled are asked for.

`PROJECT.json` lists all components, also those left out, and under "hazards" the lines where a
test would hardly reach what can go wrong.

## 2. Modules

| Module | Models | Used by |
|---|---|---|
| `Wallet` | `BRWallet.c` and the transaction callbacks of `BRWalletManager.c` | `MCWallet`, `WalletProofs` |
| `BlockChain` | the part of `BRPeerManager.c` that decides what happens to a block | `MCBlockChain`, `BlockChainProofs` |
| `PeerManager` | the rest of `BRPeerManager.c`, with the threads and pings of `BRPeer.c` | `MCPeerManager`, `PeerManagerProofs` |
| `Persistence` | `BRWalletManager.c` with `support/BRFileService.c`, and what drives them | `MCPersistence`, `PersistenceProofs` |
| `EventQueue`, `AlarmClock` | `ethereum/event/BREventQueue.c`, `BREventAlarm.c` | `EventHandler` |
| `EventHandler` | `ethereum/event/BREvent.c`; connect, disconnect and destroy of `ewm/BREthereumEWM.c`; composes the two above | `MCEventHandler`, `EventHandlerProofs` |
| `EventDeque` | abstract: a double-ended queue for each handler | implemented by `EventHandler` |
| `SyncFeed` | abstract: what a sync promises the slice | implemented by `SyncRange`, used by `BlockChainSlice` |
| `SyncRange` | `ethereum/bcs/BREthereumBCSSync.c` and `bcsSync` | `MCSyncRange`, `SyncRangeProofs` |
| `BlockChainSlice` | `ethereum/bcs/BREthereumBCS.c`, the block status of `blockchain/BREthereumBlock.c` | `MCBlockChainSlice`, `BlockChainSliceProofs` |
| `MC...` | small instances for TLC | the `.cfg` files |
| `...Proofs` | theorems about the module of that name, section 4 | |
| `BasicLemmas` | facts about numbers, sets and sequences | the proofs |

`PROJECT.json` ("map") gives the lines of every definition. A definition whose comment begins with
"mutant" is a plausible mistake in the definition that follows it, not part of the model.

### Wallet

State. `transactions`, `allTx`, `blockHeight`, `balance` are the fields of the same name;
`height` and `timestamp` are fields of the transactions; `cache` holds what
`_BRWalletUpdateBalance` clears and rebuilds; `chain` the lengths of the two address chains, which
stand for the keys in `allPKH`. `stored` and `shown` are what the callbacks have written and shown.

Steps. `lock` is `wallet->lock`. A call that does one thing under the lock is one step; the two
loops under the lock take a step per iteration (`UpdateStep`, `BalanceStep`), so their locals
`upd` and `bal` are variables. What a call has left to do after the unlock is a stack of frames
`calls[th]`: the recursive calls of `BRWalletRemoveTransaction`, the two calls of
`BRWalletUnusedAddrs`, the callbacks, the return. Other threads may run between any two of them.

| Code | Definitions |
|---|---|
| `_BRWalletTxIsAscending`, `_BRWalletTxCompare`, `_BRWalletInsertTx` | `SpendsLater`, `TxIsAscending`, `LaterInChain`, `TxComparesAfter`, `InsertPositions`, `InsertTx` |
| `_BRWalletContainsTx` | `OwnOutputs`, `ContainsTx` |
| `_BRWalletUpdateBalance` | `BeginBalance`, `BalanceSkipInvalid`, `BalanceSkipPending`, `BalanceCount`, `BalanceDone` |
| `BRWalletUpdateTransactions` | `UpdateTransactions`, `UpdateSkip`, `UpdateSet`, `UpdateDone` |
| `BRWalletSetTxUnconfirmedAfter` | `TailAfter`, `SetTxUnconfirmedAfter` |
| `BRWalletRegisterTransaction` | `RegisterTransaction`, `AddedFrames` |
| `BRWalletRemoveTransaction` | `RemoveTransaction`, `Dependents`, `RemoveDependents`, `RemoveListed` |
| `BRWalletUnusedAddrs` | `ChainLength`, `UnusedAddrs` |
| `BRWalletTransactionIsPending`, `...IsValid` | `TransactionIsPending`, `TransactionIsValid` |

`PendingByItself` is shared by the balance loop and the query, which spell the same conditions
twice. The recursion over ancestors is a function with a counter bounded by the number of
transactions: no chain of distinct parents is longer.

### BlockChain

State. `blocks` maps the hash of every block in `manager->blocks` to its `prevBlock`; a checkpoint
is added by `BRPeerManagerNew` without one. `orphans` has at most one block per `prevBlock`.
`next[p]` is the orphan which the thread of peer `p` relays next, after it has released the lock.
Of the wallet only the height of each transaction is kept, as a set with at most one element
(`confirmed`); why clearing all heights above a join point is what the wallet does is
`SortedByHeight` and `ConfirmedBelowTip` of module `Wallet`. `base` is a history variable. The loops
that follow `prevBlock` are sets: `Walk(B, b)` is what a walk back from `b` through the block set `B`
visits, and `Restored` the saved blocks that `BRPeerManagerNew` can chain.

Steps. `_peerRelayedBlock` runs under `manager->lock` and is one step with one disjunct per case
of the code: `IgnoreUnfiltered`, `Orphan`, `Refuse`, and under `Accept` the cases `Extend`,
`Existing`, `MinedDuringRescan`, `OldFork`, `Fork`, `Reorganize`. `VerifyBlock` frees blocks
(`Pruned`) as a side effect, also for a block it then refuses. Saving the blocks is part of the
step, and `Save` only ever adds to `saved`. `BRPeerManager.h:54` says "remove any previously saved
blocks first", but `fileServiceClear`, which is to do that, calls `remove` with the name of a directory
entry and not its path (`BRFileService.c:450`), and removes nothing (`Cleared` of module `Persistence`).
So a restart finds the blocks of all saves, those of abandoned branches too, and starts from the highest
transition among them (`LastTransition`). `PeerConnected`, `PeerDisconnected`, `FilterExhausted`,
`UpdateFilterPingDone` and the rescans set what the cases depend on. `Restart` may happen in any state.

A peer may send any block at any time. `UpdateFilterPingDone` may come at any time a peer is
connected: the exchange of pings that leads to it belongs to the network part, and here it can only
happen more often than in the code. The difficulty check is the constant `Rejected`: the main
network's check in this repository returns 1 before it looks at anything, the one of `bcash` does
compute.

Two values of `failed` stop the behaviour. `"assert"`: a failed `assert` (they are compiled in).
`"freed"`: `VerifyBlock` freed the block `lastBlock` points to, which the next line reads; what
happens then is undefined and not followed.

### PeerManager

State. `conn[p]` is the `BRPeer` of an address in `connectedPeers` together with its thread: its
`state` (not there, waiting for the network, starting, handshake, connected, closed by us, ended,
waiting for the thread to be collected), the pong callbacks in order, the mempool request, the flags
and the transactions announced to it. The fields of the manager have the names of the code; `sync`
stands for `syncStartHeight > 0` and the chain is its `height`. `called` counts the calls of each
publish callback.

Steps. An action is one section under `manager->lock`. Where a function releases the lock and goes on
(`BRPeerManagerConnect`, `BRPeerManagerDisconnect`, `BRPeerManagerPublishTx`, `_peerDisconnected`,
which reconnects after it has released the lock), the rest is a continuation in the bag `conts`:
several threads can be at the same one, and others run in between.

| Code | Definitions |
|---|---|
| `BRPeerManagerConnect`, `_BRPeerManagerFindPeers` | `Connect`, `ConnectBegins`, `ConnectPeers`, `AddPeers`, `FoundPeers` |
| `_peerConnected`, `_peerDisconnected` | `PeerConnected` (`Best`, `Chosen`), `PeerDisconnected` (`DownloadPeerAfter`, `Misbehavin`) |
| `BRPeerManagerDisconnect`, `_peerThreadCleanup` | `Disconnect`, `DisconnectWaits`, `DisconnectEnds`, `ThreadCleanup` |
| filter update: `_BRPeerManagerUpdateFilter` and three pong callbacks | `UpdateFilter`, `UpdateFilterPingDone`, `UpdateFilterLoadDone`, `UpdateFilterRerequestDone` |
| `_BRPeerManagerLoadMempools`, `_loadBloomFilterDone`, `_mempoolDone`, `_requestUnrelayedTxGetdataDone` | `LoadMempools`, `LoadBloomFilterDone`, `MempoolDone`, `RequestUnrelayedTxDone` |
| `_peerRelayedTx`, `_peerHasTx`, `_peerRequestedTx`, `_peerRejectedTx`, `_peerDataNotfound` | `RelayedTx`, `RelayedOther`, `HasTx`, `RequestedTx`, `RejectedTx`, `DataNotfound` |
| `BRPeerManagerPublishTx` | `PublishTx`, `PublishTxGoesOn` |
| `_peerThreadRoutine`, `_BRPeerAcceptPongMessage` of `BRPeer.c` | `SocketOpens`, `PeerTimesOut`, `PeerCloses`, `PeerFails`, `Dying`, `Pong`, `MempoolAnswered` |

A pointer to a freed peer (the `peer` of a filter update whose download peer has changed) makes its
flags arbitrary.

### Persistence

State. `files` maps each transaction, block and peer to the content of its file, `Absent` or `Torn`.
`todo` holds the calls of the file service that an actor still has to make, `open` what it will
write into the file it has just truncated. Everything else is the part of the wallet and of the
peer manager that decides what is saved. `durable` (the last transition block whose save was
complete) and `loadFailed` are history variables.

Steps. A save is two steps: `SaveOpens` truncates, `SaveCloses` fills. `Crash` may come between any
two steps, and leaves the file that was open torn. `SaveFails` runs the error handler, which for a
callback made under `manager->lock` waits for that lock for ever. `Removes` and `Cleared` follow
`fileServiceRemove` and `fileServiceClear`; the latter removes nothing, because it passes `remove` the
names it reads from the type's directory without that directory's path (`BRFileService.c:450`): files
are only replaced. `Start` reads the files, and starts from nothing if one of the three kinds is
unreadable.

### EventQueue, AlarmClock, EventHandler

`EventQueue` has the two linked lists of records as a value (`pending`, `available`, `next`,
`event`), one operator for each operation, each under `queue->lock` in the code. `AlarmClock` has the
sorted list of alarms and the clock's thread: `ClockBegins`, `ClockTimesOut`, `ClockWakes`,
`ClockExpires`, `ClockReinserts`. A wait that has timed out must still take the lock; in between the
list can change. `EventHandler` adds the handler's thread (`ThreadLocks`, `ThreadTakes`,
`ThreadDispatches`, `ThreadIdles`, `ThreadWaits`, `ThreadQuits`) and the calls of the application,
each as the sequence of steps it has still to take (`Program`): locks taken and released, alarm added
or removed, thread started, joined, queue cleared. A signal that comes before the wait is lost, as
with a condition variable.

`EventDeque` is what `BREvent.h` promises: events wait in a sequence, a signal appends, an
out-of-band signal prepends, the thread takes the first, a stop drops all. `QueueIsDeque` says that
the contents of the linked lists, read from `pending`, behave so.

### SyncFeed, SyncRange

`SyncRange`: a tree of ranges worked off depth first, one request at a time; `todo` is the sequence
of the leaves that remain. `Plan` splits the root as `syncRangeCreate` does, `SmallHeaders`,
`NAryHeaders` and `NAryAccounts` are the answers, `Fails` a failure, `SyncAgain` and `SyncStops` the
calls of the slice. `ToldAt` is when the client hears of progress. Block numbers are `uint64_t`: the
adjustment of the tail is taken modulo `WordSize`.

`SyncFeed`: while a sync is under way it hands over runs of consecutive headers in ascending order;
it ends early, or with a gapless run of `RequestMax` headers up to its head. `SyncIsFeed` says that
the ranges do this. `BlockChainSlice` takes its sync from the same module, so the two are composed
through the abstract specification.

### BlockChainSlice

State. `bcs` is the struct: the chain as `chain`, `chainTail` and the `next` pointers, `orphans`,
`blocks`, what was asked for each block and whether it was answered (`request`), the transactions
with their status, the pending ones. `signals` is the part of the handler's queue that the slice
fills itself.

Steps. Everything runs on one thread: an action is one dispatched event. `HandleAnnounce`,
`HandleStatus`, `HandleBlockHeaders` (one header after the other, `ExtendChainIfPossible`, then what
is asked for, `Request`), `Arrives` (`WithBody`, `WithReceipts`, `WithAccount`), `ProofArrives`
(`WithProof`), `NotAnswered`, `SyncReports`, `SyncFails`, `PeriodicDispatcher`,
`HandleTransactionStatus`, `HandleSubmitTransaction`, `HandleSignal`. `ExtendChainIfPossible` has the cases of the code: orphan
(`Orphaned`), a first block or one far ahead (`Adopt`), a block whose parent is on the chain, which
turns what is above into orphans (`Unchained`), chains orphans (`ChainOrphans`), drops old ones
(`PurgeOrphans`) and reclaims the tail (`ReclaimAndSave`). A failed `assert` sets `failed`, and
nothing happens any more. A proof is asked for by block number (`BREthereumBCS.c:1354`, 1583, 1826) and
answered with the hash of the block that the node's chain has there (1638-1640): in `ProofArrives(b, c)`
the proof that was asked for `b` makes `c` valid, any block of the same number, or fails the assertion
when `c` waits for none, and `b` goes on waiting. The requests that LES has are a set: two equal ones,
which a block that was reclaimed and fetched again can have made, are answered once.

## 3. Runs

| Run | Bounds | Properties |
|---|---|---|
| `wallet_seq` | one thread; a payment `a`, a change-making spend `b` (locked until time 21) and a replaceable conflicting spend `c`; heights 1, 2; times 20, 21; up to two transactions in a block | `TypeOK`, `SortedByHeight`, `ListedAreRegistered`, `ConfirmedBelowTip`, `SpendableIsUnspent`, `OneSpenderCounts`, `ConfirmedCounts`, `BalanceAddsUp` |
| `wallet_threads` | two threads; `a` and its spend `b`; one height | `ListedIsStored`, `RemovalTakesDependents`, `CallsReturn` |
| `chain_sync` | two peers (heights 4 and 6), twelve blocks on four branches, difficulty interval 2, a block that is refused and one that contradicts a checkpoint | `TypeOK`, `MainChainConfirmed`, `ConfirmedOnMainChain`, `HighestChain`, `OrphansWait` |
| `chain_rescan` | one peer, nine blocks on two branches, one rescan (from any of the code's starting points), two restarts | `TransitionReachable`, `MainChainConfirmed` |
| `network` | two peers (chains of height 1 and 2), one connection at a time, give up after 2 failures; one each of connect, disconnect, rescan and loss of the network | `TypeOK`, `SyncEndsUnlessAbandoned`, `DisconnectReturns` |
| `publish` | two peers, two connections, one transaction: one publish, one message out of turn | `DownloadPeerIsConnected`, `CalledOnce` |
| `persistence` | five blocks above the checkpoint, interval 2, a transaction in a transition block and one at the tip, one peer; two crashes, one rescan, one failed save | `TypeOK`, `NothingMissed`, `ListedOnDisk`, `StartNotBehind` |
| `events` | one manager with its owner's thread and a second one that signals and connects; two connects, time 0..1, a pool of one record | `TypeOK`, `CellsOwned`, `OneAlarmPerThread`, `QueueIsDeque`, `DueAlarmFires`, `LateEventsAreDispatched` |
| `sync` | numbers 0..14, any one or two changes of the account, syncs of every length from 0 and two others, up to two syncs | `ProgressAscends`, `SyncMissesNothing`, `SyncIsFeed`, `SyncEnds` |
| `slice` | six blocks with a fork above the starting block, one transaction on both branches; six combinations of announcements, syncs, failures, a submission and unanswered requests | `ChainLinked`, `NonFinalIsPending`, `ChainedTransactionsKnown` |
| `wallet_tip`, `network_filter` | as small as the case needs | one property each, violated: section 5 |

`HighestChain`, `ConfirmedOnMainChain` and `OrphansWait` are claimed for programs that do not rescan:
a rescan moves the tip below known blocks and confirmed transactions, and keeps a block mined
meanwhile among the orphans although its parent is known. The last two are claimed until a restart
only: it may begin below confirmed transactions, and leaves unused saved blocks among the orphans.
`TransitionReachable` holds after a rescan only when no fork that leaves between two transitions is
relayed (`MCBlockChain_pruned.cfg`). `OrphansWait` also needs a start at the last checkpoint: an older
wallet knows checkpoints above its tip, and a child of one is kept among the orphans.
`MainChainConfirmed` and
`ConfirmedOnMainChain` are claimed for forks that leave the main chain above the blocks that have been
freed, and above those that a restart has not loaded; for deeper ones see `MCBlockChain_deep.cfg` and
`MCBlockChain_restored.cfg` in section 5.

Why the bounds are enough.

* Wallet. The interesting cases need a parent, two transactions that spend the same output and a
  chain of two: three transactions have all of them. Two heights distinguish below, at and above a
  reorganisation. The interleavings are between a removal and one other call, hence two threads.
* Chain. An interval of 2 makes every second block a difficulty transition, so a tree of height 6
  holds three intervals; branches of every relation to the transitions are there: `f` leaves at the
  checkpoint, `e` at a later transition, `x` below the checkpoint. In `chain_rescan` there is only
  `e`, the branch that leaves at a transition: after a rescan the code keeps the blocks above the new tip,
  and a branch that leaves below freed blocks fails the assertion of `MCBlockChain_assert.cfg`. Its two
  restarts find `m5` and `e5` both saved, by different lives of the program, and start above or beside
  the branch that was the main one before. Saved blocks that accumulate make two peers with a rescan and
  restarts too many states; two peers interleave in `chain_sync`, and what a rescan and a restart set
  does not depend on which peer relays a block.
* Network. A sync depends on one download peer; what can go wrong is that this peer fails, times out,
  is replaced or is disconnected while another one takes over, so two addresses and one connection
  are enough for liveness, and two connections for the rest. `Budget` bounds what the environment may
  do at will; peers may fail and time out as often as they like. `MAX_CONNECT_FAILURES` is 20 in the
  code: with 2 the count is reached, equalled and passed. `MaxThreads` is 2: two threads at the same
  continuation show what the lock does not protect.
* Persistence. A second crash is what a start from the files of a first crash needs. The window of
  saved blocks never reaches the checkpoint (`PersistenceAssumption`), as on the real chain.
* Events. `c2` signals both kinds of event while the handler starts, waits and stops, and connects the
  manager while `c1` disconnects it: the clock, which the disconnect has joined, then runs again, and
  the handler's alarm can expire while the handler is being stopped. With one
  record in the pool the second event allocates one. `MaxTime` 1 is one due alarm in each connect.
* Sync. The limits are scaled (4, 8, 2, 2, 4 for 191, 1910, 100, 100 and 191) in such a way that
  `RangeAssumption` holds and every kind of range occurs, with and without a remainder and one
  within another.
* Slice. A fork needs two branches; a purge needs an orphan that is older than `OrphanAge`, which
  is 1 here; `SaveCount` 1 and `ReorgLimit` 2 make reclaiming happen within six blocks.

All bounds are constants: `BlockSize`, `ExtraGap`, `Heights`, `Timestamps`, `Times` of `Wallet`;
`RescanHeights`, `MaxRescans`, `MaxRestarts` of `BlockChain`; `Budget`, `MaxThreads` of
`PeerManager`; `MaxCrashes`, `MaxRescans`, `MaxFailures` of `Persistence`; `MaxTime`,
`MaxConnects` of the event modules; `MaxNumber`, `ChangeSets`, `Starts`, `MaxSyncs` of `SyncRange`;
`Budgets` of `BlockChainSlice`. `BLOCK_DIFFICULTY_INTERVAL` is 2016 in the code, `Lag` 10,
`SaveMargin` 100.

Deadlock is checked for the wallet. Elsewhere the system may stop: after a failed assertion
(`BlockChain`, `EventHandler`, `BlockChainSlice`), a disconnect (`PeerManager`), a failed save
(`Persistence`), a manager that is destroyed, or when a bound is used up.

Fairness.

* `Wallet`, for `CallsReturn`. The loops under the lock have weak fairness: the thread that holds the
  mutex runs. A thread that has to take the mutex again has strong fairness: other threads take it in
  between, and a `pthread_mutex` lets a waiting thread through eventually. Nothing is assumed of new
  calls.
* `EventHandler`. The same for the handler's thread, the clock's and the calls under way; time passes
  up to `MaxTime`.
* `PeerManager`. Each peer's thread runs, and so do calls that have begun. A timeout passes unless it
  is cancelled first. A peer that stays connected answers a ping: the code relies on this, since a
  ping has no timeout of its own; a peer that does not answer may close or fail at any time. Nothing
  is assumed of the network's return or of other messages.
* `SyncRange`. A request is answered with data or with a failure: a node that sends nothing for a minute
  is dropped and what it was asked fails. A node that keeps sending other messages but never that
  answer is assumed away; a TODO at `BREthereumLES.c:1238` notes that a request has no timeout of its
  own.

What the properties are about: `ListedAreRegistered` that nothing listed has been freed;
`SpendableIsUnspent`, `OneSpenderCounts`, `ConfirmedCounts` that the caches are right although they
are rebuilt only when a call notices the need; `RemovalTakesDependents` that no dependent slips in
while the lock is free; `ListedIsStored` that a restart loses nothing; `MainChainConfirmed` and
`ConfirmedOnMainChain` that heights follow the main chain through every reorganisation;
`OrphansWait` that an orphan never waits for a parent that is there; `TransitionReachable` that
pruning, saving and restarting leave what the next difficulty transition needs;
`SyncEndsUnlessAbandoned` and `DisconnectReturns` that no error path leaves a sync or a caller
waiting; `CalledOnce` that a publisher is not called twice from two threads;
`DownloadPeerIsConnected` that the pointer is never stale; `NothingMissed` that heights reach the
disk before the blocks that make the wallet stop asking for them; `StartNotBehind` that replacing the
saved blocks loses none of them; `OneAlarmPerThread` that no timeout reaches a stopped handler;
`LateEventsAreDispatched` that the timeout makes up for a lost signal, unless the handler is being
stopped; `SyncMissesNothing` that the
search loses no block at a boundary; `ChainLinked` that relinking never breaks the chain;
`NonFinalIsPending` that an older status handled late is not forgotten. Each is preceded by a comment
in its module, and each has a mutant of the code that breaks it.

## 4. Proofs

TLAPS proves the following for every value of the constants that satisfies the module's assumption,
so for any number of threads, peers, blocks, transactions, handlers, records, crashes and failures. The
proofs are about `Spec`, without fairness. All invariants of the runs are proved except
`MainChainConfirmed` and `ConfirmedOnMainChain`, with the action properties `RemovalTakesDependents`,
`StartNotBehind` and `SyncMissesNothing` and the refinements `SyncIsFeed` and `QueueIsDeque`.

| Module | Inductive invariant | Theorems (properties) |
|---|---|---|
| `WalletProofs` | `ListInv` | `ListInvariance`, `ListTypeCorrect`, `ListSorted` (`SortedByHeight`), `ListOwned` (`ListedAreRegistered`), `NothingConfirmedAboveTip` (`ConfirmedBelowTip`), `RemovalComplete` (`RemovalTakesDependents`) |
| | `CacheInv` | `CacheInvariance`, `NothingSpentIsSpendable` (`SpendableIsUnspent`), `NoDoubleSpendCounts` (`OneSpenderCounts`), `ConfirmedAlwaysCounts` (`ConfirmedCounts`) |
| | `AmountInv` | `AmountInvariance`, `BalanceIsSum` (`BalanceAddsUp`) |
| | `FramesInv` | `FramesInvariance`, `NothingListedIsLost` (`ListedIsStored`), `WalletTyped` (`TypeOK`) |
| `PeerManagerProofs` | `IInv` | `ManagerInvariance`, `ManagerTyped` (`TypeOK`), `DownloadPeerSafe` (`DownloadPeerIsConnected`), `PublishCalledOnce` (`CalledOnce`) |
| `PersistenceProofs` | `IInv` | `PersistenceInvariance`, `PersistenceTyped` (`TypeOK`), `WalletMissesNothing` (`NothingMissed`), `ListIsOnDisk` (`ListedOnDisk`), `StartResumes` (`StartNotBehind`) |
| `BlockChainProofs` | `ChainInv`, `HighestInv`, `OrphansInv` | `ChainInvariance`, `BlockChainTyped` (`TypeOK`), `HighestWins` (`HighestChain`), `OrphansHaveNoParent` (`OrphansWait`) |
| | `LinkedInv` | `TransitionStaysReachable` (`TransitionReachable`) |
| `EventHandlerProofs` | `HandlerInv` | `HandlerInvariance`, `TimeoutsReachRunning` (`OneAlarmPerThread`) |
| | `QueuesInv` | `QueuesInvariance`, `RecordsAreOwned` (`CellsOwned`), `QueueImplementsDeque` (`QueueIsDeque`), `HandlerTyped` (`TypeOK`) |
| `BlockChainSliceProofs` | `SliceInv` | `SliceTyped`, `ChainIsLinked` (`ChainLinked`), `NonFinalStaysPending` (`NonFinalIsPending`), `ChainedTransactionsAreKnown` (`ChainedTransactionsKnown`) |
| `SyncRangeProofs` | `SyncInv` | `SyncInvariance`, `ProgressForward` (`ProgressAscends`), `SearchLosesNothing` (`SyncMissesNothing`), `RangesAreFeed` (`SyncIsFeed`) |

Assumptions. `Wallet`: `ConstantAssumption`. `PeerManager`: among others that there are finitely many
peers, since connections are counted. `Persistence`: that there are finitely many transactions, that the
height which means unconfirmed is above every real one, and that the peers' chains are two intervals
long, so that the window of saved blocks never reaches the checkpoint. `BlockChain`: `ChainAssumption`;
`HighestWins` and `TransitionStaysReachable` are about programs that have not rescanned,
`OrphansHaveNoParent` about those that have not restarted either; it also assumes that `Start` is the
last checkpoint, for the reasons given in section 3. `EventHandler`: that handlers, callers and the
clock have different names, and `QueueAssumption`, that the initial capacity is a number and `NoEvent`
is no event. `SyncRange`: `RangeAssumption`, the relations between the limits that the code's values
have, block numbers that fit the word, and that `Idle` and `Cut` are not syncs. `BlockChainSlice`:
`SliceAssumption`, among others that there are finitely many blocks, that a block's number is its
parent's plus one, and that `SaveCount` is not 0.

### Wallet

`ListInv` is the conjunction of `ListTypeOK`, `SortedByHeight`, `ListedAreRegistered`,
`ConfirmedBelowTip`, `ListedAreOurs`, `HeightsBounded` and `OneLoop`. None of the three properties is
inductive by itself:

* `UpdateSet` changes a height and moves the transaction only if `ContainsTx` holds, and frees it
  otherwise. That it is never freed while listed needs `ListedAreOurs`: a listed transaction is
  recognised, in this state and after any other transaction has left `allTx`. This in turn needs
  that what leaves `allTx` has no output of ours.
* Inserting keeps the order because a comparison is decided by the heights when they differ
  (`ComparesByHeight`) and the position is the lowest after which every transaction compares later
  (`InsertTxProperties`). Nothing is assumed of the order among equal heights, which is not
  transitive.
* `SetTxUnconfirmedAfter` stops at the first lower height. That no confirmed transaction stays
  above needs `SortedByHeight`; that the heights it sets are the largest needs `HeightsBounded`.
* `HeightsBounded` also says that the height the update loop sets is at most the tip, which the call
  has raised before the loop starts, and that a transaction the wallet does not own is unconfirmed.
  `OneLoop` says that a loop's locals are set only while the lock is held, by one loop at a time.

`RemovalComplete` follows from the invariant: the scan for dependents stops at the first height
below that of the removed transaction, so a dependent it misses is lower.

`CacheInv` states the three properties of the caches for the part of the list that the balance loop
has seen (`Done`), and so for the whole list when no loop runs. `SpentByDone` is what makes them
inductive: every input of a transaction that is not invalid is in `spentOutputs`, so a second spender
is found. Between two rebuilds heights change; `MarkedUnconfirmed` says that a confirmed transaction
is marked only while `upd.needsUpdate` promises a rebuild before the lock is released.

`AmountInv` adds the amounts: the running balance is the sum over the outputs collected so far, each
output enters once because the list has no duplicates, and leaves once. The sum is the length of a
sequence of single satoshis (`Satoshis`), so the lemmas on cardinalities apply; adding the amounts one
by one would need an induction over data.

`FramesInv` types the stacks of calls and ties them to the list: a listed transaction is stored or a
thread still has its `added` frame, and a `deleted` frame is about a transaction that is registered,
ours and never listed again, so that a late removal of a file cannot take away a later addition.

### PeerManager

A connection is in one of eight states; pongs and a greeting belong to those whose thread has
connected (`GoodConn`). Every handler keeps the members of `connectedPeers` and their threads
(`Keeps`, composed along the helpers of a handler), except for the two steps that add and remove a
peer. `DownInv` strengthens `DownloadPeerIsConnected`: the download peer's thread has connected, so
the step that frees a peer frees another one, or `_peerDisconnected` has moved the pointer before.
`PubInv` says where a publish callback can be: with the publisher that waits for the lock, in
`publishedTx` for one transaction, or called; `CalledOnce` counts two of these places.

### Persistence

`NothingMissed` is about a running program; what makes it survive crashes is about files and calls.
`ChainInv`: no block is in memory, in a file or about to be saved unless the wallet and the files have
the transactions below it, or their saves come earlier in the same handler (`SavedBefore`). A file
may be torn: then the next start cannot read it, `loadFailed` is set and nothing more is claimed.
`CallsInv` says that a save writes what the wallet knows and that a handler whose save has failed makes
no further call; `OpenInv` that what is written into an open file is still current; `DiskInv`
generalises `ListedOnDisk` to transactions that were taken off the list when they were confirmed;
`DurableInv` that the last transition block saved still has its file. This last part rests on
`fileServiceClear` removing nothing, and is inductive only because of it.

### BlockChain

`ChainInv` types the state: blocks are linked to the block they follow, there is one orphan for each
`prevBlock`, a transaction has one height at most. `HighestWins` goes through the cases of
`_peerRelayedBlock`: a block is put into the set only with the tip (`Extend`), below it (`Existing`,
`OldFork`, `Fork`) or by making it the tip (`Reorganize`). `OrphansHaveNoParent` uses it: with no
block above the tip, a relayed block whose parent is known is never taken for one mined during a
rescan, and the step that adds a block takes its child out of the orphans.

`TransitionReachable` speaks of a walk; `Linked` says what makes the walk succeed, of one block at a
time: the block before `b` is known unless `b` is a transition, for every `b` whose interval is not yet
over at the tip. `VerifyBlock` keeps it because it frees blocks below a transition which, with
`HighestChain`, lies a whole interval below the tip's next block (`PrunedBelow`, `KeptLinked`). A fork
may be cut off from its own transition, but then its whole interval is below the tip: it can grow no
further than the next transition, which is refused for want of the previous one, and so never becomes
the main chain. A saved block that `BRPeerManagerNew` chains follows one that it has chained
(`RestoredLinked`). The facts about walks (`BackWalks`, `BackHeight`, `WalkReaches`) count the blocks
with `CountUp` of `BasicLemmas`, which does for a formula on numbers what an induction would.

### EventHandler

`HandlerInv` has three parts. `AlarmInv`: no two alarms, the expiring one included, have the same
handler or the same identifier, and an alarm has the identifier its handler remembers, so that
`alarmClockRemAlarm` removes the right one; the clock's thread holds `clock->lock` as long as it has an
alarm in its hands, so that none is removed or added meanwhile. `CallsOK`: the steps of a call come in
the order of the code (`Goes`), and `lockOnStartStop` belongs to the call that is between its ends.
`PhaseOK`: whether a handler has an alarm and a thread at each of these steps, and that it has both or
none when nobody holds the lock. That a call's steps are in order is proved for what is left of a call
after any step, early returns included (`RestOrdered`, `MoreOrdered`, `SkipOutside`).

`QueuesInv` adds the locks and the queues.

* `LockInv`: a handler's lock is held by the thread that runs, once, or by a call as often as the
  steps it has still to take give it back (`Takes`), at most twice; a handler without a thread is in
  the state "none". A depth above 2, or a lock that nobody gives back, would contradict it.
* `QueueInv`: the records of a queue are numbered without gaps, and each is in exactly one of two lists,
  `P` of the pending and `A` of the available ones, that are linked by `next` (`Lists`). Each
  operation is proved to keep this with two other lists: `EnqueueLists`, `DequeueLists`,
  `ClearLists`, `CreateLists`.

The code's loops over a list are functions that count its records. `LastLists`, `ContentsLists` and
`RecordsList` turn what they compute into what the list is, so that `EnqueueContents`,
`DequeueContents` and `ClearContents` can say what an operation does to the sequence of events.
`QueueImplementsDeque` maps `EventDeque`'s sequence to `Contents` of the queue: every step of a
thread, the clock or a call is one operation on one queue, or leaves all of them as they are
(`StepChanges`). `HandlerTyped` needs all parts, since its bounds on lock depth and on records
hold only because of them.

### SyncRange

`SyncInv` is about the leaves that remain (`Running`). They are in order between the last header handed
over and the head, and none is empty (`Spans`); every change that was not reported is in one of them
(`Finds`); the last one is linear and ends at the head (`EndsSmall`); and either it goes back
`RequestMax` blocks, or all of them are linear without a gap and so is what was handed over before
them. The last part is what `SyncFeed` asks of the end of a sync, and needs both cases: a short sync
is one run from its tail, a long one ends with the range of its own that `bcsSyncStart` makes.

The operators that split a range are characterised once: `SmallRangesProperties`,
`NAryRangesProperties` (the step is not 0 because `computeOptimalStep` never picks more subranges than
there are blocks, and the remainder gets a range), `LeavesProperties`, `PlanProperties`.
`DifferingProperties` is the search: a change lies between two neighbouring headers (`FirstAbove`),
there the accounts differ, and the subrange goes on holding it. That flattening the subranges keeps
their order (`FlattenGathers`) is shown by a least counterexample, with the recursion of `FlattenSeq`
spelled out in `BasicLemmas`. An n-ary range is never the last, so a sync ends with the answer to a
linear one.

`RangesAreFeed` maps a sync under way to its bounds, `last` and `from`; answers to n-ary ranges are
stutters, the headers of a small range are `Report`, and those of the last `ReportLast`.

### BlockChainSlice

`SliceInv` says of the struct and of the queued events:

* `Links`: there is a set of blocks, the chain, with one block for each number from the tail's to the
  head's, each linked to its parent, all of them kept and none an orphan. `ChainLinked` walks down
  from the head; that the walk finds exactly this set and ends at the tail (`WalkDescends`,
  `ChainedIsChain`) is because it loses one number at each block. `Links` alone would not be kept: a block
  that is put in or taken out must be neither chained nor an orphan, which is why it has a third
  argument, the blocks in the hands of a handler.
* `Knows`: the transactions of a block whose body has come are in the block, or known. They can only
  be in the block while it is incomplete or not valid, and this is true of every block, chained or
  not, since `bcsExtendTransactionsAndLogsForBlockIfAppropriate` runs after each answer.
* `Waits`: `NonFinalIsPending`.

Nothing is said of the chain once an assertion has failed (`Fine`). The handlers are functions on
the struct and several are loops. A loop is treated as a set of structs that each round keeps
(`Good`, `IterationStays`): `ChainOrphansGood` for the orphans, `ExtendTransactionsAboveGood` for the
blocks above the parent, `HandleBlockHeadersFine` for a run of headers. That a block that is reclaimed
by one round (`ReclaimBlocks`) is not one that a later round is going to visit needs that it is in no
list, which is what the code tests.

### Only model-checked

* Liveness: `CallsReturn`, `SyncEnds`, `SyncEndsUnlessAbandoned`, `DisconnectReturns`,
  `DueAlarmFires` and `LateEventsAreDispatched`. Fairness and
  `ENABLED` are out of the prover's reach here.
* `MainChainConfirmed` and `ConfirmedOnMainChain` do not hold for every tree of blocks
  (`MCBlockChain_deep.cfg`, `MCBlockChain_restored.cfg`): a fork that joins the main chain below the
  blocks that are freed, or that a restart has not loaded, gets no heights.
* `TransitionReachable` after a rescan, where it holds for the tree of `chain_rescan` but not for
  every one (`MCBlockChain_pruned.cfg`).

## 5. What the runs show of the code

Two runs are expected to fail: what a comment or a header says does not hold.

1. `wallet_tip`: marking a transaction verified passes `TX_UNCONFIRMED` as a block height, the
   wallet takes it for its best height, and no lock height is in the future any more
   (`BRWallet.h:156`).
2. `network_filter`: a transaction relayed between the two pings of a filter update drops the filter
   and asks for no other one, since one is under way; that one clears its flag without loading a
   filter again. From then on every block is ignored (`BRPeerManager.c:986`, comment at 1194).

The following configurations are kept beside the runs. TLC finds each property violated; the
properties state what the quoted place says.

| Configuration | Property | What happens |
|---|---|---|
| `MCWallet_shown.cfg` | `ShownIsBalance` | a confirmation can change the balance without the `balanceChanged` callback of `BRWallet.h:67` |
| `MCWallet_invalid.cfg` | `BalanceExcludesInvalid` | the balance can include an output of a transaction that `BRWalletTransactionIsValid` rejects (`BRWallet.h:112`): a parent of the same height may be listed after its child |
| `MCBlockChain_assert.cfg` | `AssertionsHold` | a fork block relayed again when the main chain at its height has been freed fails `assert (NULL != b)` |
| `MCBlockChain_deep.cfg` | `MainChainConfirmed` | a fork that overtakes the main chain and leaves it below the blocks that have been freed: the walk that looks for the join ends at a freed block, and the blocks of the fork are not given to the wallet |
| `MCBlockChain_restored.cfg` | `MainChainConfirmed` | the same after a restart: it starts from a saved transition of one branch, and a fork that leaves below it overtakes it; the walk ends at a block that was not loaded |
| `MCBlockChain_pruned.cfg` | `TransitionReachable` | "find previous transition time" (`BRPeerManager.c:1096`) goes back one interval: after a rescan a fork can extend the tip, and a later block of the old main chain, which is known still, frees the blocks that the fork leads back to |
| `MCBlockChain_freed.cfg` | `LastBlockKept` | a difficulty transition mined during a rescan frees the block the rescan has reached |
| `MCPeerManager_stop.cfg` | `SyncEnds` | a disconnect during a sync sets the failure count to its maximum; `_peerDisconnected` compares with `==` after counting again, passes it, and `syncStopped` is never called |
| `MCPeerManager_unrelayed.cfg` | `UnrelayedKept` | "don't remove transactions until we're connected to maxConnectCount peers" (`BRPeerManager.c:471`): a disconnect sets that count to 0, and any number is enough |
| `MCPersistence_fullsync.cfg` | `FullSyncMissesNothing` | "on a failure they all need to be cleared which will cause a *FULL SYNC*" (`BRWalletManager.c:425`): the files are not cleared, and a second crash resumes at the old blocks with transactions saved again as unconfirmed |
| `MCEventHandler_stop.cfg` | `StopReturns` | "required for eventHandlerStop() to run and succeed on pthread_join()" (`BREthereumEWM.c:719`): the clock's thread sets `threadQuit` to 0 when it begins to run (`BREventAlarm.c:271`), after a stop may have set it to 1, and the join never returns; the handler's thread does the same (`BREvent.c:185`) |
| `MCEventHandler_order.cfg` | `LocksInOrder` | "Unlock here - required for eventHandlerStop() to run and succeed" (`BREthereumEWM.c:719`): after `ewmDisconnect` has unlocked, another thread's `ewmConnect` takes `ewm->lock` and waits in `eventHandlerStart` for `lockOnStartStop` (`BREvent.c:247`), which `eventHandlerStop` holds while it waits for `ewm->lock` (`BREvent.c:287`); both wait for ever |
| `MCEventHandler_expired.cfg` | `ExpiredOnly` | "get the alarm that has expired" (`BREventAlarm.c:281`): between the timeout and the lock the alarm can be removed, and the next one expires early, or the list is empty |
| `MCBlockChainSlice_orphaned.cfg` | `OrphanedIsPending` | "if and only if block is 'complete' and in bcs->chain" (`BREthereumBCS.c:1099`): only validity is tested, and a block that completes as an orphan leaves its transaction included there |
| `MCBlockChainSlice_parent.cfg` | `ParentIsChained` | "Must be there; right?" (`BREthereumBCS.c:1222`): the child of a checkpoint is inconsistent with it, because a checkpoint has no difficulty to compute from |

Seen while reading and not checked:

* `BRWalletRegisterTransaction` returns true when a transaction that is not the wallet's is registered
  a second time; the main network's difficulty check is disabled by an early `return 1`;
* a reconnect that the manager makes by itself resets `connectFailureCount`; two peers that fail at
  the same time can both pass the comparison with `MAX_CONNECT_FAILURES`;
* `_mempoolDone` of a peer that is not the download peer can end the sync;
* the error handler of the file service reads `peerManager` before `BRWalletManagerNew` has set it;
* the tail of a sync is computed by an unsigned subtraction that can wrap (`BREthereumBCS.c:398`);
* `PROVISION_ERROR_NODE_DATA` drops the request;
* `ewmDestroy` joins the handler's thread while it holds the lock that thread takes;
  `ewmDisconnect` of one manager stops the clock of all.

## 6. Not modelled, and the plan

Left out for good: cryptography, key derivation, address and payment-protocol encodings
(`support/BRKey.c`, `BRCrypto.c`, `BRBase58.c`, ..., `bitcoin/BRPaymentProtocol.c`, `secp256k1`),
which keep no state and are byte-level code; merkle-tree and bloom-filter arithmetic, RLP, MPT and
message formats, for the same reason; JNI, Java and the application.

Not modelled of the parts that have state:

* transfers, wallets and nonces of `ewm`, and the client's JSON-RPC: they follow announcements of the
  slice one to one in the P2P modes, and a web service in the others;
* the LES client with its nodes and provisions: the modules above it know it as requests that are
  answered in any order, failed, or never answered, which is more than it does;
* the disconnect on a bad false-positive rate (`BRPeerManager.c:1178`) or on an invalid block (1232) while
  blocks are relayed, which leaves the connections as a failure of that peer does (`PeerFails`); a peer's
  thread that cannot be created (1653-1658); and looking for peers because the known ones are three days
  old (1618);
* logs of the slice (handled as transactions are), its BRD modes, `bcsStop`, `bcsDestroy`, and the
  late answer for a range that was released, which uses freed memory;
* coin selection, fees and signing in `BRWallet.c`; `BRPeerManagerSetFixedPeer`, fee rates,
  `BRPeerManagerFree`; the wire messages of `BRPeer.c` and the race on its callback arrays;
* `BRSet` and `BRArray`, taken as sets and sequences.

How much of the repository this covers. The repository holds the C core twice (`core/` is also found
under `Java/Core/src/main/cpp/core`, and the second copy is the one that is built and mapped), and
with it secp256k1, word lists, checkpoint tables, tests, the JNI layer and the application. The files
with the core's stateful logic come to about 15,000 lines; of those that are modelled, between a half and
three quarters are mapped (`BRPeerManager.c`, `BREthereumBCS.c`, `BREthereumBCSSync.c`,
`ethereum/event`), and less where a file is mostly byte handling (`BRPeer.c`, `BREthereumBlock.c`).

What a next step of the proofs could be: `MainChainConfirmed` and `ConfirmedOnMainChain` for trees
whose forks leave the main chain above the last transition but one, which needs the heights that
`BRWalletUpdateTransactions` has set to be related to every block of the main chain.
