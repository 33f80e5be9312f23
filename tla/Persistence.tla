----------------------------- MODULE Persistence -----------------------------
(***************************************************************************)
(* What the wallet manager keeps on disk and what it makes of it after a     *)
(* crash: BRWalletManager.c with support/BRFileService.c, driven by the      *)
(* peer manager (BRPeerManager.c) and the wallet (BRWallet.c).               *)
(*                                                                           *)
(* One file per transaction, block and peer.  A save truncates the file and  *)
(* fills it: whoever dies in between leaves it torn, and a torn file makes   *)
(* the next load fail.  The handlers of the peer threads run under           *)
(* manager->lock, the callbacks that save transactions and blocks included:  *)
(* they are the one actor "chain".  Peers are saved without the lock, by     *)
(* the actor "peers".                                                        *)
(*                                                                           *)
(* The chain is a single line of heights from the checkpoint at 0 (forks are *)
(* module BlockChain's); a transaction's file holds its block height.        *)
(***************************************************************************)
EXTENDS Integers, Sequences, FiniteSets, SequencesExt, FiniteSetsExt

CONSTANTS
    Tx,             \* the wallet's transactions
    TxHeight,       \* [Tx -> height of the block that holds it, or Unconfirmed]
    Unconfirmed,    \* TX_UNCONFIRMED
    Peer,           \* the addresses peers relay
    NetHeight,      \* the height of the network's chain
    PeerLastBlock,  \* the heights a peer may announce when it connects
    SaveMargin,     \* distance from the tip up to which transitions are saved (100)
    BLOCK_DIFFICULTY_INTERVAL,
    MaxCrashes, MaxRescans, MaxFailures   \* bounds on the environment

Height == 0..NetHeight

(* The saved window never reaches the checkpoint: the chain's tip is at least *)
(* two intervals beyond it.                                                   *)
ASSUME PersistenceAssumption ==
    /\ IsFiniteSet(Tx)
    /\ NetHeight \in Nat /\ SaveMargin \in Nat
    /\ BLOCK_DIFFICULTY_INTERVAL \in Nat \ {0}
    /\ Unconfirmed \in Nat /\ Unconfirmed > NetHeight
    /\ TxHeight \in [Tx -> 1..NetHeight \cup {Unconfirmed}]
    /\ PeerLastBlock \subseteq (2 * BLOCK_DIFFICULTY_INTERVAL)..NetHeight
    /\ MaxCrashes \in Nat /\ MaxRescans \in Nat /\ MaxFailures \in Nat

Absent == -1    \* no such file, or a transaction the wallet does not know
Torn == -2      \* truncated, not yet or never filled
Closed == -3    \* no file is open

TxFile(t) == <<"transactions", t>>
BlockFile(h) == <<"blocks", h>>
PeerFile(p) == <<"peers", p>>
Entity == {TxFile(t) : t \in Tx} \cup {BlockFile(h) : h \in Height} \cup {PeerFile(p) : p \in Peer}
Actor == {"chain", "peers"}

VARIABLES
    files,            \* the disk: [Entity -> content, Absent or Torn]
    running,          \* the process lives
    todo,             \* calls of the file service each actor still makes
    open,             \* the bytes each actor holds while its file is open
    known,            \* wallet->allTx: [Tx -> block height or Absent]
    listed,           \* wallet->transactions
    lastBlock, blocks, orphans, estimatedHeight, connected,   \* of the peer manager
    next,             \* orphans taken out by handlers that come to them next
    loadFailed,       \* history: some start found a torn file
    durable,          \* history: the highest transition block saved so far
    crashes, rescans, failures

walletVars == <<known, listed>>
chainVars == <<lastBlock, blocks, orphans, estimatedHeight, connected, next>>
historyVars == <<loadFailed, durable>>
boundVars == <<crashes, rescans, failures>>
vars == <<files, running, todo, open, walletVars, chainVars, historyVars, boundVars>>

Save(e) == [op |-> "save", entity |-> e]
RemoveFile(e) == [op |-> "remove", entity |-> e]
Clear(type) == [op |-> "clear", entity |-> <<type, 0>>]
RescanCall == [op |-> "rescan", entity |-> <<"", 0>>]

Idle(a) == todo[a] = <<>>

\* manager->lock is free: no handler is inside its callbacks
Unlocked == running /\ Idle("chain")

-----------------------------------------------------------------------------
(* The file service. *)

\* mutant: the type's directory is emptied
ClearedAll(type) ==
    [e \in Entity |-> IF e[1] = type THEN Absent ELSE files[e]]

\* fileServiceClear: remove() is given the name of a directory entry without its
\* directory and finds no such file
Cleared(type) == files

\* the bytes the type's writer makes of an entity: of a transaction its height
Written(e) == IF e[1] = "transactions" THEN known[e[2]] ELSE 0

Ready(a, op) == running /\ ~Idle(a) /\ Head(todo[a]).op = op

Returns(a) == todo' = [todo EXCEPT ![a] = Tail(@)]

\* fileServiceSave: the entity is serialised, then fopen "wb" truncates the file
SaveOpens(a) ==
    /\ Ready(a, "save") /\ open[a] = Closed
    /\ files' = [files EXCEPT ![Head(todo[a]).entity] = Torn]
    /\ open' = [open EXCEPT ![a] = Written(Head(todo[a]).entity)]
    /\ UNCHANGED <<running, todo, walletVars, chainVars, historyVars, boundVars>>

Transition(h) == h % BLOCK_DIFFICULTY_INTERVAL = 0

\* fclose: header and bytes are in the file
SaveCloses(a) ==
    LET e == Head(todo[a]).entity
    IN  /\ Ready(a, "save") /\ open[a] # Closed
        /\ files' = [files EXCEPT ![e] = open[a]]
        /\ open' = [open EXCEPT ![a] = Closed]
        /\ Returns(a)
        /\ durable' = IF e[1] = "blocks" /\ Transition(e[2]) /\ e[2] > durable
                      THEN e[2] ELSE durable
        /\ UNCHANGED <<running, walletVars, chainVars, loadFailed, boundVars>>

\* mutant: the file is left open
LeftOpen(a) == open

\* fileServiceFailedInternal closes what it is given
FileClosed(a) == [open EXCEPT ![a] = Closed]

\* fileServiceFailedUnix: the file stays as it is, bwmFileServiceErrorHandler asks
\* for a rescan before the save returns
SaveFails(a) ==
    /\ Ready(a, "save") /\ failures < MaxFailures
    /\ failures' = failures + 1
    /\ open' = FileClosed(a)
    /\ todo' = [todo EXCEPT ![a] = <<RescanCall>> \o Tail(@)]
    /\ UNCHANGED <<files, running, walletVars, chainVars, historyVars, crashes, rescans>>

\* BRPeerManagerRescan
RescanEffect ==
    IF connected THEN lastBlock' = 0 ELSE UNCHANGED lastBlock

\* The handler's rescan waits for manager->lock; "chain" holds it itself
HandlerRescans(a) ==
    /\ Ready(a, "rescan") /\ Unlocked
    /\ RescanEffect
    /\ Returns(a)
    /\ UNCHANGED <<files, running, open, walletVars, blocks, orphans, estimatedHeight, connected,
                   next, historyVars, boundVars>>

\* fileServiceRemove and fileServiceClear
Removes(a) ==
    /\ \/ Ready(a, "remove") /\ files' = [files EXCEPT ![Head(todo[a]).entity] = Absent]
       \/ Ready(a, "clear") /\ files' = Cleared(Head(todo[a]).entity[1])
    /\ Returns(a)
    /\ UNCHANGED <<running, open, walletVars, chainVars, historyVars, boundVars>>

-----------------------------------------------------------------------------
(* The wallet, called by the peer threads under manager->lock. *)

\* _BRWalletManagerTxAdded, TxUpdated and TxDeleted; the hashes come in any order
TxAdded(t) == <<Save(TxFile(t))>>

\* mutant: a new height is not saved
TxUpdatedNot(T) == {<<>>}

TxUpdated(T) == {[i \in DOMAIN s |-> Save(TxFile(s[i]))] : s \in SetToSeqs(T)}

TxDeleted(t) == <<RemoveFile(TxFile(t))>>

\* _peerRelayedTx, _peerHasTx, _peerRequestedTx: BRWalletRegisterTransaction adds
\* what allTx does not hold yet, unconfirmed.  Of the chain's transactions the
\* peers relay those of blocks still to come.
RelayedTx(t) ==
    /\ Unlocked /\ connected
    /\ known[t] = Absent /\ TxHeight[t] > lastBlock
    /\ known' = [known EXCEPT ![t] = Unconfirmed]
    /\ listed' = listed \cup {t}
    /\ todo' = [todo EXCEPT !["chain"] = TxAdded(t)]
    /\ UNCHANGED <<files, running, open, chainVars, historyVars, boundVars>>

\* BRWalletUpdateTransactions for the timestamp of an unconfirmed transaction: set
\* once enough peers have it, reset when it is rejected or not relayed any more
TxRestamped(t) ==
    /\ Unlocked /\ connected
    /\ known[t] = Unconfirmed
    /\ \E u \in TxUpdated({t}) : todo' = [todo EXCEPT !["chain"] = u]
    /\ UNCHANGED <<files, running, open, walletVars, chainVars, historyVars, boundVars>>

\* _BRPeerManagerRequestUnrelayedTxDone: BRWalletRemoveTransaction takes the
\* transaction off the list; allTx keeps it
TxRemoved(t) ==
    /\ Unlocked /\ connected
    /\ t \in listed /\ known[t] = Unconfirmed
    /\ listed' = listed \ {t}
    /\ todo' = [todo EXCEPT !["chain"] = TxDeleted(t)]
    /\ UNCHANGED <<files, running, open, known, chainVars, historyVars, boundVars>>

-----------------------------------------------------------------------------
(* The block chain, under manager->lock too. *)

SaveCount(h) ==
    IF h = estimatedHeight
    THEN (h % BLOCK_DIFFICULTY_INTERVAL) + BLOCK_DIFFICULTY_INTERVAL + 1
    ELSE IF Transition(h) /\ h + SaveMargin < estimatedHeight THEN 1 ELSE 0

\* the blocks saved, newest first: from h back as far as they are in memory, cut
\* so that the last one is a transition
SaveBlocks(h) ==
    LET S == {k \in (h - SaveCount(h) + 1)..h : \A i \in k..h : i \in blocks \cup {h}}
        W == {k \in S : \E i \in S : i <= k /\ Transition(i)}
    IN  [i \in 1..Cardinality(W) |-> h + 1 - i]

\* _BRWalletManagerSaveBlocks: replace when there are several
BlockCalls(h) ==
    LET W == SaveBlocks(h)
    IN  (IF Len(W) > 1 THEN <<Clear("blocks")>> ELSE <<>>)
            \o [i \in DOMAIN W |-> Save(BlockFile(W[i]))]

\* the known transactions of block h whose height the block changes
Confirms(h) == {t \in Tx : TxHeight[t] = h /\ known[t] \notin {Absent, h}}

\* mutant: the blocks are saved before the heights of their transactions
BlocksFirst(u, h) == BlockCalls(h) \o u

\* the callbacks in the order _peerRelayedBlock comes to them
BlockThenSaves(u, h) == u \o BlockCalls(h)

\* BRWalletUpdateTransactions for block h; calls are what the thread does next: the saves it
\* has the callback make and, if the block extends the chain, those of the blocks
UpdateTransactions(h, calls) ==
    /\ known' = [t \in Tx |-> IF t \in Confirms(h) THEN h ELSE known[t]]
    /\ todo' = [todo EXCEPT !["chain"] = calls]

\* _peerRelayedBlock for the block after lastBlock; the orphan that follows it comes
\* next, N being the other handlers' next blocks
Extend(h, N) ==
    /\ \E u \in TxUpdated(Confirms(h)) : UpdateTransactions(h, BlockThenSaves(u, h))
    /\ lastBlock' = h
    /\ blocks' = blocks \cup {h}
    /\ estimatedHeight' = IF h > estimatedHeight THEN h ELSE estimatedHeight
    /\ orphans' = orphans \ {h + 1}
    /\ next' = N \cup ({h + 1} \cap orphans)

\* The peer sends the block's transactions along
RelayedBlock ==
    /\ Unlocked /\ connected
    /\ lastBlock < NetHeight
    /\ \A t \in Tx : TxHeight[t] = lastBlock + 1 => known[t] # Absent
    /\ Extend(lastBlock + 1, next)
    /\ UNCHANGED <<files, running, open, listed, connected, historyVars, boundVars>>

\* "check if the next block was received as an orphan": the lock was given up, the
\* chain may be elsewhere by now
NextBlock(h) ==
    /\ Unlocked /\ h \in next
    /\ \/ h = lastBlock + 1 /\ Extend(h, next \ {h})
       \/ /\ h # lastBlock + 1 /\ h \in blocks
          /\ \E u \in TxUpdated(Confirms(h)) : UpdateTransactions(h, u)
          /\ next' = next \ {h}
          /\ UNCHANGED <<lastBlock, blocks, orphans, estimatedHeight>>
       \/ /\ h # lastBlock + 1 /\ h \notin blocks
          /\ orphans' = orphans \cup {h}
          /\ next' = next \ {h}
          /\ UNCHANGED <<known, todo, lastBlock, blocks, estimatedHeight>>
    /\ UNCHANGED <<files, running, open, listed, connected, historyVars, boundVars>>

\* _peerConnected
PeerConnected ==
    /\ Unlocked /\ ~connected
    /\ \E n \in PeerLastBlock :
          estimatedHeight' = IF n > estimatedHeight THEN n ELSE estimatedHeight
    /\ connected' = TRUE
    /\ UNCHANGED <<files, running, todo, open, walletVars, lastBlock, blocks, orphans, next,
                   historyVars, boundVars>>

\* _peerDisconnected; after too many failures it also clears the saved peers
PeerDisconnected ==
    /\ Unlocked /\ connected
    /\ connected' = FALSE
    /\ \/ UNCHANGED todo
       \/ Idle("peers") /\ todo' = [todo EXCEPT !["peers"] = <<Clear("peers")>>]
    /\ UNCHANGED <<files, running, open, walletVars, lastBlock, blocks, orphans, estimatedHeight,
                   next, historyVars, boundVars>>

\* _peerRelayedPeers, outside the lock by the time it saves
RelayedPeers(p) ==
    /\ Unlocked /\ connected /\ Idle("peers")
    /\ todo' = [todo EXCEPT !["peers"] = <<Clear("peers"), Save(PeerFile(p))>>]
    /\ UNCHANGED <<files, running, open, walletVars, chainVars, historyVars, boundVars>>

\* BRPeerManagerRescan, called by the application
Rescan ==
    /\ Unlocked /\ rescans < MaxRescans
    /\ rescans' = rescans + 1
    /\ RescanEffect
    /\ UNCHANGED <<files, running, todo, open, walletVars, blocks, orphans, estimatedHeight,
                   connected, next, historyVars, crashes, failures>>

-----------------------------------------------------------------------------
(* Crash and restart. *)

\* The memory is gone; the disk stays as it is
Crash ==
    /\ running /\ crashes < MaxCrashes
    /\ crashes' = crashes + 1
    /\ running' = FALSE
    /\ todo' = [a \in Actor |-> <<>>]
    /\ open' = [a \in Actor |-> Closed]
    /\ known' = [t \in Tx |-> Absent]
    /\ listed' = {}
    /\ lastBlock' = 0 /\ blocks' = {0} /\ orphans' = {}
    /\ estimatedHeight' = 0 /\ connected' = FALSE /\ next' = {}
    /\ UNCHANGED <<files, historyVars, rescans, failures>>

\* fileServiceLoad fails at the first file that ends too early
Readable(E) == \A e \in E : files[e] # Torn

\* BRPeerManagerNew: "find last transition block", then follow the saved blocks
LoadedBlocks == {h \in Height : files[BlockFile(h)] # Absent}
LastTransition == Max({0} \cup {h \in LoadedBlocks : Transition(h)})
Followed == {h \in LastTransition..NetHeight :
                \A i \in LastTransition..h : i \in LoadedBlocks \cup {0}}

\* BRWalletManagerNew.  If a load fails everything loaded is dropped and the chain
\* starts at the checkpoint ("FULL SYNC"), the files staying as they are.  The error
\* handler reads manager->peerManager before anything is assigned to it: the
\* process may die there.
Start ==
    /\ ~running
    /\ IF Readable(Entity)
       THEN /\ running' = TRUE
            /\ known' = [t \in Tx |-> files[TxFile(t)]]
            /\ listed' = {t \in Tx : files[TxFile(t)] # Absent}
            /\ lastBlock' = Max(Followed)
            /\ blocks' = {0} \cup Followed
            /\ orphans' = LoadedBlocks \ Followed
            /\ UNCHANGED <<loadFailed, crashes>>
       ELSE /\ loadFailed' = TRUE
            /\ \/ running' = TRUE /\ UNCHANGED crashes
               \/ crashes < MaxCrashes /\ crashes' = crashes + 1 /\ UNCHANGED running
            /\ UNCHANGED <<walletVars, lastBlock, blocks, orphans>>
    /\ UNCHANGED <<files, todo, open, estimatedHeight, connected, next, durable,
                   rescans, failures>>

-----------------------------------------------------------------------------
Init ==
    /\ files = [e \in Entity |-> Absent]
    /\ running = FALSE
    /\ todo = [a \in Actor |-> <<>>]
    /\ open = [a \in Actor |-> Closed]
    /\ known = [t \in Tx |-> Absent]
    /\ listed = {}
    /\ lastBlock = 0 /\ blocks = {0} /\ orphans = {}
    /\ estimatedHeight = 0 /\ connected = FALSE /\ next = {}
    /\ loadFailed = FALSE /\ durable = 0
    /\ crashes = 0 /\ rescans = 0 /\ failures = 0

FileStep(a) == SaveOpens(a) \/ SaveCloses(a) \/ SaveFails(a) \/ HandlerRescans(a) \/ Removes(a)

Next ==
    \/ \E a \in Actor : FileStep(a)
    \/ \E t \in Tx : RelayedTx(t) \/ TxRestamped(t) \/ TxRemoved(t)
    \/ RelayedBlock
    \/ \E h \in Height : NextBlock(h)
    \/ PeerConnected \/ PeerDisconnected \/ Rescan
    \/ \E p \in Peer : RelayedPeers(p)
    \/ Crash \/ Start

Spec == Init /\ [][Next]_vars

-----------------------------------------------------------------------------
(* Properties *)

Call == [op : {"save", "remove"}, entity : Entity]
            \cup {Clear("blocks"), Clear("peers"), RescanCall}

\* Each variable has its type; what the actors hold open is the file at the head of
\* their calls, and a stopped process holds nothing.
TypeOK ==
    /\ \A e \in Entity : files[e] \in Height \cup {Unconfirmed, Absent, Torn}
    /\ running \in BOOLEAN /\ connected \in BOOLEAN
    /\ \A a \in Actor :
          /\ Range(todo[a]) \subseteq Call
          /\ open[a] # Closed => Ready(a, "save") /\ files[Head(todo[a]).entity] = Torn
    /\ \A t \in Tx : known[t] \in 1..NetHeight \cup {Unconfirmed, Absent}
    /\ listed \subseteq {t \in Tx : known[t] # Absent}
    /\ lastBlock \in blocks /\ blocks \subseteq Height
    /\ orphans \subseteq Height \ {0} /\ next \subseteq Height
    /\ durable \in Height

\* Crash consistency: as long as every start could read its files, a running wallet
\* knows, at its height, every transaction of the chain up to lastBlock, wherever the
\* crashes came: the heights are on disk before a block that has them below it
\* (_peerRelayedBlock, BRWalletUpdateTransactions before saveBlocks).  What is below
\* lastBlock is never asked for again.
NothingMissed ==
    running /\ ~loadFailed =>
        \A t \in Tx : TxHeight[t] <= lastBlock => known[t] = TxHeight[t]

\* "on a failure they all need to be cleared which will cause a *FULL SYNC*"
\* (BRWalletManagerNew): then nothing is missed after a failed load either.
\* The code does not have this property: see MCPersistence_fullsync.cfg.
FullSyncMissesNothing ==
    running => \A t \in Tx : TxHeight[t] <= lastBlock => known[t] = TxHeight[t]

\* Each listed transaction is on disk with the height the wallet has for it, or its
\* save is on its way, or failed and its thread now waits for manager->lock: after
\* crashes, removals and repeated saves of the same file too.
ListedOnDisk ==
    \A t \in listed :
        \/ files[TxFile(t)] = known[t]
        \/ \E i \in DOMAIN todo["chain"] : todo["chain"][i] = Save(TxFile(t))
        \/ \E i \in DOMAIN todo["chain"] : todo["chain"][i] = RescanCall

\* A start that can read its files resumes the chain at or above the last
\* transition block saved, whatever was being replaced when the crash came
\* (_BRWalletManagerSaveBlocks, BRPeerManagerNew).
StartNotBehind ==
    [][~running /\ running' /\ Readable(Entity) => lastBlock' >= durable]_vars
=============================================================================
