----------------------------- MODULE BlockChain -----------------------------
(***************************************************************************)
(* The chain of block headers kept by bitcoin/BRPeerManager.c: the set of  *)
(* known blocks, the orphans, the tip lastBlock, what is written with      *)
(* saveBlocks, and the block heights the wallet's transactions get.        *)
(*                                                                         *)
(* Every peer has a thread; _peerRelayedBlock runs under manager->lock     *)
(* and is one step.  It then calls itself, after releasing the lock, with  *)
(* the orphan that follows the block: next[p] is that orphan, so blocks of *)
(* other peers, a filter reload or a rescan can come in between.           *)
(*                                                                         *)
(* A block is its hash.  Of the wallet only the height of every            *)
(* transaction is kept: BRWalletUpdateTransactions sets it for the         *)
(* transactions of a block, BRWalletSetTxUnconfirmedAfter clears all       *)
(* heights above the given one (module Wallet: SortedByHeight and          *)
(* ConfirmedBelowTip are why it clears all of them).                       *)
(***************************************************************************)
EXTENDS Naturals, FiniteSets

CONSTANTS
    Peer,          \* the peers that may connect
    Block,         \* all block hashes
    Tx,            \* the wallet's transactions
    None,          \* a NULL pointer, or the prevBlock of the first block
    Prev,          \* [Block -> Block \cup {None}] block->prevBlock
    Height,        \* [Block -> Nat] height in the network's block tree
    TxOf,          \* [Block -> SUBSET Tx] the hashes in the merkleblock
    Checkpoint,    \* the blocks of params->checkpoints
    Start,         \* the checkpoint a new wallet starts from (earliestKeyTime)
    Rejected,      \* the blocks params->verifyDifficulty refuses
    Stale,         \* the blocks older than one week
    PeerLastBlock, \* [Peer -> Nat] the height in the peer's version message
    Lag,           \* how far a peer may be behind our chain (10)
    SaveMargin,    \* distance from the tip up to which transitions are saved (100)
    BLOCK_DIFFICULTY_INTERVAL,
    RescanHeights, \* the block numbers the application rescans from
    MaxRescans,    \* bound: calls of BRPeerManagerRescan...
    MaxRestarts    \* bound: restarts of the program

I == BLOCK_DIFFICULTY_INTERVAL

ASSUME ChainAssumption ==
    /\ None \notin Block /\ None \notin Peer /\ None \notin {"assert", "freed"}
    /\ IsFiniteSet(Block)
    /\ Prev \in [Block -> Block \cup {None}]
    /\ Height \in [Block -> Nat]
    /\ \A b \in Block : Prev[b] # None => Height[b] = Height[Prev[b]] + 1
    /\ TxOf \in [Block -> SUBSET Tx]
    /\ Checkpoint \subseteq Block
    /\ Start \in Checkpoint
    /\ Rejected \subseteq Block /\ Stale \subseteq Block
    /\ PeerLastBlock \in [Peer -> Nat]
    /\ Lag \in Nat /\ SaveMargin \in Nat
    /\ I \in Nat \ {0}
    /\ RescanHeights \subseteq Nat
    /\ MaxRescans \in Nat /\ MaxRestarts \in Nat
    \* BRChainParams.c: checkpoints "must be at difficulty transition boundaries"
    /\ \A c \in Checkpoint : Height[c] % I = 0

VARIABLES
    blocks,          \* manager->blocks: [hash -> prevBlock]; a checkpoint starts without one
    orphans,         \* manager->orphans, at most one block per prevBlock
    lastBlock,       \* manager->lastBlock
    estimatedHeight, \* manager->estimatedHeight
    bloomFilter,     \* manager->bloomFilter # NULL
    connected,       \* the peers in manager->connectedPeers
    downloadPeer,    \* manager->downloadPeer
    next,            \* [Peer -> the orphan its thread relays next, or None]
    confirmed,       \* [Tx -> SUBSET Nat] {} when unconfirmed, else {the height}
    saved,           \* the blocks in the persistent store
    failed,          \* None, "assert" or "freed": the program has stopped (see Alive)
    rescans, restarts,
    base             \* history: height of lastBlock after New or Rescan

netVars == <<bloomFilter, connected, downloadPeer>>
runVars == <<rescans, restarts, base>>
vars == <<blocks, orphans, lastBlock, estimatedHeight, netVars, next, confirmed, saved,
          failed, runVars>>

-----------------------------------------------------------------------------
(* The block set: B stands for a value of blocks. *)

\* BRSetAdd(blocks, b), and b as it is received
Put(B, b) == [x \in DOMAIN B \cup {b} |-> IF x = b THEN Prev[b] ELSE B[x]]

\* BRSetGet(blocks, &b->prevBlock)
PrevIn(B, b) == IF b \in DOMAIN B /\ B[b] \in DOMAIN B THEN B[b] ELSE None

\* the n-th block before b, found through B
Back(B, b, n) ==
    LET back[k \in 0..n] == IF k = 0 THEN b ELSE PrevIn(B, back[k - 1])
    IN  back[n]

\* b and the blocks before it that a walk through B finds: each is one lower than the last
Walk(B, b) ==
    {x \in DOMAIN B \cup {b} : Height[x] <= Height[b] /\ Back(B, b, Height[b] - Height[x]) = x}

MainChain == Walk(blocks, lastBlock)

\* the checkpoints as BRPeerManagerNew adds them: without a prevBlock
Checkpoints == [c \in Checkpoint |-> None]

\* mutant: the orphans are a plain set, siblings stay beside each other
AddOrphanBeside(b) == orphans \cup {b}

\* manager->orphans is indexed by prevBlock: a new orphan replaces its sibling
AddOrphan(b) == {o \in orphans : Prev[o] # Prev[b]} \cup {b}

-----------------------------------------------------------------------------
(* _BRPeerManagerVerifyBlock *)

Transition(b) == Height[b] % I = 0

PriorTransition(b) == Back(Put(blocks, b), b, I)

\* the blocks freed below the previous transition when b is one
Pruned(b) ==
    LET prior == PriorTransition(b)
    IN  IF Transition(b) /\ prior # None
        THEN {o \in Walk(blocks, prior) \ {prior} : ~Transition(o)}
        ELSE {}

\* the block set after VerifyBlock
Kept(b) == [x \in DOMAIN blocks \ Pruned(b) |-> blocks[x]]

VerifyBlock(b) ==
    /\ Transition(b) => PriorTransition(b) # None
    /\ b \notin Rejected
    /\ \A c \in Checkpoint : Height[c] = Height[b] => c = b

-----------------------------------------------------------------------------
(* The cases of _peerRelayedBlock for a block b whose prevBlock is known and   *)
(* that VerifyBlock accepts; B is the block set after pruning.                 *)

\* mutant: a transaction that has a height keeps it
ConfirmNew(S) ==
    [t \in Tx |-> IF confirmed[t] = {} /\ \E b \in S : t \in TxOf[b]
                  THEN {Height[CHOOSE b \in S : t \in TxOf[b]]}
                  ELSE confirmed[t]]

\* BRWalletUpdateTransactions for the transactions of the blocks in S
Confirm(S) ==
    [t \in Tx |-> IF \E b \in S : t \in TxOf[b]
                  THEN {Height[CHOOSE b \in S : t \in TxOf[b]]}
                  ELSE confirmed[t]]

\* the blocks saved from b back, saveCount of them at most, cut so that the
\* lowest is a difficulty transition
SaveList(B, b, saveCount) ==
    LET walked == {o \in Walk(B, b) : Height[b] - Height[o] < saveCount}
    IN  {o \in walked : \E s \in walked : Transition(s) /\ Height[s] <= Height[o]}

\* _BRWalletManagerSaveBlocks: one file for each block.  When more than one is saved it
\* first calls fileServiceClear, which removes nothing (Persistence.Cleared), although
\* BRPeerManager.h has "if replace is true, remove any previously saved blocks first":
\* older blocks and those of abandoned branches stay in the files.
Save(S) == saved' = saved \cup S

SyncedCount(b) == (Height[b] % I) + I + 1

\* new block extends main chain
Extend(p, B, b) ==
    /\ Prev[b] = lastBlock
    /\ blocks' = Put(B, b)
    /\ lastBlock' = b
    /\ confirmed' = Confirm({b})
    /\ Save(IF Height[b] = estimatedHeight
            THEN SaveList(Put(B, b), b, SyncedCount(b))
            ELSE IF Transition(b) /\ Height[b] + SaveMargin < estimatedHeight
                 THEN SaveList(Put(B, b), b, 1) ELSE {})
    /\ UNCHANGED failed

\* we already have the block: the walk from lastBlock to its height must succeed
Existing(p, B, b) ==
    LET down == IF Height[lastBlock] > Height[b]
                THEN Back(B, lastBlock, Height[lastBlock] - Height[b]) ELSE lastBlock
    IN  /\ Prev[b] # lastBlock
        /\ b \in DOMAIN B
        /\ IF down = None
           THEN failed' = "assert" /\ UNCHANGED <<blocks, confirmed>>
           ELSE /\ confirmed' = IF down = b THEN Confirm({b}) ELSE confirmed
                /\ blocks' = Put(B, b)
                /\ UNCHANGED failed
        /\ UNCHANGED <<lastBlock, saved>>

\* special case, new block mined during rescan
MinedDuringRescan(p, B, b) ==
    /\ Prev[b] # lastBlock
    /\ b \notin DOMAIN B
    /\ Height[lastBlock] < PeerLastBlock[p]
    /\ Height[b] > Height[lastBlock] + 1

\* a fork older than the most recent checkpoint
OldFork(p, B, b) ==
    /\ Prev[b] # lastBlock
    /\ b \notin DOMAIN B
    /\ ~MinedDuringRescan(p, B, b)
    /\ \E c \in Checkpoint : Height[b] <= Height[c]

NewFork(p, B, b) ==
    /\ Prev[b] # lastBlock
    /\ b \notin DOMAIN B
    /\ ~MinedDuringRescan(p, B, b)
    /\ ~OldFork(p, B, b)

\* mutant: the fork must be longer by two blocks
LongerByTwo(b) == Height[b] > Height[lastBlock] + 1

Longer(b) == Height[b] > Height[lastBlock]

\* new block is on a fork that is not longer than the main chain
Fork(p, B, b) ==
    /\ NewFork(p, B, b)
    /\ ~Longer(b)
    /\ blocks' = Put(B, b)
    /\ UNCHANGED <<lastBlock, confirmed, saved, failed>>

\* walk back to where the fork joins the main chain: where both walks stop
Join(B, b) ==
    LET join[x \in Block \cup {None}, y \in Block \cup {None}] ==
            IF x = None \/ y = None \/ x = y THEN <<x, y>>
            ELSE LET px == PrevIn(B, x)
                 IN  join[px, IF px # None /\ Height[px] < Height[y] THEN PrevIn(B, y) ELSE y]
    IN  join[b, lastBlock]

\* mutant: the block after the join point stays confirmed
UnconfirmedAfterNext(t, h) == {x \in confirmed[t] : x <= h + 1}

\* BRWalletSetTxUnconfirmedAfter
UnconfirmedAfter(t, h) == {x \in confirmed[t] : x <= h}

\* mutant: only the new tip's transactions get their height
NewMainTip(C, b, join) == {b}

\* the blocks whose transactions get their heights: none if the main chain's walk
\* ended before the join point
NewMain(C, b, join) ==
    IF join = None THEN {} ELSE {o \in Walk(C, b) : Height[o] > Height[join]}

\* the fork is now longer than the main chain
Reorganize(p, B, b) ==
    LET C == Put(B, b)
        fork == Join(C, b)[1]
        main == Join(C, b)[2]
        above == NewMain(C, b, main)
    IN  /\ NewFork(p, B, b)
        /\ Longer(b)
        /\ blocks' = C
        /\ IF fork = None
           THEN failed' = "assert" /\ UNCHANGED <<lastBlock, confirmed, saved>>
           ELSE /\ confirmed' =
                     [t \in Tx |-> IF \E o \in above : t \in TxOf[o] THEN Confirm(above)[t]
                                   ELSE UnconfirmedAfter(t, Height[fork])]
                /\ lastBlock' = b
                /\ Save(IF Height[b] = estimatedHeight
                        THEN SaveList(C, b, SyncedCount(b)) ELSE {})
                /\ UNCHANGED failed

-----------------------------------------------------------------------------
(* _peerRelayedBlock *)

\* assertions are compiled in (build.gradle), so a failed one ends the program
Alive == failed = None

\* mutant: orphans are looked up only after a block of the main chain
TakeNextOnMain(p, O, b) ==
    LET child == {o \in O : Prev[o] = b /\ b = lastBlock'}
    IN  /\ estimatedHeight' = IF Height[b] > estimatedHeight THEN Height[b] ELSE estimatedHeight
        /\ next' = [next EXCEPT ![p] = IF child = {} THEN None ELSE CHOOSE o \in child : TRUE]
        /\ orphans' = O \ child

\* the block was kept and its height is known: its child may be an orphan
TakeNext(p, O, b) ==
    LET child == {o \in O : Prev[o] = b}
    IN  /\ estimatedHeight' = IF Height[b] > estimatedHeight THEN Height[b] ELSE estimatedHeight
        /\ next' = [next EXCEPT ![p] = IF child = {} THEN None ELSE CHOOSE o \in child : TRUE]
        /\ orphans' = O \ child

\* _BRPeerManagerLoadMempools when the chain download is complete: the orphans are
\* freed if a filter is loaded, that is for any peer still connected except a
\* download peer with few false positives
LoadMempools(b) == IF Height[b] = estimatedHeight THEN {orphans, {}} ELSE {orphans}

\* the block was freed, or waits for its parent
NoNext(p) == next' = [next EXCEPT ![p] = None] /\ UNCHANGED estimatedHeight

\* ignore potentially incomplete blocks when a filter update is pending
IgnoreUnfiltered(p, b) ==
    /\ ~bloomFilter
    /\ NoNext(p)
    /\ UNCHANGED <<blocks, orphans, lastBlock, confirmed, saved, failed>>

Orphan(p, b) ==
    /\ bloomFilter
    /\ Prev[b] \notin DOMAIN blocks
    /\ orphans' = IF b \in Stale THEN orphans ELSE AddOrphan(b)
    /\ NoNext(p)
    /\ UNCHANGED <<blocks, lastBlock, confirmed, saved, failed>>

\* an invalid block; the blocks before the transition are freed all the same
Refuse(p, b) ==
    /\ bloomFilter
    /\ Prev[b] \in DOMAIN blocks
    /\ lastBlock \notin Pruned(b)
    /\ ~VerifyBlock(b)
    /\ blocks' = Kept(b)
    /\ NoNext(p)
    /\ UNCHANGED <<orphans, lastBlock, confirmed, saved, failed>>

\* VerifyBlock frees the block lastBlock points to, which is read at once: the
\* outcome is undefined and the program is not followed any further
FreeLastBlock(p, b) ==
    /\ bloomFilter
    /\ Prev[b] \in DOMAIN blocks
    /\ lastBlock \in Pruned(b)
    /\ failed' = "freed"
    /\ blocks' = Kept(b)
    /\ NoNext(p)
    /\ UNCHANGED <<orphans, lastBlock, confirmed, saved>>

Accept(p, b) ==
    LET B == Kept(b)
    IN  /\ bloomFilter
        /\ Prev[b] \in DOMAIN blocks
        /\ lastBlock \notin Pruned(b)
        /\ VerifyBlock(b)
        /\ \/ /\ Extend(p, B, b) \/ Reorganize(p, B, b)
              /\ \E O \in LoadMempools(b) : TakeNext(p, O, b)
           \/ /\ Existing(p, B, b) \/ Fork(p, B, b)
              /\ TakeNext(p, orphans, b)
           \/ /\ MinedDuringRescan(p, B, b)
              /\ TakeNext(p, AddOrphan(b), b)
              /\ blocks' = B
              /\ UNCHANGED <<lastBlock, confirmed, saved, failed>>
           \/ /\ OldFork(p, B, b)
              /\ NoNext(p)
              /\ blocks' = B
              /\ UNCHANGED <<orphans, lastBlock, confirmed, saved, failed>>

RelayedBlock(p, b) ==
    /\ Alive
    /\ \/ IgnoreUnfiltered(p, b)
       \/ Orphan(p, b)
       \/ Refuse(p, b)
       \/ FreeLastBlock(p, b)
       \/ Accept(p, b)
    /\ UNCHANGED <<netVars, runVars>>

\* a peer sends a block, whether asked for or not
PeerRelaysBlock(p, b) == p \in connected /\ next[p] = None /\ RelayedBlock(p, b)

\* the call of _peerRelayedBlock by itself
RelayNext(p) == next[p] # None /\ RelayedBlock(p, next[p])

-----------------------------------------------------------------------------
(* Peers, the bloom filter, rescans and restarts. *)

\* _BRPeerManagerLoadBloomFilter: orphans received on an old filter are freed
LoadBloomFilter == bloomFilter' = TRUE /\ orphans' = {}

\* _peerConnected: keep the download peer, or take the highest of all peers
PeerConnected(p) ==
    /\ Alive
    /\ p \notin connected
    /\ PeerLastBlock[p] + Lag >= Height[lastBlock]
    /\ connected' = connected \cup {p}
    /\ IF downloadPeer # None /\ (\/ PeerLastBlock[downloadPeer] >= PeerLastBlock[p]
                                  \/ Height[lastBlock] >= PeerLastBlock[p])
       THEN /\ IF Height[lastBlock] >= PeerLastBlock[p]
               THEN LoadBloomFilter ELSE UNCHANGED <<bloomFilter, orphans>>
            /\ UNCHANGED <<downloadPeer, estimatedHeight>>
       ELSE /\ \E q \in connected' :
                  /\ \A r \in connected' : PeerLastBlock[q] >= PeerLastBlock[r]
                  /\ downloadPeer' = q
                  /\ estimatedHeight' = PeerLastBlock[q]
            /\ LoadBloomFilter
    /\ UNCHANGED <<blocks, lastBlock, next, confirmed, saved, failed, runVars>>

\* _peerDisconnected, the last thing a peer's thread does
PeerDisconnected(p) ==
    /\ Alive
    /\ p \in connected
    /\ next[p] = None
    /\ connected' = connected \ {p}
    /\ downloadPeer' = IF p = downloadPeer THEN None ELSE downloadPeer
    /\ UNCHANGED <<blocks, orphans, lastBlock, estimatedHeight, bloomFilter, next, confirmed,
                   saved, failed, runVars>>

\* _peerRelayedTx: a wallet address was used that the filter does not watch ahead
FilterExhausted ==
    /\ Alive
    /\ bloomFilter
    /\ connected # {}
    /\ bloomFilter' = FALSE
    /\ UNCHANGED <<blocks, orphans, lastBlock, estimatedHeight, connected, downloadPeer, next,
                   confirmed, saved, failed, runVars>>

\* _updateFilterPingDone, when the pong to any filter update's ping comes: while
\* syncing only the download peer gets the new filter, otherwise every peer
UpdateFilterPingDone ==
    LET loads == Height[lastBlock] < estimatedHeight => downloadPeer # None
    IN  /\ Alive
        /\ connected # {}
        /\ bloomFilter' = loads
        /\ orphans' = IF loads THEN {} ELSE orphans
        /\ UNCHANGED <<blocks, lastBlock, estimatedHeight, connected, downloadPeer, next,
                       confirmed, saved, failed, runVars>>

LastCheckpoint == CHOOSE c \in Checkpoint : \A d \in Checkpoint : Height[d] <= Height[c]

\* the checkpoint before height n, or the first one
CheckpointBefore(n) ==
    LET below == {c \in Checkpoint : Height[c] < n}
        first == CHOOSE c \in Checkpoint : \A d \in Checkpoint : Height[c] <= Height[d]
    IN  IF below = {} THEN first
        ELSE CHOOSE c \in below : \A d \in below : Height[d] <= Height[c]

\* _BRPeerManagerLookupBlockFromBlockNumber: in the walk from lastBlock, else a
\* checkpoint of that height, else the checkpoint before it
BlockFromNumber(n) ==
    LET known == {b \in MainChain : Height[b] = n}
        exact == {c \in Checkpoint : Height[c] = n}
    IN  CASE known # {} -> CHOOSE b \in known : TRUE
          [] known = {} /\ exact # {} -> CHOOSE c \in exact : TRUE
          [] OTHER -> CheckpointBefore(n)

\* the three rescan functions set lastBlock back and disconnect the download peer,
\* whose thread then ends (PeerDisconnected); the blocks above stay in the set
Rescan(b) ==
    /\ Alive
    /\ downloadPeer # None
    /\ rescans < MaxRescans
    /\ b \in {Start, LastCheckpoint} \cup {BlockFromNumber(n) : n \in RescanHeights}
    /\ lastBlock' = b
    /\ base' = Height[b]
    /\ rescans' = rescans + 1
    /\ UNCHANGED <<blocks, orphans, estimatedHeight, netVars, next, confirmed, saved, failed,
                   restarts>>

\* BRPeerManagerNew: from the highest saved transition follow the saved blocks;
\* the other saved blocks stay among the orphans.  Two saved blocks with the same
\* prevBlock replace each other in the order of the file, which is any order: O
\* has one of them, so what leads back to first through O is one chain.
Restored(O, first) ==
    LET before == [x \in O \cup {first} |-> Prev[x]]
    IN  {o \in O \cup {first} : first \in Walk(before, o)}

OnePerPrev(S) == {O \in SUBSET S : /\ \A o, q \in O : Prev[o] = Prev[q] => o = q
                                   /\ \A s \in S : \E o \in O : Prev[o] = Prev[s]}

\* mutant: the chain starts at the highest saved block, transition or not
HighestSaved == {b \in saved : \A o \in saved : Height[o] <= Height[b]}

\* "find last transition block" among the saved ones
LastTransition == {b \in saved : Transition(b) /\ \A o \in saved :
                                     Transition(o) => Height[o] <= Height[b]}

Restart ==
    /\ restarts < MaxRestarts
    /\ restarts' = restarts + 1
    /\ \E O \in OnePerPrev(saved) :
          IF LastTransition = {}
          THEN blocks' = Checkpoints /\ lastBlock' = Start /\ orphans' = O
          ELSE \E first \in LastTransition :
                  LET chain == Restored(O, first)
                  IN  /\ blocks' = [x \in Checkpoint \cup chain |->
                                     IF x \in chain THEN Prev[x] ELSE None]
                      /\ lastBlock' \in {b \in chain : \A o \in chain : Height[o] <= Height[b]}
                      /\ orphans' = {o \in O : \A b \in chain : Prev[o] # Prev[b]}
    /\ base' = Height[lastBlock']
    /\ estimatedHeight' = 0
    /\ bloomFilter' = FALSE
    /\ connected' = {}
    /\ downloadPeer' = None
    /\ next' = [p \in Peer |-> None]
    /\ failed' = None
    /\ UNCHANGED <<confirmed, saved, rescans>>

Init ==
    /\ blocks = Checkpoints
    /\ orphans = {}
    /\ lastBlock = Start
    /\ estimatedHeight = 0
    /\ bloomFilter = FALSE
    /\ connected = {}
    /\ downloadPeer = None
    /\ next = [p \in Peer |-> None]
    /\ confirmed = [t \in Tx |-> {}]
    /\ saved = {}
    /\ failed = None
    /\ rescans = 0 /\ restarts = 0
    /\ base = Height[Start]

Next ==
    \/ \E p \in Peer, b \in {x \in Block : Prev[x] # None} : PeerRelaysBlock(p, b)
    \/ \E p \in Peer : RelayNext(p) \/ PeerConnected(p) \/ PeerDisconnected(p)
    \/ FilterExhausted \/ UpdateFilterPingDone
    \/ \E b \in Block : Rescan(b)
    \/ Restart

Spec == Init /\ [][Next]_vars

-----------------------------------------------------------------------------
(* Properties. *)

\* b and all blocks before it in the network's tree, known or not
Ancestry(b) == Walk(Prev, b)

\* The state of _peerRelayedBlock has its type, blocks are linked to the blocks
\* they follow and the orphans are indexed by prevBlock.
TypeOK ==
    /\ DOMAIN blocks \subseteq Block
    /\ \A b \in DOMAIN blocks : blocks[b] = Prev[b] \/ (b \in Checkpoint /\ blocks[b] = None)
    /\ orphans \subseteq Block
    /\ \A o, q \in orphans : Prev[o] = Prev[q] => o = q
    /\ lastBlock \in Block
    /\ estimatedHeight \in Nat
    /\ bloomFilter \in BOOLEAN
    /\ connected \subseteq Peer
    /\ downloadPeer \in connected \cup {None}
    /\ next \in [Peer -> Block \cup {None}]
    /\ confirmed \in [Tx -> SUBSET Nat]
    /\ \A t \in Tx : Cardinality(confirmed[t]) <= 1
    /\ saved \subseteq Block
    /\ failed \in {None, "assert", "freed"}
    /\ rescans \in 0..MaxRescans /\ restarts \in 0..MaxRestarts
    /\ base \in Nat

\* Whatever VerifyBlock frees, whatever fork becomes the main chain and wherever a
\* rescan or a restart puts lastBlock, the walk from lastBlock reaches the last
\* difficulty transition: the next transition can be verified.  (After a rescan only
\* when no fork that leaves between two transitions is relayed: MCBlockChain_pruned.cfg
\* shows that such a fork can lose the blocks it leads back to.)
TransitionReachable ==
    Alive => \E b \in MainChain : Transition(b) /\ Height[lastBlock] - Height[b] < I

\* Every wallet transaction of a block of the main chain has that block's height,
\* whichever forks were the main chain before and whichever peer relayed the blocks
\* in whatever order.  Claimed for the blocks above the one the program or the last
\* rescan started from, and for forks that leave the main chain above the blocks
\* VerifyBlock has freed or a restart has not loaded: MCBlockChain_deep.cfg and
\* MCBlockChain_restored.cfg show that a deeper one gets no heights.
MainChainConfirmed ==
    Alive => \A b \in Ancestry(lastBlock) :
                Height[b] > base => \A t \in TxOf[b] : confirmed[t] = {Height[b]}

\* A confirmed transaction is in a block of the main chain at the height it has:
\* a reorganisation leaves no height of the abandoned branch behind.  (Until the
\* first rescan, which moves the tip below confirmed transactions, and for the same
\* forks.)
ConfirmedOnMainChain ==
    Alive => \A t \in Tx : \A h \in confirmed[t] :
                \E b \in Ancestry(lastBlock) : Height[b] = h /\ t \in TxOf[b]

\* No known block is higher than the tip: a fork that overtakes the main chain is
\* adopted at once.  (Until the first rescan, which moves the tip below known blocks.)
HighestChain == Alive => \A b \in DOMAIN blocks \ Checkpoint : Height[b] <= Height[lastBlock]

\* An orphan's parent is unknown: when the parent comes, by whichever thread and
\* by whichever case, the orphan is taken out and relayed.  (Until the first rescan
\* or restart, which keep blocks with a known parent among the orphans, and for a
\* wallet that starts at the last checkpoint: BlockChainProofs.)
OrphansWait == Alive => \A o \in orphans : Prev[o] \notin DOMAIN blocks

\* `assert (NULL != b)` in the two walks of _peerRelayedBlock: the walk back from
\* lastBlock to an already known block's height, and from a fork to the main chain,
\* always arrives.
\* The code does not have this property: see MCBlockChain_assert.cfg.
AssertionsHold == failed # "assert"

\* manager->lastBlock is a block of manager->blocks: what the memory of
\* VerifyBlock frees is never the block a rescan goes on from.
\* The code does not have this property: see MCBlockChain_freed.cfg.
LastBlockKept == failed # "freed"
=============================================================================
