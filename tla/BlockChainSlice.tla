-------------------------- MODULE BlockChainSlice ---------------------------
(***************************************************************************)
(* The Ethereum block chain slice (BREthereumBCS.c, with the block status  *)
(* of BREthereumBlock.c) in the P2P modes.                                 *)
(*                                                                         *)
(* The slice keeps the last blocks of the chain, linked from the newest    *)
(* one by their next pointers, the orphans beside it, and the transactions *)
(* of one account.  For every new header it asks LES for what it needs of  *)
(* the block; a block whose requests are all answered is complete, and its *)
(* transactions are then handled.  All of this runs on one thread, the     *)
(* event handler's: each action below is one dispatched event.  What       *)
(* varies is the order of the events: answers come in any order or never,  *)
(* and the transaction events the slice sends to itself wait in its queue. *)
(*                                                                         *)
(* Left out: logs, which are handled as transactions are; the status       *)
(* QUEUED, which is handled as PENDING is; the mode P2P_WITH_BRD_SYNC,     *)
(* which bounds a sync (SyncRange); and the difference between a node that *)
(* was lost (the request is made again) and a slow one.  The requests LES  *)
(* has are a set: of two equal ones, which a block that was reclaimed and  *)
(* fetched again can have made, one is answered.                           *)
(***************************************************************************)
EXTENDS Integers, Sequences, FiniteSetsExt

CONSTANTS
    Block,          \* the blocks the nodes have
    NoBlock,        \* NULL
    Genesis,        \* the genesis block
    Partial,        \* the checkpoints the slice starts from: known by number and time only
    Parent,         \* [Block -> Block \cup {NoBlock}]
    Number,         \* [Block -> Nat]
    Preference,     \* [Block -> Nat]: by difficulty, then by earlier time
    Tx,             \* transactions of the account
    TxOf,           \* [Block -> SUBSET Tx]
    NeedsReceipts,  \* blocks with logs of the account
    NeedsProof,     \* blocks that are roots of a canonical hash trie
    OrphanAge,      \* BCS_ORPHAN_AGE_OFFSET
    SaveCount,      \* BCS_SAVE_BLOCKS_COUNT
    ReorgLimit,     \* BCS_REORG_LIMIT
    RequestMax,     \* SYNC_LINEAR_REQUEST_MAXIMUM
    First,          \* the blocks the slice may be created with
    Idle, Cut,      \* no sync, as in SyncFeed
    Budgets         \* bound: how often each event that comes from outside occurs,
                    \* in several combinations

\* A block's parent has the number before its own (blockHeaderIsValid).
ASSUME SliceAssumption ==
    /\ IsFiniteSet(Block) /\ NoBlock \notin Block
    /\ Genesis \in Block /\ First \subseteq Block
    /\ Parent \in [Block -> Block \cup {NoBlock}]
    /\ Number \in [Block -> Nat] /\ Preference \in [Block -> Nat]
    /\ \A b \in Block : Parent[b] # NoBlock => Number[b] = Number[Parent[b]] + 1
    /\ TxOf \in [Block -> SUBSET Tx]
    /\ SaveCount \in Nat \ {0}

Kind == {"bodies", "receipts", "account", "proof"}

\* A transaction's status.  Included names the block.
Status == [type : {"unknown", "pending", "errored"}, block : {NoBlock}]
          \cup [type : {"included"}, block : Block]
Unknown     == [type |-> "unknown",  block |-> NoBlock]
Pending     == [type |-> "pending",  block |-> NoBlock]
Errored     == [type |-> "errored",  block |-> NoBlock]
Included(b) == [type |-> "included", block |-> b]
NoStatus    == [type |-> "none",     block |-> NoBlock]

Final(status) == status.type \in {"included", "errored"}

VARIABLES bcs,      \* the struct, with the requests LES has and the sync's feed
          signals,  \* the transaction events in the handler's queue, in order
          budget    \* what is left of the chosen one of Budgets

vars == <<bcs, signals, budget>>

Numbers == {Number[b] : b \in Block}

Feed == INSTANCE SyncFeed WITH feed <- bcs.sync, BlockNumber <- Nat

\* The struct.
BCS == [blocks : SUBSET Block, orphans : SUBSET Block,
        chain : Block \cup {NoBlock}, chainTail : Block,
        next : [Block -> Block \cup {NoBlock}],
        request : [Block -> [Kind -> {"not needed", "pending", "complete"}]],
        held : [Block -> SUBSET Tx],
        valid : SUBSET Block,
        transactions : [Tx -> Status \cup {NoStatus}],
        pendingTransactions : SUBSET Tx,
        saved : SUBSET Block,
        les : SUBSET ((Kind \X Block) \cup ({"headers"} \X Nat \X Nat)
                      \cup ({"status"} \X Tx)),
        sync : {Idle, Cut} \cup Feed!Feed,
        failed : BOOLEAN]

TypeOK == bcs \in BCS /\ signals \in Seq(Tx \X Status)

-----------------------------------------------------------------------------
\* Blocks.

\* Nothing of the block is asked for yet.
NothingAsked == [k \in Kind |-> "not needed"]

\* blockHasStatusComplete
Complete(s, b) == \A k \in Kind : s.request[b][k] # "pending"

\* The blocks from b along the pointers p, and then NoBlock.
Path(p, b) ==
    LET path[i \in 0..Cardinality(Block)] ==
            IF i = 0 THEN b
            ELSE IF path[i - 1] = NoBlock THEN NoBlock ELSE p[path[i - 1]]
    IN path

\* BCS_FOR_CHAIN
Walk(s) == Path(s.next, s.chain)

Chained(s) == {Walk(s)[i] : i \in 0..Cardinality(Block)} \ {NoBlock}

\* How many blocks of the chain are above the given one.
Above(s, bottom) ==
    Min({i \in 0..Cardinality(Block) : Walk(s)[i] \in {NoBlock, bottom}})

\* bcsReclaimBlock: the blocks are forgotten and freed.
ReclaimBlocks(s, old) ==
    [s EXCEPT !.orphans = @ \ old, !.blocks = @ \ old, !.valid = @ \ old,
              !.next    = [b \in Block |-> IF b \in old THEN NoBlock ELSE @[b]],
              !.request = [b \in Block |-> IF b \in old THEN NothingAsked ELSE @[b]],
              !.held    = [b \in Block |-> IF b \in old THEN {} ELSE @[b]]]

\* bcsExtendChain
ExtendChain(s, b) == [s EXCEPT !.next[b] = s.chain, !.chain = b]

\* bcsMakeOrphan
MakeOrphan(s, b) == [s EXCEPT !.orphans = @ \cup {b}, !.next[b] = NoBlock]

\* bcsMakeOrphan for the first n blocks of the chain.
Unchained(s, n) ==
    LET gone == {Walk(s)[i] : i \in 0..(n - 1)}
    IN [s EXCEPT !.orphans = @ \cup gone,
                 !.next = [b \in Block |-> IF b \in gone THEN NoBlock ELSE @[b]],
                 !.chain = Walk(s)[n]]

\* mutant: the orphan that is chained stays an orphan
ChainOneOrphanKept(s) ==
    LET children == {o \in s.orphans : Parent[o] = s.chain}
    IN IF children = {} THEN s ELSE ExtendChain(s, CHOOSE o \in children : TRUE)

\* One round of bcsChainOrphans: the preferred orphan whose parent is the head.
ChainOneOrphan(s) ==
    LET children == {o \in s.orphans : Parent[o] = s.chain}
        best     == CHOOSE o \in children :
                        \A c \in children : Preference[c] <= Preference[o]
    IN IF children = {} THEN s
       ELSE [ExtendChain(s, best) EXCEPT !.orphans = @ \ {best}]

\* bcsChainOrphans
ChainOrphans(s) ==
    LET round[n \in 0..Cardinality(s.orphans)] ==
            IF n = 0 THEN s ELSE ChainOneOrphan(round[n - 1])
    IN round[Cardinality(s.orphans)]

\* bcsPurgeOrphans: old orphans are dropped, and stay in blocks.
PurgeOrphans(s) ==
    [s EXCEPT !.orphans = {o \in @ : ~ /\ Number[s.chain] > OrphanAge
                                       /\ Number[o] < Number[s.chain] - OrphanAge
                                       /\ Complete(s, o)}]

\* bcsPendOrphanedTransactionsAndLogs
PendOrphaned(s) ==
    [s EXCEPT !.pendingTransactions =
         @ \cup {t \in Tx : s.transactions[t].block \in s.orphans}]

\* bcsUnwindChain
UnwindChain(s, depth, headNumber) ==
    LET stop == {i \in 0..Cardinality(Block) :
                    \/ i = depth
                    \/ Walk(s)[i] \in {NoBlock, s.chainTail}
                    \/ Number[Walk(s)[i]] < headNumber - depth}
    IN IF depth > headNumber THEN s ELSE PendOrphaned(Unchained(s, Min(stop)))

-----------------------------------------------------------------------------
\* Transactions.

\* mutant: the transaction is not made pending
HandleTransactionOnce(s, t, status) == [s EXCEPT !.transactions[t] = status]

\* bcsHandleTransaction: the transaction is known, or its status is replaced;
\* while that is not final it is asked for periodically.
HandleTransaction(s, t, status) ==
    [s EXCEPT !.transactions[t] = status,
              !.pendingTransactions = IF Final(status) THEN @ ELSE @ \cup {t}]

\* The transactions in the block, which are included and so final, are handled.
HandleHeld(s, b) ==
    [s EXCEPT !.transactions = [t \in Tx |-> IF t \in s.held[b] THEN Included(b) ELSE @[t]],
              !.held[b] = {}]

\* mutant: the transactions are taken from the block before its status is checked
ExtendTransactionsEarly(s, b) ==
    IF ~Complete(s, b) \/ b \notin s.valid THEN [s EXCEPT !.held[b] = {}]
    ELSE HandleHeld(s, b)

\* bcsExtendTransactionsAndLogsForBlockIfAppropriate: the transactions of a
\* complete and valid block are handled; a block that is in no list is freed.
ExtendTransactions(s, b) ==
    IF ~Complete(s, b) \/ b \notin s.valid THEN s
    ELSE IF s.chainTail # b /\ s.next[b] = NoBlock /\ b \notin s.orphans
         THEN ReclaimBlocks(HandleHeld(s, b), {b}) ELSE HandleHeld(s, b)

\* BCS_FOR_CHAIN down to, and without, the given block.
ExtendTransactionsAbove(s, bottom) ==
    LET handled[i \in 0..Above(s, bottom)] ==
            IF i = 0 THEN s ELSE ExtendTransactions(handled[i - 1], Walk(s)[i - 1])
    IN handled[Above(s, bottom)]

-----------------------------------------------------------------------------
\* Headers.

\* bcsReclaimAndSaveBlocksIfAppropriate with bcsSaveBlocks: a long chain keeps
\* its last blocks, and all of these but the head are saved.
ReclaimAndSave(s) ==
    LET from  == Number[s.chain] - SaveCount
        old   == {b \in Chained(s) : Number[b] < from}
        tail  == CHOOSE b \in Chained(s) : Number[b] = from
        short == [ReclaimBlocks(s, old) EXCEPT !.chainTail = tail, !.next[tail] = NoBlock]
    IN IF Number[s.chain] - Number[s.chainTail] < 2 * SaveCount THEN s
       ELSE [short EXCEPT !.saved = Chained(short) \ {short.chain}]

\* The end of bcsExtendChainIfPossible, for a block whose parent is given:
\* orphans may follow, and then the blocks above the parent are handled.
Extended(s, parent) ==
    LET purged == PurgeOrphans(ChainOrphans(s))
    IN ReclaimAndSave(PendOrphaned(ExtendTransactionsAbove(purged, parent)))

\* bcsSyncRange and bcsSyncStart, in the mode P2P_ONLY.
SyncRange(s, from, to) ==
    IF s.sync \notin {Idle, Cut} \/ to <= from THEN s
    ELSE [s EXCEPT !.sync = [tail |-> from, head |-> to, last |-> from, from |-> from]]

\* A header that is not from a sync and that the chain does not reach.
Orphaned(s, b) ==
    LET u == MakeOrphan(PurgeOrphans(ChainOrphans(s)), b)
    IN SyncRange(u, Number[u.chain], Min({Number[o] : o \in u.orphans}))

\* A header from a sync beyond the chain replaces it; incomplete blocks of the
\* old chain stay in blocks.
Adopt(s, b) ==
    [ReclaimBlocks(s, {c \in Chained(s) : Complete(s, c)}) EXCEPT
        !.chain = b, !.chainTail = b, !.next[b] = NoBlock]

\* bcsExtendChainIfPossible.  A header is inconsistent with a partial parent,
\* whose gas limit is zero, and is then left as it is.  With a parent that is
\* on the chain, that goes back to the parent.
ExtendChainIfPossible(s, b, isFromSync) ==
    LET parent == Parent[b]
        known  == parent \in s.blocks
        back   == Unchained(s, Above(s, parent))
    IN IF known /\ parent \in Partial THEN s
       ELSE IF ~known \/ parent \in s.orphans
            THEN IF ~isFromSync THEN Orphaned(s, b)
                 ELSE IF Number[b] > Number[s.chain] THEN Extended(Adopt(s, b), parent)
                 ELSE Extended(s, parent)
       ELSE IF back.chain = NoBlock THEN [back EXCEPT !.failed = TRUE]
       ELSE Extended(ExtendChain(back, b), parent)

\* What bcsHandleBlockHeaderInternal asks for.
Needed(b) == {"bodies"} \cup (IF b \in NeedsReceipts THEN {"receipts"} ELSE {})
                        \cup (IF b \in NeedsProof THEN {"proof"} ELSE {})

\* Requests for a block that it does not have yet.
Request(s, b, kinds) ==
    LET new == {k \in kinds : s.request[b][k] = "not needed"}
    IN [s EXCEPT !.request[b] = [k \in Kind |-> IF k \in new THEN "pending" ELSE @[k]],
                 !.les = @ \cup {<<k, b>> : k \in new}]

\* bcsHandleBlockHeaderInternal
HandleBlockHeader(s, b, isFromSync) ==
    IF s.failed \/ b \in s.blocks THEN s
    ELSE ExtendChainIfPossible(Request([s EXCEPT !.blocks = @ \cup {b}], b, Needed(b)),
                               b, isFromSync)

\* The ancestors of b from the given number on, and b, in ascending order.
Headers(b, from) ==
    LET up    == Path(Parent, b)
        count == Min({i \in 0..Cardinality(Block) :
                         \/ i = Cardinality(Block)
                         \/ up[i] = NoBlock
                         \/ Number[up[i]] < from})
    IN [i \in 1..count |-> up[count - i]]

\* bcsHandleBlockHeaders
HandleBlockHeaders(s, b, from, isFromSync) ==
    LET headers == Headers(b, from)
        handled[i \in 0..Len(headers)] ==
            IF i = 0 THEN s ELSE HandleBlockHeader(handled[i - 1], headers[i], isFromSync)
    IN handled[Len(headers)]

-----------------------------------------------------------------------------
\* Events.

\* An event that comes from outside, within its budget.
Outside(event) ==
    /\ budget[event] > 0
    /\ budget' = [budget EXCEPT ![event] = @ - 1]

Inside == UNCHANGED budget

Answered(request) == [bcs EXCEPT !.les = @ \ {request}]

\* bcsHandleAnnounce: a node has a new head, and says how many blocks of the
\* old chain it dropped; these are unwound unless a sync is under way.
HandleAnnounce(n, reorgDepth) ==
    LET depth == IF Feed!Active THEN 0 ELSE reorgDepth
        back  == IF 0 < depth /\ depth < ReorgLimit THEN UnwindChain(bcs, depth, n) ELSE bcs
    IN /\ Outside("announce")
       /\ bcs' = [back EXCEPT !.les = @ \cup {<<"headers", n, depth>>}]
       /\ UNCHANGED signals

\* The node sends the headers asked for, of the chain it has by then.
HeadersArrive(n, depth, b) ==
    /\ <<"headers", n, depth>> \in bcs.les
    /\ Number[b] = n
    /\ bcs' = HandleBlockHeaders(Answered(<<"headers", n, depth>>), b, n - depth, FALSE)
    /\ Inside /\ UNCHANGED signals

\* bcsHandleStatus: a node is connected.
HandleStatus(n) ==
    /\ Outside("status")
    /\ bcs' = SyncRange(bcs, Number[bcs.chain], n)
    /\ UNCHANGED signals

\* bcsSync: the client asks for a sync up to the head of the chain.
Sync(n) ==
    /\ Outside("sync")
    /\ bcs' = SyncRange([bcs EXCEPT !.sync = IF Feed!Active THEN Cut ELSE @],
                        n, Number[bcs.chain])
    /\ UNCHANGED signals

\* The sync hands over the headers from a number to b; the last of them ends it.
SyncReports(b, from) ==
    LET next == Feed!Advanced(from, Number[b])
    IN /\ Feed!Active
       /\ from \in bcs.sync.last..Number[b] /\ Number[b] <= bcs.sync.head
       /\ Number[b] = bcs.sync.head => Feed!Reaches(next)
       /\ bcs' = [HandleBlockHeaders(bcs, b, from, TRUE) EXCEPT
                    !.sync = IF Number[b] = bcs.sync.head THEN Idle ELSE next]
       /\ Inside /\ UNCHANGED signals

\* A node fails the sync.
SyncFails ==
    /\ Feed!Active
    /\ Outside("failure")
    /\ bcs' = [bcs EXCEPT !.sync = Cut]
    /\ UNCHANGED signals

\* The slice asserts that it waits for the answer.
Expects(b, k) == bcs.request[b][k] = "pending"

\* What was asked of block b has come, as the answer to the given request.
Receives(request, b, k) == [Answered(request) EXCEPT !.request[b][k] = "complete"]

Has(b, k) == Receives(<<k, b>>, b, k)

\* bcsHandleBlockBody: when the block has transactions of the account, all
\* there is to know of it is asked for.
WithBody(b) ==
    LET body == [Has(b, "bodies") EXCEPT !.held[b] = TxOf[b]]
    IN IF TxOf[b] = {} THEN body ELSE Request(body, b, Kind)

\* bcsHandleTransactionReceipts: when the block has logs of the account, so is
\* its proof.
WithReceipts(b) ==
    IF b \in NeedsReceipts THEN Request(Has(b, "receipts"), b, {"proof"})
    ELSE Has(b, "receipts")

\* bcsHandleAccountState
WithAccount(b) == Has(b, "account")

\* bcsHandleBlockProof: the proof that was asked for b names c; its total
\* difficulty makes c valid.
WithProof(b, c) == [Receives(<<"proof", b>>, c, "proof") EXCEPT !.valid = @ \cup {c}]

With(k, b) ==
    CASE k = "bodies"   -> WithBody(b)
      [] k = "receipts" -> WithReceipts(b)
      [] k = "account"  -> WithAccount(b)

\* An answer for block c arrives, which may have been forgotten; s is what it makes
\* of the struct.
Handled(request, k, c, s) ==
    /\ request \in bcs.les
    /\ bcs' = IF c \notin bcs.blocks THEN Answered(request)
              ELSE IF ~Expects(c, k) THEN [bcs EXCEPT !.failed = TRUE]
              ELSE ExtendTransactions(s, c)
    /\ Inside /\ UNCHANGED signals

Arrives(k, b) == k # "proof" /\ Handled(<<k, b>>, k, b, With(k, b))

\* A proof is asked for by number: the node names the block its own chain has there,
\* which after a fork need not be the one that asked.
ProofArrives(b, c) ==
    /\ Number[c] = Number[b]
    /\ Handled(<<"proof", b>>, "proof", c, WithProof(b, c))

\* A node cannot answer (PROVISION_ERROR_NODE_DATA), or has no proof: the
\* request is not made again, and the block stays incomplete.
NotAnswered(k, b) ==
    /\ <<k, b>> \in bcs.les
    /\ Outside("failure")
    /\ bcs' = Answered(<<k, b>>)
    /\ UNCHANGED signals

\* bcsHandleSubmitTransaction
HandleSubmitTransaction(t) ==
    /\ Outside("submit")
    /\ t \notin bcs.pendingTransactions
    /\ bcs' = [bcs EXCEPT !.pendingTransactions = @ \cup {t},
                          !.les = @ \cup {<<"status", t>>}]
    /\ signals' = Append(signals, <<t, Unknown>>)

\* bcsPeriodicDispatcher: the status of pending transactions is asked for.
PeriodicDispatcher ==
    /\ bcs.pendingTransactions # {}
    /\ bcs' = [bcs EXCEPT !.les = @ \cup {<<"status", t>> : t \in bcs.pendingTransactions}]
    /\ Inside /\ UNCHANGED signals

\* bcsHandleTransactionStatus: one of the nodes asked answers, with anything.
\* A status of the same type is not told again; a final one is asked for until
\* it was answered twice.
HandleTransactionStatus(t, status) ==
    LET old  == bcs.transactions[t]
        same == old.type = status.type
    IN /\ <<"status", t>> \in bcs.les
       /\ Outside("answer")
       /\ old # NoStatus
       /\ IF same
          THEN /\ bcs' = [bcs EXCEPT !.pendingTransactions =
                             IF Final(status) THEN @ \ {t} ELSE @]
               /\ UNCHANGED signals
          ELSE /\ bcs' = [bcs EXCEPT !.transactions[t] = status]
               /\ signals' = Append(signals, <<t, status>>)

\* bcsHandleTransaction, for the next transaction event in the queue.
HandleSignal ==
    /\ signals # <<>>
    /\ bcs' = HandleTransaction(bcs, Head(signals)[1], Head(signals)[2])
    /\ signals' = Tail(signals)
    /\ Inside

\* bcsCreate with one block, a checkpoint or a saved one, beside the genesis.
Created(b) ==
    [blocks |-> {Genesis, b}, orphans |-> {}, chain |-> b, chainTail |-> b,
     next |-> [c \in Block |-> NoBlock],
     request |-> [c \in Block |-> NothingAsked],
     held |-> [c \in Block |-> {}],
     valid |-> {Genesis, b} \cap ({Genesis} \cup Partial),
     transactions |-> [t \in Tx |-> NoStatus], pendingTransactions |-> {},
     saved |-> {}, les |-> {}, sync |-> Idle, failed |-> FALSE]

Init ==
    /\ bcs \in {Created(b) : b \in First}
    /\ signals = <<>>
    /\ budget \in Budgets

Answers ==
    \E b \in Block : \/ \E k \in Kind : Arrives(k, b) \/ NotAnswered(k, b)
                     \/ \E c \in Block : ProofArrives(b, c)
                     \/ \E r \in bcs.les : r[1] = "headers" /\ HeadersArrive(r[2], r[3], b)

Syncs ==
    \/ \E n \in Numbers : HandleStatus(n) \/ Sync(n)
    \/ \E b \in Block, from \in Numbers : SyncReports(b, from)
    \/ SyncFails

Transactions ==
    \E t \in Tx : \/ HandleSubmitTransaction(t)
                  \/ HandleTransactionStatus(t, Pending)
                  \/ HandleTransactionStatus(t, Errored)
                  \/ \E b \in Block : t \in TxOf[b] /\ HandleTransactionStatus(t, Included(b))

\* The program ends at an assertion that fails.
Next ==
    /\ ~bcs.failed
    /\ \/ \E n \in Numbers, depth \in 0..2 : depth < n /\ HandleAnnounce(n, depth)
       \/ Answers
       \/ Syncs
       \/ Transactions
       \/ PeriodicDispatcher
       \/ HandleSignal

Spec == Init /\ [][Next]_vars

-----------------------------------------------------------------------------
\* Properties.

\* From the head, the next pointers lead from each block to its parent, down
\* to the tail and no further; the blocks on the way are kept, and none of
\* them is an orphan.  Headers that arrive out of order, reorganizations, a
\* sync that replaces the chain and the reclaiming of old blocks all relink it.
ChainLinked ==
    ~bcs.failed =>
        /\ bcs.chainTail \in Chained(bcs)
        /\ Chained(bcs) \subseteq bcs.blocks \ bcs.orphans
        /\ \A b \in Chained(bcs) :
             bcs.next[b] = IF b = bcs.chainTail THEN NoBlock ELSE Parent[b]

\* A transaction whose status is not final is asked for, or will be as soon as
\* the event queued for it is handled, whatever the nodes answered in the
\* meantime ("A transaction is 'pending' if it's status is not 'INCLUDED' nor
\* 'ERRORED'", BREthereumBCSPrivate.h).
NonFinalIsPending ==
    \A t \in Tx :
        bcs.transactions[t] # NoStatus /\ ~Final(bcs.transactions[t]) =>
            \/ t \in bcs.pendingTransactions
            \/ \E i \in DOMAIN signals : signals[i][1] = t /\ ~Final(signals[i][2])

\* The transactions of a block on the chain are known once the block is
\* complete and valid, in whatever order its body, receipts, account and proof
\* arrived, before or after it was chained.
ChainedTransactionsKnown ==
    \A b \in Chained(bcs), t \in Tx :
        b \in bcs.valid /\ Complete(bcs, b) /\ bcs.request[b]["bodies"] = "complete"
            /\ t \in TxOf[b]
        => bcs.transactions[t] # NoStatus

\* A transaction that was found in a block that is not on the chain is asked
\* for: "Extend transactions and logs for block if and only if block is
\* 'complete' and in bcs->chain" (BREthereumBCS.c:1100), and one that is
\* included in an orphan is made pending (939-942).
\* The code does not have this property: see MCBlockChainSlice_orphaned.cfg.
OrphanedIsPending ==
    \A t \in Tx : bcs.transactions[t].block \in bcs.orphans => t \in bcs.pendingTransactions

\* "Must be there; right?" (BREthereumBCS.c:1222): the parent of a new block
\* is on the chain when it is known and not an orphan.
\* The code does not have this property: see MCBlockChainSlice_parent.cfg.
ParentIsChained == ~bcs.failed
=============================================================================
