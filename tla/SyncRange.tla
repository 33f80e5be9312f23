----------------------------- MODULE SyncRange ------------------------------
(***************************************************************************)
(* The sync of the Ethereum block chain slice (BREthereumBCSSync.c, with   *)
(* bcsSyncRange and bcsSync of BREthereumBCS.c).                           *)
(*                                                                         *)
(* A sync of the block numbers tail..head is a tree of ranges.  A small    *)
(* range asks a node for all its headers and reports them.  An n-ary range *)
(* asks for the headers at count + 1 evenly spaced numbers, then for the   *)
(* account state at each of them, and is searched further only between two *)
(* headers where the account differs.  The tree is worked off depth first, *)
(* one request at a time, and inner nodes do nothing but hold their        *)
(* children: the sequence todo of the leaves that remain, the first of     *)
(* which has its request out, is the whole tree.                           *)
(*                                                                         *)
(* Left out: the headers' content (a header is its number), the buffer of  *)
(* BCS_SYNC_RESULT_PERIOD results (it is handed over, in order, before the *)
(* handler that fills it returns), the choice of the node, and the answer  *)
(* to a request whose range bcsSync has released, which uses freed memory.  *)
(***************************************************************************)
EXTENDS Integers, Sequences, SequencesExt

CONSTANTS MaxNumber,     \* the highest block number of the instance
          RequestMax,    \* SYNC_LINEAR_REQUEST_MAXIMUM
          LinearLimit,   \* SYNC_LINEAR_LIMIT
          LimitIfNAry,   \* SYNC_LINEAR_LIMIT_IF_N_ARY
          NAryMin,       \* SYNC_N_ARY_REQUEST_MINIMUM
          NAryMax,       \* SYNC_N_ARY_REQUEST_MAXIMUM
          WordSize,      \* 2^64 in the code: block numbers are uint64_t
          ChangeSets,    \* bound: the sets of blocks that may change the account
          Starts,        \* bound: the pairs of numbers a sync is asked to go from and to
          MaxSyncs,      \* bound: the syncs of a behaviour
          Idle,          \* no sync (a model value)
          Cut            \* no sync, and the last one ended early (a model value)

\* The relations between the constants that the splitting of ranges needs; the
\* code's values (191, 1910, 100, 100 and 191) satisfy them.  No sync is not a sync.
ASSUME RangeAssumption ==
    /\ {RequestMax, LinearLimit, LimitIfNAry, NAryMin, NAryMax, MaxNumber} \subseteq Nat
    /\ 2 <= NAryMin /\ NAryMin < NAryMax /\ NAryMax <= RequestMax
    /\ LimitIfNAry <= RequestMax /\ RequestMax < LinearLimit
    /\ WordSize \in Nat /\ MaxNumber < WordSize
    /\ Starts \subseteq (0..MaxNumber) \X (0..MaxNumber)
    /\ ChangeSets \subseteq SUBSET (0..MaxNumber)
    /\ Idle # Cut
    /\ \A x \in {Idle, Cut} :
          /\ x \notin [tail: 0..MaxNumber, head: 0..MaxNumber]
          /\ x \notin [tail: 0..MaxNumber, head: 0..MaxNumber,
                      last: 0..MaxNumber, from: 0..MaxNumber]

BlockNumber == 0..MaxNumber

Small == "SYNC_LINEAR_SMALL"
NAry  == "SYNC_N_ARY"

\* A leaf of the tree of ranges.
NewRange(type, t, h, step) == [type |-> type, tail |-> t, head |-> h, step |-> step]

Leaf == [type: {Small, NAry}, tail: BlockNumber, head: BlockNumber,
         step: 1..MaxNumber]

VARIABLES mode,     \* P2P_ONLY or P2P_WITH_BRD_SYNC: the others never sync
          changed,  \* the blocks whose transactions change the account
          root,     \* Idle, Cut, or the numbers the sync under way goes from and to
          todo,     \* the leaves that remain, the first with its request out
          asked,    \* what that request asks for: "headers" or "accounts"
          reported, \* the numbers of the headers handed over
          last,     \* the last of them, or where the sync begins
          from,     \* where the run without a gap that ends at last begins
          progress, \* the progress told to the client, in order
          syncs     \* syncs begun, failed ones included

vars == <<mode, changed, root, todo, asked, reported, last, from, progress,
          syncs>>

\* bcsSyncIsActive
Active == root \notin {Idle, Cut}

TypeOK ==
    /\ mode \in {"P2P_ONLY", "P2P_WITH_BRD_SYNC"}
    /\ changed \in ChangeSets
    /\ root \in {Idle, Cut} \cup [tail: BlockNumber, head: BlockNumber]
    /\ todo \in Seq(Leaf)
    /\ asked \in {"headers", "accounts"}
    /\ reported \subseteq BlockNumber
    /\ last \in BlockNumber /\ from \in BlockNumber
    /\ progress \in Seq(BlockNumber)
    /\ syncs \in 0..MaxSyncs
    /\ (root \in {Idle, Cut}) = (todo = <<>>)

-----------------------------------------------------------------------------
\* How a range is split.

\* computeOptimalStep: the largest number of subranges that leaves the least
\* remainder.
OptimalCount(n) ==
    LET Counts == NAryMin..(NAryMax - 1)
        least  == Min({n % c : c \in Counts})
    IN Max({c \in Counts : n % c = least})

\* The small ranges of a SYNC_LINEAR_LARGE range.
SmallRanges(t, h) ==
    LET n == (h - t + RequestMax - 1) \div RequestMax
    IN [i \in 1..n |-> NewRange(Small, t + (i - 1) * RequestMax,
                             Min({t + i * RequestMax, h}), 1)]

\* mutant: one step spans the whole range
NAryRangesWhole(t, h) == <<NewRange(NAry, t, h, h - t)>>

\* An n-ary range, and a small one for the remainder if there is one.
NAryRanges(t, h) ==
    LET count == OptimalCount(h - t)
        step  == (h - t) \div count
        split == t + step * count
    IN <<NewRange(NAry, t, split, step)>>
       \o (IF split = h THEN <<>> ELSE <<NewRange(Small, split, h, 1)>>)

\* syncRangeCreate: the leaves of a range, by the number of blocks it spans.
Leaves(t, h, linearLargeLimit) ==
    IF h - t <= RequestMax THEN <<NewRange(Small, t, h, 1)>>
    ELSE IF h - t <= linearLargeLimit THEN SmallRanges(t, h)
    ELSE NAryRanges(t, h)

\* mutant: one tree for all the numbers
PlanOneTree(t, h) == Leaves(t, h, LinearLimit)

\* bcsSyncStart: the last RequestMax headers come from a linear range.
Plan(t, h) ==
    IF h - t < LinearLimit THEN Leaves(t, h, LinearLimit)
    ELSE Leaves(t, h - RequestMax, LinearLimit) \o Leaves(h - RequestMax, h, LinearLimit)

-----------------------------------------------------------------------------
\* bcsSyncRange in the mode P2P_WITH_BRD_SYNC syncs recent blocks only, and
\* computes the first of them without a borrow.
Adjusted(t, h) ==
    IF mode = "P2P_WITH_BRD_SYNC"
    THEN Max({t, (h - LinearLimit + 1) % WordSize}) ELSE t

\* Is there something to sync?
Syncable(t, h) == h > t /\ h > Adjusted(t, h)

\* A sync begins and tells the client so.
Begins(t, h) ==
    /\ syncs < MaxSyncs
    /\ syncs' = syncs + 1
    /\ root' = [tail |-> Adjusted(t, h), head |-> h]
    /\ todo' = Plan(Adjusted(t, h), h)
    /\ asked' = "headers"
    /\ reported' = {}
    /\ last' = Adjusted(t, h)
    /\ from' = Adjusted(t, h)
    /\ progress' = <<Adjusted(t, h)>>

\* The sync under way ends before its time: that is told as its end.
StopsEarly ==
    /\ progress' = Append(progress, root.head)
    /\ root' = Cut
    /\ todo' = <<>>
    /\ UNCHANGED <<reported, last, from>>

\* bcsSyncRange: a status or an orphan shows that the chain is behind, or the
\* client asks for a sync while none is under way.
SyncRange(t, h) ==
    /\ ~Active
    /\ Syncable(t, h)
    /\ Begins(t, h)
    /\ UNCHANGED <<mode, changed>>

\* bcsSync: the client asks for a sync while one is under way.  That one is
\* stopped, its ranges released though a request of theirs is out, and the new
\* one begins if there is something to sync.
SyncAgain(t, h) ==
    /\ Active
    /\ Syncable(t, h)
    /\ Begins(t, h)
    /\ UNCHANGED <<mode, changed>>

SyncStops(t, h) ==
    /\ Active
    /\ ~Syncable(t, h)
    /\ StopsEarly
    /\ UNCHANGED <<mode, changed, asked, syncs>>

-----------------------------------------------------------------------------
\* The answers.

\* syncRangeComplete: the next leaf's request goes out; when there is none the
\* root is complete, and with it the sync.
Complete(rest, told) ==
    /\ todo' = rest
    /\ asked' = "headers"
    /\ IF rest = <<>>
       THEN root' = Idle /\ progress' = Append(told, root.head)
       ELSE root' = root /\ progress' = told

\* mutant: every small range tells its end
ToldAtEveryEnd(number) == Append(progress, number)

\* The end is told once, when the root is complete: a small range that ends
\* where the root does tells nothing.
ToldAt(number) ==
    IF number = root.head THEN progress ELSE Append(progress, number)

\* All headers of a small range arrive and are reported.
SmallHeaders ==
    /\ Active
    /\ Head(todo).type = Small
    /\ reported' = reported \cup Head(todo).tail .. Head(todo).head
    /\ last' = Head(todo).head
    /\ from' = IF Head(todo).tail <= last + 1 THEN from ELSE Head(todo).tail
    /\ Complete(Tail(todo), ToldAt(Head(todo).head))
    /\ UNCHANGED <<mode, changed, syncs>>

\* The headers of an n-ary range arrive: the accounts at each are asked for.
NAryHeaders ==
    /\ Active
    /\ Head(todo).type = NAry /\ asked = "headers"
    /\ asked' = "accounts"
    /\ UNCHANGED <<mode, changed, root, todo, reported, last, from, progress, syncs>>

\* mutant: a change in the block at the upper number is left to the next range
DifferBelow(old, new) == \E b \in changed : old < b /\ b < new

\* The accounts at two numbers differ when a block between them changes it:
\* the nonce counts what the account sends, and without sending its balance
\* only grows.
Differ(old, new) == \E b \in changed : old < b /\ b <= new

\* The ranges of an n-ary range to search further.
Differing(range) ==
    LET count == (range.head - range.tail) \div range.step
        At(i) == range.tail + i * range.step
        Sub(i) == IF Differ(At(i - 1), At(i))
                  THEN Leaves(At(i - 1), At(i), LimitIfNAry) ELSE <<>>
    IN FlattenSeq([i \in 1..count |-> Sub(i)])

\* bcsSyncHandleAccountStates.
NAryAccounts ==
    /\ Active
    /\ Head(todo).type = NAry /\ asked = "accounts"
    /\ Complete(Differing(Head(todo)) \o Tail(todo), progress)
    /\ UNCHANGED <<mode, changed, reported, last, from, syncs>>

\* The node fails the request.
Fails ==
    /\ Active
    /\ StopsEarly
    /\ UNCHANGED <<mode, changed, asked, syncs>>

Init ==
    /\ mode \in {"P2P_ONLY", "P2P_WITH_BRD_SYNC"}
    /\ changed \in ChangeSets
    /\ root = Idle
    /\ todo = <<>>
    /\ asked = "headers"
    /\ reported = {}
    /\ last = 0
    /\ from = 0
    /\ progress = <<>>
    /\ syncs = 0

Next ==
    \/ \E s \in Starts : \/ SyncRange(s[1], s[2])
                         \/ SyncAgain(s[1], s[2])
                         \/ SyncStops(s[1], s[2])
    \/ SmallHeaders
    \/ NAryHeaders
    \/ NAryAccounts
    \/ Fails

Spec == Init /\ [][Next]_vars

\* LES answers every request, with data or with a failure.
Fairness == WF_vars(SmallHeaders \/ NAryHeaders \/ NAryAccounts \/ Fails)

FairSpec == Spec /\ Fairness

-----------------------------------------------------------------------------
\* Properties.

\* What the client is told of a sync goes forward: it begins once, at its
\* first block, and ends once, at its last one, whether the last range is the
\* root, the last of several, or the sync is stopped or fails before it
\* (bcsSyncRangeCallback: "we don't want to report 'end' twice").
ProgressAscends ==
    \A i, j \in DOMAIN progress : i < j => progress[i] < progress[j]

\* The last range of the sync is answered.
Completes == (SmallHeaders \/ NAryAccounts) /\ root' = Idle

\* A sync that runs to its end has reported every block that changes the
\* account: however the numbers split into ranges, subranges and remainders,
\* the search of the account states loses none of them.
SyncMissesNothing ==
    [][Completes => \A b \in changed :
           root.tail < b /\ b <= root.head => b \in reported']_vars

Feed == INSTANCE SyncFeed WITH
    feed <- IF ~Active THEN root
            ELSE [tail |-> root.tail, head |-> root.head, last |-> last, from |-> from]

\* The ranges implement the feed: headers come in ascending order, and a sync
\* that is not cut short ends with a gapless run of RequestMax headers up to
\* its head ("We MUST have the last N headers be from a linear sync").
SyncIsFeed == Feed!FeedSpec

\* Every sync ends, whatever the nodes answer: the search narrows.
SyncEnds == Active ~> ~Active
=============================================================================
