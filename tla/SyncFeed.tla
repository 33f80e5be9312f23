------------------------------ MODULE SyncFeed ------------------------------
(***************************************************************************)
(* What a sync of the Ethereum block chain slice promises the slice, with  *)
(* nothing of how the headers are found: while a sync of the block numbers *)
(* tail..head is under way it hands over runs of consecutive headers, in   *)
(* ascending order, and it ends either early (the node failed it, or it    *)
(* was stopped) or with a last run that reaches head and goes back at      *)
(* least RequestMax blocks without a gap.  SyncRange implements this, and  *)
(* BlockChainSlice is built on it.                                         *)
(***************************************************************************)
EXTENDS Integers, FiniteSetsExt

CONSTANTS BlockNumber,  \* the block numbers of the instance, 0..n
          RequestMax,   \* SYNC_LINEAR_REQUEST_MAXIMUM
          Idle,         \* no sync (a model value)
          Cut           \* no sync, and the last one ended early (a model value)

VARIABLE feed           \* Idle, Cut, or the sync under way

\* The sync under way: its bounds, the last header handed over and the first
\* header of the run without a gap that ends there.
Feed == [tail: BlockNumber, head: BlockNumber, last: BlockNumber, from: BlockNumber]

Active == feed \notin {Idle, Cut}

FeedInit == feed = Idle

Start(t, h) ==
    /\ ~Active
    /\ t < h
    /\ feed' = [tail |-> t, head |-> h, last |-> t, from |-> t]

\* A run that begins at the last header handed over, or at the next one,
\* continues its run.
Advanced(a, b) ==
    [feed EXCEPT !.last = b, !.from = IF a <= feed.last + 1 THEN @ ELSE a]

\* The last run must go back far enough for the slice to chain its orphans.
Reaches(f) == f.last = f.head /\ f.from <= Max({f.tail, f.head - RequestMax})

Report(a, b) ==
    /\ Active
    /\ feed.last <= a /\ a <= b /\ b <= feed.head
    /\ feed' = Advanced(a, b)

\* The last run ends the sync.
ReportLast(a, b) ==
    /\ Active
    /\ feed.last <= a /\ a <= b /\ b <= feed.head
    /\ Reaches(Advanced(a, b))
    /\ feed' = Idle

Stop == Active /\ feed' = Cut

\* bcsSync stops the sync under way and starts another one at once.
Restart(t, h) ==
    /\ Active
    /\ t < h
    /\ feed' = [tail |-> t, head |-> h, last |-> t, from |-> t]

FeedNext ==
    \/ \E t, h \in BlockNumber : Start(t, h) \/ Restart(t, h)
    \/ \E a, b \in BlockNumber : Report(a, b) \/ ReportLast(a, b)
    \/ Stop

FeedSpec == FeedInit /\ [][FeedNext]_feed
=============================================================================
