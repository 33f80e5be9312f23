---------------------------- MODULE PeerManager ----------------------------
(***************************************************************************)
(* The connections of bitcoin/BRPeerManager.c: choosing, dropping and      *)
(* reconnecting peers, the download peer, starting and stopping a sync,    *)
(* the pings that order a filter update, publishing transactions, and      *)
(* disconnecting.  What a block does to the chain is in module BlockChain; *)
(* here the chain is its height.                                           *)
(*                                                                         *)
(* Every peer has a thread (_peerThreadRoutine of BRPeer.c) that runs the  *)
(* manager's callbacks.  An action is one section under manager->lock.     *)
(* Where a function releases the lock and goes on, the rest is kept as the *)
(* steps of a continuation; several threads can be at the same one.        *)
(*                                                                         *)
(* Left out: the disconnect on a bad false-positive rate or on an invalid  *)
(* block while blocks are relayed (1178, 1232), which leaves what a peer's *)
(* failure leaves; a peer's thread that cannot be created (1653-1658); and *)
(* looking for peers because the known ones are three days old (1618).     *)
(***************************************************************************)
EXTENDS Integers, Sequences, SequencesExt, FiniteSets, FiniteSetsExt, Bags

CONSTANTS
    Peer,                  \* the addresses of peers
    NoPeer,                \* NULL
    LastBlock,             \* [Peer -> Nat]: the height a peer reports
    Unfit,                 \* the peers whose services or version are not supported
    Top,                   \* the height of the network's chain
    Tx,                    \* the wallet's transactions
    PEER_MAX_CONNECTIONS,
    MAX_CONNECT_FAILURES,
    Lag,                   \* how far a peer's chain may be behind (10)
    MaxThreads,            \* bound: how many threads wait for the lock in between
    Budget                 \* bounds: [op -> how often], for the environment's choices

ASSUME PeerManagerAssumption ==
    /\ NoPeer \notin Peer /\ IsFiniteSet(Peer)
    /\ Top \in Nat
    /\ LastBlock \in [Peer -> 0..Top]
    /\ Unfit \subseteq Peer
    /\ PEER_MAX_CONNECTIONS \in Nat \ {0}
    /\ MAX_CONNECT_FAILURES \in Nat \ {0}
    /\ Lag \in Nat
    /\ MaxThreads \in Nat \ {0}
    /\ Budget \in [{"connect", "disconnect", "rescan", "publish", "message", "mishap"} -> Nat]

VARIABLES
    conn,             \* [Peer -> the BRPeer of connectedPeers, and its thread]
    peers,            \* manager->peers
    downloadPeer,
    isConnected,
    failures,         \* connectFailureCount
    sync,             \* syncStartHeight > 0
    height,           \* lastBlock->height
    estimatedHeight,
    bloomFilter,      \* whether there is one
    maxConnectCount,
    peerThreadCount,
    conts,            \* a bag of continuations
    reachable,        \* networkIsReachable()
    published,        \* the transactions of publishedTx
    callback,         \* [Tx -> publishedTx[i].callback, 0 for NULL]
    called,           \* [publish callback -> how often it was called]
    publisher,        \* BRPeerManagerPublishTx without the lock: its transaction, or none
    wallet,           \* the wallet's unconfirmed transactions
    relays, requests, \* txRelays, txRequests: [Tx -> SUBSET Peer]
    budget            \* what is left of Budget

netVars  == <<peers, maxConnectCount, peerThreadCount, conts, reachable>>
syncVars == <<downloadPeer, isConnected, failures, sync, height, estimatedHeight>>
pubVars  == <<published, callback, called, publisher>>
txVars   == <<wallet, relays, requests>>
vars == <<conn, netVars, syncVars, bloomFilter, pubVars, txVars, budget>>

Gone == [state |-> "none", greet |-> FALSE, timer |-> FALSE, synced |-> FALSE,
         filter |-> FALSE, needsUpdate |-> FALSE, pongs |-> <<>>, mempool |-> FALSE, sentMempool |-> FALSE,
         inv |-> {}, error |-> "none"]

-----------------------------------------------------------------------------
(* A peer: what BRPeer.c does for the manager. *)

\* the members of connectedPeers, and those whose BRPeerConnectStatus is Connected
ConnectedPeers == {p \in Peer : conn[p].state # "none"}
Online(cs) == {p \in Peer : cs[p].state = "connected"}

\* BRPeerDisconnect: nothing happens before the socket is open; the thread notices when it
\* next reads, after it has handled the message it is at
Close(cs, p) ==
    IF cs[p].state \in {"handshake", "connected"} THEN [cs EXCEPT ![p].state = "closed"] ELSE cs

ScheduleDisconnect(cs, p, on) == [cs EXCEPT ![p].timer = on]

\* BRPeerSendPing: the callback is kept until the pong
SendPing(cs, p, done, q) == [cs EXCEPT ![p].pongs = Append(@, <<done, q>>)]

\* BRPeerSendMempool with _mempoolDone; a request that is refused fails without effect
SendMempool(cs, p, done) ==
    [cs EXCEPT ![p].sentMempool = TRUE,
               ![p].mempool = @ \/ (done /\ ~cs[p].sentMempool)]

\* the thread handles one message; once its socket is closed it handles no other
Reading(p) == conn[p].state \in {"connected", "closed"} /\ ~conn[p].greet
Handled(cs, p) == IF cs[p].state = "closed" THEN [cs EXCEPT ![p].state = "ended"] ELSE cs

-----------------------------------------------------------------------------
(* The manager's helpers, each from a value of conn to the next. *)

Publishing == \E t \in Tx : callback[t] # 0

\* _BRPeerManagerLoadBloomFilter, which BRPeerSendFilterload ends
LoadBloomFilter(cs, p) == [cs EXCEPT ![p].filter = TRUE, ![p].sentMempool = FALSE]

\* _BRPeerManagerPublishPendingTx
Announce(cs, p, txs, pending) == [cs EXCEPT ![p].timer = @ \/ pending, ![p].inv = txs]
PublishPendingTx(cs, p) == Announce(cs, p, published, Publishing)

\* _BRPeerManagerSyncStopped
SyncStopped(cs) ==
    IF downloadPeer = NoPeer \/ Publishing THEN cs
    ELSE ScheduleDisconnect(cs, downloadPeer, FALSE)

\* _BRPeerManagerLoadMempools; reload: the download peer's filter has degraded
LoadMempools(cs, dl, reload) ==
    [p \in Peer |->
        IF p \notin Online(cs) THEN cs[p]
        ELSE IF p # dl \/ reload
        THEN SendPing(PublishPendingTx(LoadBloomFilter(cs, p), p), p, "loadBloomFilterDone", p)[p]
        ELSE SendMempool(cs, p, TRUE)[p]]

\* _BRPeerManagerUpdateFilter
UpdateFilter(cs) ==
    IF downloadPeer = NoPeer THEN cs
    ELSE IF cs[downloadPeer].needsUpdate THEN cs
    ELSE [SendPing(cs, downloadPeer, "updateFilterPingDone", downloadPeer)
            EXCEPT ![downloadPeer].needsUpdate = TRUE]

\* what _BRPeerManagerRequestUnrelayedTx asks p for
Unrelayed(p) == {t \in wallet : p \notin relays[t] \cup requests[t]}

RequestUnrelayedTx(cs, p) ==
    /\ requests' = [t \in Tx |-> requests[t] \cup (IF t \in Unrelayed(p) THEN {p} ELSE {})]
    /\ conn' = IF Unrelayed(p) = {} THEN [cs EXCEPT ![p].synced = TRUE]
               ELSE IF cs[p].synced THEN cs
               ELSE SendPing(cs, p, "requestUnrelayedTxDone", p)
    /\ UNCHANGED <<wallet, relays>>

Spend(op) == budget[op] > 0 /\ budget' = [budget EXCEPT ![op] = @ - 1]

\* a thread goes on with these steps
Start(steps) == conts' = conts (+) SetToBag({steps})

\* the step of some thread that is at step s
Continue(steps, s) ==
    /\ BagIn(steps, conts)
    /\ Head(steps) = s

Proceed(steps, more) ==
    LET rest == more \o Tail(steps)
    IN  conts' = (conts (-) SetToBag({steps}))
                 (+) (IF rest = <<>> THEN EmptyBag ELSE SetToBag({rest}))

-----------------------------------------------------------------------------
(* BRPeerManagerConnect *)

ConnectSteps == <<"connect">>

Connect ==
    /\ Spend("connect")
    /\ Start(ConnectSteps)
    /\ UNCHANGED <<conn, peers, maxConnectCount, peerThreadCount, reachable, syncVars,
                   bloomFilter, pubVars, txVars>>

\* BRPeerConnect, for a new peer and for one that waits for the network
NewConn == [Gone EXCEPT !.state = IF reachable THEN "starting" ELSE "waiting", !.timer = reachable]

Retried == [p \in Peer |-> IF conn[p].state = "waiting" THEN NewConn ELSE conn[p]]

\* mutant: one connection more than the maximum
WantedMore == Max({0, maxConnectCount + 1 - Cardinality(ConnectedPeers)})

Wanted == Max({0, maxConnectCount - Cardinality(ConnectedPeers)})

\* random peers are added until there are enough; without any the sync has failed
AddPeers(known, cs) ==
    \E new \in SUBSET (known \ ConnectedPeers) :
        /\ Cardinality(new) = Min({Wanted, Cardinality(known \ ConnectedPeers)})
        /\ peerThreadCount' = peerThreadCount + Cardinality(new)
        /\ LET added == [p \in Peer |-> IF p \in new THEN NewConn ELSE cs[p]]
               none  == \A p \in Peer : added[p].state = "none"
           IN  /\ conn' = IF none THEN SyncStopped(added) ELSE added
               /\ sync' = (sync /\ ~none)

\* from the callback syncStarted, or from the start; FindPeers waits without the lock
ConnectRest(steps) ==
    IF Wanted > 0 /\ Cardinality(peers) < maxConnectCount
    THEN /\ conn' = Retried
         /\ Proceed(steps, <<"foundPeers">>)
         /\ UNCHANGED <<sync, peerThreadCount>>
    ELSE /\ AddPeers(peers, Retried)
         /\ Proceed(steps, <<>>)

ConnectBegins(steps) ==
    LET starts == ~sync /\ (downloadPeer = NoPeer \/ height < estimatedHeight)
    IN  /\ Continue(steps, "connect")
        /\ failures' = IF failures >= MAX_CONNECT_FAILURES THEN 0 ELSE failures
        /\ IF starts
           THEN /\ sync' = TRUE
                /\ Proceed(steps, <<"connectPeers">>)
                /\ UNCHANGED <<conn, peerThreadCount>>
           ELSE ConnectRest(steps)
        /\ UNCHANGED <<peers, maxConnectCount, reachable, downloadPeer, isConnected, height,
                       estimatedHeight, bloomFilter, pubVars, txVars, budget>>

ConnectPeers(steps) ==
    /\ Continue(steps, "connectPeers")
    /\ ConnectRest(steps)
    /\ UNCHANGED <<peers, maxConnectCount, reachable, downloadPeer, isConnected, failures, height,
                   estimatedHeight, bloomFilter, pubVars, txVars, budget>>

\* _BRPeerManagerFindPeers has found all, or DNS does not answer
FoundPeers(steps) ==
    /\ Continue(steps, "foundPeers")
    /\ \/ peers' = Peer /\ UNCHANGED budget
       \/ peers' = peers /\ Spend("mishap")
    /\ AddPeers(peers', conn)
    /\ Proceed(steps, <<>>)
    /\ UNCHANGED <<maxConnectCount, reachable, downloadPeer, isConnected, failures, height,
                   estimatedHeight, bloomFilter, pubVars, txVars>>

\* the network goes; when it is back the application calls BRPeerManagerConnect
NetworkLost ==
    /\ reachable /\ Spend("mishap")
    /\ reachable' = FALSE
    /\ UNCHANGED <<conn, peers, maxConnectCount, peerThreadCount, conts, syncVars, bloomFilter,
                   pubVars, txVars>>

NetworkBack ==
    /\ ~reachable
    /\ reachable' = TRUE
    /\ Start(ConnectSteps)
    /\ UNCHANGED <<conn, peers, maxConnectCount, peerThreadCount, syncVars, bloomFilter, pubVars,
                   txVars, budget>>

-----------------------------------------------------------------------------
(* BRPeerManagerDisconnect *)

Disconnect ==
    LET cs == [p \in Peer |-> Close(conn, p)[p]]
    IN  /\ Spend("disconnect")
        /\ maxConnectCount' = 0
        /\ failures' = IF ConnectedPeers = {} THEN failures ELSE MAX_CONNECT_FAILURES
        /\ conn' = cs
        /\ peerThreadCount' = peerThreadCount
                - Cardinality({p \in Peer : cs[p].state \in {"waiting", "starting"}})
        /\ Start(<<"disconnectWait", IF maxConnectCount = 0 THEN "restoreNone" ELSE "restore">>)
        /\ UNCHANGED <<peers, reachable, downloadPeer, isConnected, sync, height,
                       estimatedHeight, bloomFilter, pubVars, txVars>>

\* it polls until no thread is counted
DisconnectWaits(steps) ==
    /\ Continue(steps, "disconnectWait")
    /\ peerThreadCount <= 0
    /\ Proceed(steps, <<>>)
    /\ UNCHANGED <<conn, peers, maxConnectCount, peerThreadCount, reachable, syncVars,
                   bloomFilter, pubVars, txVars, budget>>

DisconnectEnds(steps) ==
    /\ Continue(steps, "restore") \/ Continue(steps, "restoreNone")
    /\ maxConnectCount' = IF Head(steps) = "restore" THEN PEER_MAX_CONNECTIONS ELSE 0
    /\ Proceed(steps, <<>>)
    /\ UNCHANGED <<conn, peers, peerThreadCount, reachable, syncVars, bloomFilter, pubVars,
                   txVars, budget>>

\* mutant: a thread that ends stays counted
CountWithEnded == peerThreadCount

CountWithoutEnded == peerThreadCount - 1

\* _peerThreadCleanup, the last step of a peer's thread
ThreadCleanup(steps) ==
    /\ Continue(steps, "cleanup")
    /\ peerThreadCount' = CountWithoutEnded
    /\ Proceed(steps, <<>>)
    /\ UNCHANGED <<conn, peers, maxConnectCount, reachable, syncVars, bloomFilter, pubVars,
                   txVars, budget>>

-----------------------------------------------------------------------------
(* The thread of a peer, until it is connected. *)

\* _BRPeerOpenSocket has a socket that BRPeerDisconnect can close
SocketOpens(p) ==
    /\ conn[p].state = "starting"
    /\ conn' = [conn EXCEPT ![p].state = "handshake"]
    /\ UNCHANGED <<netVars, syncVars, bloomFilter, pubVars, txVars, budget>>

\* _BRPeerDidConnect, before it calls the manager
DidConnect(p) ==
    /\ conn[p].state = "handshake"
    /\ conn' = [conn EXCEPT ![p].state = "connected", ![p].greet = TRUE, ![p].timer = FALSE]
    /\ UNCHANGED <<netVars, syncVars, bloomFilter, pubVars, txVars, budget>>

\* the candidates for download peer: the highest chain, or of several the lowest ping time
Best(p) == {q \in Online(conn) \cup {p} :
               \A r \in Online(conn) \cup {p} : LastBlock[q] >= LastBlock[r]}

\* mutant: a new download peer is chosen without a timeout for the sync it starts
ChosenUntimed(cs, q) == PublishPendingTx(LoadBloomFilter(cs, q), q)

\* the new download peer gets the filter, the pending transactions and the sync's timeout
Chosen(cs, q) ==
    LET told == PublishPendingTx(LoadBloomFilter(cs, q), q)
    IN  IF height < LastBlock[q] THEN ScheduleDisconnect(told, q, TRUE) ELSE told

\* _peerConnected
PeerConnected(p) ==
    LET cs     == Handled([conn EXCEPT ![p].greet = FALSE], p)
        unfit  == p \in Unfit \/ LastBlock[p] + Lag < height
        stick  == /\ downloadPeer # NoPeer
                  /\ LastBlock[downloadPeer] >= LastBlock[p] \/ height >= LastBlock[p]
    IN  /\ conn[p].greet
        /\ \/ /\ unfit
              /\ conn' = Handled(Close(cs, p), p)
              /\ UNCHANGED <<syncVars, bloomFilter>>
           \/ /\ ~unfit /\ stick /\ height < LastBlock[p]
              /\ conn' = cs
              /\ UNCHANGED <<syncVars, bloomFilter>>
           \/ /\ ~unfit /\ stick /\ height >= LastBlock[p]
              /\ failures' = 0
              /\ bloomFilter' = TRUE
              /\ conn' = SendPing(PublishPendingTx(LoadBloomFilter(cs, p), p), p,
                                  "loadBloomFilterDone", p)
              /\ UNCHANGED <<downloadPeer, isConnected, sync, height, estimatedHeight>>
           \/ /\ ~unfit /\ ~stick
              /\ \E q \in Best(p) :
                    LET left == IF downloadPeer = NoPeer THEN cs ELSE Close(cs, downloadPeer)
                        told == Chosen(left, q)
                    IN  /\ downloadPeer' = q
                        /\ isConnected' = TRUE
                        /\ estimatedHeight' = LastBlock[q]
                        /\ failures' = IF height < LastBlock[q] THEN failures ELSE 0
                        /\ conn' = IF height < LastBlock[q] THEN told
                                   ELSE LoadMempools(told, q, FALSE)
              /\ bloomFilter' = TRUE
              /\ UNCHANGED <<sync, height>>
        /\ UNCHANGED <<netVars, pubVars, txVars, budget>>

-----------------------------------------------------------------------------
(* The end of a peer's thread. *)

\* the pongs still awaited fail one by one, see Pong
Dying(p, error) == [conn EXCEPT ![p].state = "dead", ![p].greet = FALSE, ![p].error = error,
                                ![p].mempool = FALSE]

\* the disconnect time has come
PeerTimesOut(p) ==
    /\ conn[p].state \in {"handshake", "connected"} /\ ~conn[p].greet
    /\ conn[p].timer
    /\ conn' = Dying(p, "ETIMEDOUT")
    /\ UNCHANGED <<netVars, syncVars, bloomFilter, pubVars, txVars, budget>>

\* the socket was closed by BRPeerDisconnect: reading it fails
PeerCloses(p) ==
    /\ conn[p].state \in {"closed", "ended"} /\ ~conn[p].greet
    /\ conn' = Dying(p, "EBADF")
    /\ UNCHANGED <<netVars, syncVars, bloomFilter, pubVars, txVars, budget>>

\* the connection is lost, or a message is malformed
PeerFails(p) ==
    /\ conn[p].state \in {"handshake", "connected"} /\ ~conn[p].greet
    /\ \/ Spend("mishap") /\ conn' = Dying(p, "ECONNRESET")
       \/ Spend("mishap") /\ conn' = Dying(p, "EPROTO")
    /\ UNCHANGED <<netVars, syncVars, bloomFilter, pubVars, txVars>>

\* _BRPeerManagerPeerMisbehavin; the tenth forgets all peers
Misbehavin(p) == {peers \ {p}, {}}

\* calling the callbacks of these transactions
Call(txs) == [c \in DOMAIN called |-> called[c] + Cardinality({t \in txs : callback[t] = c})]

\* mutant: the pointer to a peer that is freed stays
DownloadPeerKept(p) == downloadPeer

\* 'download peer disconnected'
DownloadPeerAfter(p) == IF p = downloadPeer THEN NoPeer ELSE downloadPeer

\* _peerDisconnected, after the last failed pong
PeerDisconnected(p) ==
    LET error    == conn[p].error
        counted  == failures + (IF error = "EPROTO" THEN 0 ELSE 1)
        capped   == IF p = downloadPeer THEN Min({counted, MAX_CONNECT_FAILURES}) ELSE counted
        dl       == DownloadPeerAfter(p)
        online   == isConnected /\ p # downloadPeer
        stop     == ~online /\ capped = MAX_CONNECT_FAILURES
        timedOut == /\ error = "ETIMEDOUT"
                    /\ p # downloadPeer \/ ~sync \/ ConnectedPeers = {p}
        failed   == IF stop \/ timedOut THEN published ELSE {}
    IN  /\ conn[p].state = "dead" /\ conn[p].pongs = <<>>
        /\ BagCardinality(conts) < MaxThreads
        /\ \E left \in (IF error = "EPROTO" THEN Misbehavin(p) ELSE {peers \ {p}}) :
               peers' = IF stop THEN {} ELSE left
        /\ failures' = capped
        /\ downloadPeer' = dl
        /\ isConnected' = online
        /\ sync' = (sync /\ ~stop)
        /\ relays' = [t \in Tx |-> relays[t] \ {p}]
        /\ called' = Call(failed)
        /\ callback' = [t \in Tx |-> IF t \in failed THEN 0 ELSE callback[t]]
        /\ conn' = [conn EXCEPT ![p] = Gone]
        /\ Start(IF capped < MAX_CONNECT_FAILURES /\ ~stop THEN ConnectSteps \o <<"cleanup">>
                 ELSE <<"cleanup">>)
        /\ UNCHANGED <<maxConnectCount, peerThreadCount, reachable, height, estimatedHeight,
                       bloomFilter, published, publisher, wallet, requests, budget>>

-----------------------------------------------------------------------------
(* Pings: a callback runs when its pong arrives (ok), or when the connection has ended. *)

\* the connected peers, or 0 when one has not relayed its mempool
UnrelayedCount(cs) ==
    IF \A p \in ConnectedPeers : cs[p].synced THEN Cardinality(Online(cs)) ELSE 0

\* _requestUnrelayedTxGetdataDone
RequestUnrelayedTxDone(cs0, p, ok) ==
    LET cs     == [cs0 EXCEPT ![p].synced = @ \/ ok]
        enough == UnrelayedCount(cs) >= maxConnectCount
    IN  /\ conn' = cs
        /\ wallet' = IF enough
                     THEN wallet \ {t \in wallet : callback[t] = 0 /\ relays[t] = {} /\ requests[t] = {}}
                     ELSE wallet
        /\ UNCHANGED <<sync, bloomFilter, relays, requests>>

\* _loadBloomFilterDone
LoadBloomFilterDone(cs, p, ok) ==
    /\ IF ok THEN conn' = SendMempool(cs, p, TRUE) /\ UNCHANGED sync
       ELSE IF p = downloadPeer THEN conn' = SyncStopped(cs) /\ sync' = FALSE
       ELSE conn' = cs /\ UNCHANGED sync
    /\ UNCHANGED <<bloomFilter, txVars>>

\* _publishTxInvDone, whether or not the pong came
PublishTxInvDone(cs, p) ==
    /\ RequestUnrelayedTx(cs, p)
    /\ UNCHANGED <<sync, bloomFilter>>

\* _mempoolDone
MempoolDone(cs, p) ==
    /\ RequestUnrelayedTx(IF sync THEN SyncStopped(cs) ELSE cs, p)
    /\ sync' = FALSE
    /\ UNCHANGED bloomFilter

\* _updateFilterPingDone; the next pong keeps q, while p or another peer may be asked
UpdateFilterPingDone(cs, q) ==
    /\ IF height < estimatedHeight
       THEN IF downloadPeer = NoPeer
            THEN conn' = cs /\ bloomFilter' = FALSE
            ELSE /\ conn' = SendPing(LoadBloomFilter(cs, downloadPeer), downloadPeer,
                                     "updateFilterLoadDone", q)
                 /\ bloomFilter' = TRUE
       ELSE /\ conn' = [r \in Peer |->
                           IF r \in Online(cs)
                           THEN SendPing(LoadBloomFilter(cs, r), r, "updateFilterLoadDone", r)[r]
                           ELSE cs[r]]
            /\ bloomFilter' = (Online(cs) # {})
    /\ UNCHANGED <<sync, txVars>>

\* _updateFilterLoadDone; q, if it is another peer, may be freed: its flags are anything then
UpdateFilterLoadDone(cs, p, q) ==
    /\ \E cleared \in (IF q = p THEN {TRUE} ELSE BOOLEAN) :
          LET updated == IF cleared THEN [cs EXCEPT ![q].needsUpdate = FALSE] ELSE cs
          IN  conn' = IF height >= estimatedHeight THEN SendMempool(updated, q, FALSE)
                      ELSE IF downloadPeer = NoPeer THEN updated
                      ELSE SendPing(updated, downloadPeer, "updateFilterRerequestDone", q)
    /\ UNCHANGED <<sync, bloomFilter, txVars>>

\* _updateFilterRerequestDone asks for blocks again
UpdateFilterRerequestDone(cs) == conn' = cs /\ UNCHANGED <<sync, bloomFilter, txVars>>

\* the callbacks that do something when the pong has not come
HandlesFailure == {"requestUnrelayedTxDone", "loadBloomFilterDone", "publishTxInvDone"}

PongDone(cs, p, done, q, ok) ==
    IF ~ok /\ done \notin HandlesFailure THEN conn' = cs /\ UNCHANGED <<sync, bloomFilter, txVars>>
    ELSE CASE done = "requestUnrelayedTxDone"    -> RequestUnrelayedTxDone(cs, p, ok)
           [] done = "loadBloomFilterDone"       -> LoadBloomFilterDone(cs, p, ok)
           [] done = "publishTxInvDone"          -> PublishTxInvDone(cs, p)
           [] done = "mempoolDone"               -> MempoolDone(cs, p)
           [] done = "updateFilterPingDone"      -> UpdateFilterPingDone(cs, q)
           [] done = "updateFilterLoadDone"      -> UpdateFilterLoadDone(cs, p, q)
           [] done = "updateFilterRerequestDone" -> UpdateFilterRerequestDone(cs)

Pong(p) ==
    /\ conn[p].state = "dead" \/ Reading(p)
    /\ conn[p].pongs # <<>>
    /\ LET first == Head(conn[p].pongs)
           cs    == Handled([conn EXCEPT ![p].pongs = Tail(@)], p)
       IN  PongDone(cs, p, first[1], first[2], conn[p].state # "dead")
    /\ UNCHANGED <<netVars, downloadPeer, isConnected, failures, height, estimatedHeight, pubVars,
                   budget>>

\* the mempool's inv has come, or is no longer waited for: a ping ends the request
MempoolAnswered(p) ==
    /\ conn[p].state = "connected" /\ ~conn[p].greet /\ conn[p].mempool
    /\ conn' = SendPing([conn EXCEPT ![p].mempool = FALSE], p, "mempoolDone", p)
    /\ UNCHANGED <<netVars, syncVars, bloomFilter, pubVars, txVars, budget>>

-----------------------------------------------------------------------------
(* Messages of a peer. *)

\* _peerRelayedBlock, with a block that extends the chain; fpRate: the filter has degraded
Block(p) ==
    /\ Reading(p) /\ conn[p].filter
    /\ height < LastBlock[p]
    /\ \E reload \in BOOLEAN :
        LET cs      == Handled(conn, p)
            syncing == p = downloadPeer /\ height < estimatedHeight
            next    == height + 1
            timed   == p = downloadPeer /\ next < estimatedHeight
        IN  /\ reload => Spend("mishap")
            /\ ~reload => UNCHANGED budget
            /\ IF ~bloomFilter
               THEN /\ conn' = IF syncing THEN ScheduleDisconnect(cs, p, TRUE) ELSE cs
                    /\ failures' = IF syncing THEN 0 ELSE failures
                    /\ UNCHANGED <<height, estimatedHeight>>
               ELSE /\ height' = next
                    /\ estimatedHeight' = Max({estimatedHeight, next})
                    /\ failures' = IF timed THEN 0 ELSE failures
                    /\ conn' = IF timed THEN ScheduleDisconnect(cs, p, TRUE)
                               ELSE IF next = estimatedHeight
                               THEN LoadMempools(cs, downloadPeer, reload)
                               ELSE cs
    /\ UNCHANGED <<netVars, downloadPeer, isConnected, sync, bloomFilter, pubVars, txVars>>

\* the timeout of a publish is cancelled when no other is pending
PublishAnswered(cs, p, t) ==
    IF (\A u \in Tx \ {t} : callback[u] = 0) /\ (~sync \/ p # downloadPeer)
    THEN ScheduleDisconnect(cs, p, FALSE) ELSE cs

\* the sync's is scheduled again when the transaction is the wallet's
SyncGoesOn(cs, p) ==
    IF sync /\ p = downloadPeer THEN ScheduleDisconnect(cs, p, TRUE) ELSE cs

\* mutant: the callback stays in publishedTx
AnswerKeeping(t) == called' = Call({t}) /\ UNCHANGED callback

\* the callback leaves publishedTx and is called
Answer(t) == called' = Call({t}) /\ callback' = [callback EXCEPT ![t] = 0]

\* _peerRelayedTx with a transaction of the wallet; used: it is new and takes addresses, and the
\* filter lacks the next ones
RelayedTx(p, t) ==
    LET cs == SyncGoesOn(PublishAnswered(Handled(conn, p), p, t), p)
    IN  /\ Reading(p) /\ conn[p].filter /\ Spend("message")
        /\ Answer(t)
        /\ relays' = [relays EXCEPT ![t] = @ \cup (IF t \in published \/ ~sync THEN {p} ELSE {})]
        /\ wallet' = wallet \cup {t}
        /\ published' = published \cup {t}
        /\ requests' = [requests EXCEPT ![t] = @ \ {p}]
        /\ \E used \in IF bloomFilter /\ t \notin wallet THEN BOOLEAN ELSE {FALSE} :
              /\ bloomFilter' = (bloomFilter /\ ~used)
              /\ conn' = IF used THEN UpdateFilter(cs) ELSE cs
        /\ UNCHANGED <<netVars, syncVars, publisher>>

\* _peerRelayedTx with one that only matches the filter
RelayedOther(p) ==
    /\ Reading(p) /\ conn[p].filter /\ Spend("message")
    /\ conn' = IF ~Publishing /\ (~sync \/ p # downloadPeer)
               THEN ScheduleDisconnect(Handled(conn, p), p, FALSE) ELSE Handled(conn, p)
    /\ UNCHANGED <<netVars, syncVars, bloomFilter, pubVars, txVars>>

\* _peerHasTx
HasTx(p, t) ==
    LET known == t \in wallet \cup published
        cs    == PublishAnswered(Handled(conn, p), p, t)
    IN  /\ Reading(p) /\ conn[p].filter /\ Spend("message")
        /\ Answer(t)
        /\ wallet' = IF known THEN wallet \cup {t} ELSE wallet
        /\ relays' = [relays EXCEPT
                ![t] = @ \cup (IF t \in published \/ (known /\ ~sync) THEN {p} ELSE {})]
        /\ requests' = IF known THEN [requests EXCEPT ![t] = @ \ {p}] ELSE requests
        /\ conn' = IF known THEN SyncGoesOn(cs, p) ELSE cs
        /\ UNCHANGED <<netVars, syncVars, bloomFilter, published, publisher>>

\* _peerRequestedTx, for what the peer was told of
RequestedTx(p, t) ==
    /\ Reading(p) /\ t \in conn[p].inv
    /\ Answer(t)
    /\ conn' = [PublishAnswered(Handled(conn, p), p, t) EXCEPT ![p].inv = @ \ {t}]
    /\ relays' = [relays EXCEPT ![t] = @ \cup {p}]
    /\ wallet' = wallet \cup (published \cap {t})
    /\ UNCHANGED <<netVars, syncVars, bloomFilter, published, publisher, requests, budget>>

\* _peerRejectedTx; a reason other than a double-spend drops the peer
RejectedTx(p, t) ==
    LET cs == Handled(conn, p)
    IN  /\ Reading(p) /\ Spend("message")
        /\ requests' = [requests EXCEPT ![t] = @ \ {p}]
        /\ relays' = IF t \in wallet THEN [relays EXCEPT ![t] = @ \ {p}] ELSE relays
        /\ \/ conn' = cs /\ UNCHANGED peers
           \/ /\ t \in wallet
              /\ conn' = Handled(Close(cs, p), p)
              /\ peers' \in Misbehavin(p)
        /\ UNCHANGED <<maxConnectCount, peerThreadCount, conts, reachable, syncVars, bloomFilter,
                       pubVars, wallet>>

\* _peerDataNotfound
DataNotfound(p, t) ==
    /\ Reading(p) /\ p \in requests[t]
    /\ requests' = [requests EXCEPT ![t] = @ \ {p}]
    /\ relays' = [relays EXCEPT ![t] = @ \ {p}]
    /\ conn' = Handled(conn, p)
    /\ UNCHANGED <<netVars, syncVars, bloomFilter, pubVars, wallet, budget>>

\* _peerRelayedPeers
RelayedPeers(p) ==
    /\ Reading(p) /\ Spend("mishap")
    /\ \E some \in SUBSET Peer : peers' = peers \cup some
    /\ conn' = Handled(conn, p)
    /\ UNCHANGED <<maxConnectCount, peerThreadCount, conts, reachable, syncVars, bloomFilter,
                   pubVars, txVars>>

-----------------------------------------------------------------------------
(* Other calls of the application. *)

\* BRPeerManagerRescan and its variants: from an earlier block, with another download peer
Rescan ==
    /\ Spend("rescan")
    /\ isConnected
    /\ height' = 0
    /\ peers' = peers \ {downloadPeer}
    /\ conn' = Close(conn, downloadPeer)
    /\ sync' = FALSE
    /\ Start(ConnectSteps)
    /\ UNCHANGED <<maxConnectCount, peerThreadCount, reachable, downloadPeer, isConnected, failures,
                   estimatedHeight, bloomFilter, pubVars, txVars>>

\* _BRPeerManagerAddTxToPublishList and the announcement, not to the download peer if others are
PublishNow(t, c) ==
    LET new     == IF t \in published THEN callback ELSE [callback EXCEPT ![t] = c]
        pending == \E u \in Tx : new[u] # 0
        to      == IF Cardinality(Online(conn)) = 1 THEN Online(conn)
                   ELSE Online(conn) \ {downloadPeer}
    IN  /\ published' = published \cup {t}
        /\ callback' = new
        /\ conn' = [p \in Peer |->
                        IF p \in to
                        THEN SendPing(Announce(conn, p, published', pending), p,
                                      "publishTxInvDone", p)[p]
                        ELSE conn[p]]
        /\ UNCHANGED called

Failed(c) ==
    /\ called' = [called EXCEPT ![c] = @ + 1]
    /\ UNCHANGED <<conn, published, callback>>

\* BRPeerManagerPublishTx, up to the point where it gives up the lock
PublishTx(t) ==
    LET c == Budget["publish"] - budget["publish"] + 1
    IN  /\ publisher = <<>>
        /\ Spend("publish")
        /\ IF isConnected THEN PublishNow(t, c) /\ UNCHANGED publisher
           ELSE IF failures >= MAX_CONNECT_FAILURES THEN Failed(c) /\ UNCHANGED publisher
           ELSE publisher' = <<t, c>> /\ UNCHANGED <<conn, published, callback, called>>
        /\ UNCHANGED <<netVars, syncVars, bloomFilter, txVars>>

PublishTxGoesOn ==
    /\ publisher # <<>>
    /\ publisher' = <<>>
    /\ IF reachable THEN PublishNow(publisher[1], publisher[2]) ELSE Failed(publisher[2])
    /\ UNCHANGED <<netVars, syncVars, bloomFilter, txVars, budget>>

-----------------------------------------------------------------------------
\* BRPeerManagerNew
Init ==
    /\ conn = [p \in Peer |-> Gone]
    /\ peers \in {{}, Peer}
    /\ downloadPeer = NoPeer
    /\ isConnected = FALSE
    /\ failures = 0
    /\ sync = FALSE
    /\ height = 0
    /\ estimatedHeight = 0
    /\ bloomFilter = FALSE
    /\ maxConnectCount = PEER_MAX_CONNECTIONS
    /\ peerThreadCount = 0
    /\ conts = EmptyBag
    /\ reachable = TRUE
    /\ published = {}
    /\ callback = [t \in Tx |-> 0]
    /\ called = [c \in 1..Budget["publish"] |-> 0]
    /\ publisher = <<>>
    /\ wallet \in SUBSET Tx
    /\ relays = [t \in Tx |-> {}]
    /\ requests = [t \in Tx |-> {}]
    /\ budget = Budget

\* a thread that has given up the lock goes on
GoOn(steps) ==
    \/ ConnectBegins(steps) \/ ConnectPeers(steps) \/ FoundPeers(steps)
    \/ DisconnectWaits(steps) \/ DisconnectEnds(steps)
    \/ ThreadCleanup(steps)

\* what the thread of a peer does without the peer's help
ThreadStep(p) ==
    \/ SocketOpens(p) \/ PeerConnected(p) \/ PeerCloses(p) \/ PeerDisconnected(p)
    \/ MempoolAnswered(p)

PeerStep(p) ==
    \/ DidConnect(p) \/ PeerFails(p) \/ Block(p) \/ RelayedPeers(p) \/ RelayedOther(p)
    \/ \E t \in Tx : \/ RelayedTx(p, t) \/ HasTx(p, t) \/ RequestedTx(p, t)
                     \/ RejectedTx(p, t) \/ DataNotfound(p, t)

Application ==
    \/ Connect \/ Disconnect \/ Rescan \/ NetworkLost \/ NetworkBack
    \/ \E t \in Tx : PublishTx(t)
    \/ PublishTxGoesOn

Next ==
    \/ Application
    \/ \E steps \in BagToSet(conts) : GoOn(steps)
    \/ \E p \in Peer : ThreadStep(p) \/ PeerTimesOut(p) \/ Pong(p) \/ PeerStep(p)

Spec == Init /\ [][Next]_vars

\* threads run, timeouts pass, and a peer that is connected answers a ping
FairSpec ==
    /\ Spec
    /\ \A p \in Peer : WF_vars(ThreadStep(p)) /\ WF_vars(PeerTimesOut(p)) /\ WF_vars(Pong(p))
    /\ WF_vars(PublishTxGoesOn)
    /\ WF_vars(\E steps \in BagToSet(conts) : GoOn(steps))

-----------------------------------------------------------------------------
(* Properties. *)

Done == {"requestUnrelayedTxDone", "loadBloomFilterDone", "publishTxInvDone", "mempoolDone",
         "updateFilterPingDone", "updateFilterLoadDone", "updateFilterRerequestDone"}

\* The state is well-typed: no height is past the network's, at most PEER_MAX_CONNECTIONS peers are
\* connected, and only a peer that has a thread waits for pongs.
TypeOK ==
    /\ \A p \in Peer :
        /\ conn[p].state \in {"none", "waiting", "starting", "handshake", "connected", "closed",
                              "ended", "dead"}
        /\ conn[p].pongs \in Seq(Done \X Peer)
        /\ conn[p].pongs # <<>> => conn[p].state \in {"connected", "closed", "ended", "dead"}
        /\ conn[p].inv \subseteq Tx
    /\ Cardinality(ConnectedPeers) <= PEER_MAX_CONNECTIONS
    /\ peers \subseteq Peer
    /\ downloadPeer \in Peer \cup {NoPeer}
    /\ {isConnected, sync, bloomFilter, reachable} \subseteq BOOLEAN
    /\ {failures, height, estimatedHeight} \subseteq Nat
    /\ height <= Top /\ estimatedHeight <= Top
    /\ maxConnectCount \in {0, PEER_MAX_CONNECTIONS}
    /\ peerThreadCount \in Int
    /\ IsABag(conts)
    /\ published \subseteq Tx /\ wallet \subseteq Tx
    /\ callback \in [Tx -> 0..Budget["publish"]]
    /\ called \in [1..Budget["publish"] -> Nat]
    /\ {relays, requests} \subseteq [Tx -> SUBSET Peer]

\* The download peer is a member of connectedPeers, its memory is not freed, and it is one exactly
\* while the manager is connected.
DownloadPeerIsConnected ==
    /\ downloadPeer # NoPeer => downloadPeer \in ConnectedPeers
    /\ isConnected <=> downloadPeer # NoPeer

\* The callback of a publish is called at most once, whatever peers answer, fail or time out, and
\* never again for a transaction that still waits for it.
CalledOnce ==
    \A c \in DOMAIN called : called[c] + Cardinality({t \in Tx : callback[t] = c}) <= 1

\* A peer waits until the network is reachable.
WaitsForNetwork == \E p \in Peer : conn[p].state = "waiting"

\* Every sync ends: the peer it depends on answers, times out or fails, and after
\* MAX_CONNECT_FAILURES failures in a row the manager gives up ('notify user of network problems
\* after this many connect failures in a row').  It may wait for the network.
\* The code does not have this property: see MCPeerManager_stop.cfg.
SyncEnds == sync ~> (~sync \/ WaitsForNetwork)

\* Nobody is connected and the number of failures is past the one _peerDisconnected compares with.
Abandoned == ConnectedPeers = {} /\ failures > MAX_CONNECT_FAILURES

\* The same, but for a BRPeerManagerDisconnect during the sync: _peerDisconnected compares with
\* MAX_CONNECT_FAILURES after Disconnect has set that count, and passes it without stopping.
SyncEndsUnlessAbandoned == sync ~> (~sync \/ WaitsForNetwork \/ Abandoned)

\* BRPeerManagerDisconnect returns: every thread it waits for comes down, also those of peers that
\* were starting, waiting for the network or failing when it was called.
DisconnectReturns ==
    (\E steps \in BagToSet(conts) : Head(steps) = "disconnectWait")
        ~> ~\E steps \in BagToSet(conts) : Head(steps) = "disconnectWait"

\* 'don't remove transactions until we're connected to maxConnectCount peers, and all peers have
\* finished relaying their mempools' (_requestUnrelayedTxGetdataDone)
\* The code does not have this property: see MCPeerManager_unrelayed.cfg.
UnrelayedKept ==
    [][wallet \subseteq wallet' \/ Cardinality(Online(conn')) >= PEER_MAX_CONNECTIONS]_vars

\* 'ingore potentially incomplete blocks when a filter update is pending' (_peerRelayedBlock): while
\* a connected download peer's blocks are ignored for want of a filter, an update of it is pending.
\* The code does not have this property: see MCPeerManager_filter.cfg.
FilterUpdatePending ==
    ~bloomFilter /\ downloadPeer \in Online(conn) => conn[downloadPeer].needsUpdate

=============================================================================
