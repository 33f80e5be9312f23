------------------------- MODULE PeerManagerProofs -------------------------
(***************************************************************************)
(* What TLAPS proves of PeerManager for every finite set of peers, every   *)
(* set of transactions and every number of messages, failures, rescans and *)
(* publishes: the state is well-typed and no more than                     *)
(* PEER_MAX_CONNECTIONS peers are connected, the download peer is one of   *)
(* them, and the callback of a publish is called at most once.             *)
(***************************************************************************)
EXTENDS PeerManager, BasicLemmas

(* The invariant. *)

\* the states of a thread that has a connection, and of the peer's record
Up == {"connected", "closed", "ended", "dead"}

ConnState == Up \cup {"none", "waiting", "starting", "handshake"}

BRPeer ==
    [state : ConnState, greet : BOOLEAN, timer : BOOLEAN, synced : BOOLEAN, filter : BOOLEAN,
     needsUpdate : BOOLEAN, pongs : Seq(Done \X Peer), mempool : BOOLEAN, sentMempool : BOOLEAN,
     inv : SUBSET Tx, error : {"none", "ETIMEDOUT", "EBADF", "ECONNRESET", "EPROTO"}]

\* what holds of connectedPeers at every point of a handler
GoodConn(cs) ==
    /\ cs \in [Peer -> BRPeer]
    /\ \A p \in Peer : cs[p].pongs # <<>> => cs[p].state \in Up
    /\ \A p \in Peer : cs[p].greet => cs[p].state \in {"connected", "closed"}

\* ds has the members cs has, and a peer that was connected still has its thread
SameLife(cs, ds) ==
    \A p \in Peer : /\ cs[p].state = "none" <=> ds[p].state = "none"
                    /\ cs[p].state \in Up => ds[p].state \in Up

\* a handler's change of connectedPeers that keeps its members
Keeps(cs, ds) == GoodConn(ds) /\ SameLife(cs, ds)

NetInv ==
    /\ peers \subseteq Peer
    /\ reachable \in BOOLEAN
    /\ maxConnectCount \in {0, PEER_MAX_CONNECTIONS}
    /\ peerThreadCount \in Int
    /\ IsABag(conts)

SyncInv ==
    /\ isConnected \in BOOLEAN /\ sync \in BOOLEAN /\ bloomFilter \in BOOLEAN
    /\ failures \in Nat
    /\ height \in 0..Top /\ estimatedHeight \in 0..Top

\* the pointer is to a member whose thread has connected
DownInv ==
    /\ downloadPeer \in Peer \cup {NoPeer}
    /\ downloadPeer # NoPeer => conn[downloadPeer].state \in Up
    /\ isConnected <=> downloadPeer # NoPeer

CountInv == Cardinality(ConnectedPeers) <= PEER_MAX_CONNECTIONS

BudgetInv ==
    /\ budget \in [DOMAIN Budget -> Nat]
    /\ budget["publish"] <= Budget["publish"]

TxInv ==
    /\ wallet \subseteq Tx
    /\ relays \in [Tx -> SUBSET Peer] /\ requests \in [Tx -> SUBSET Peer]

\* the publishes so far: a callback's number is that of its publish
Issued == Budget["publish"] - budget["publish"]

\* a callback is in one place at most: in publishedTx for one transaction, with the publisher
\* that waits for the lock, or called
PubInv ==
    /\ published \subseteq Tx
    /\ callback \in [Tx -> 0..Issued]
    /\ called \in [1..Budget["publish"] -> {0, 1}]
    /\ \A t, u \in Tx : callback[t] = callback[u] /\ callback[t] # 0 => t = u
    /\ \A t \in Tx : callback[t] # 0 => called[callback[t]] = 0
    /\ \A c \in 1..Budget["publish"] : c > Issued => called[c] = 0
    /\ \/ publisher = <<>>
       \/ /\ publisher \in Tx \X (1..Issued)
          /\ called[publisher[2]] = 0
          /\ \A t \in Tx : callback[t] # publisher[2]

IInv ==
    /\ GoodConn(conn)
    /\ NetInv
    /\ SyncInv
    /\ DownInv
    /\ CountInv
    /\ BudgetInv
    /\ TxInv
    /\ PubInv

-----------------------------------------------------------------------------
(* The helpers of the handlers keep connectedPeers. *)

\* Two such changes in a row are one.
LEMMA KeepsTrans ==
    ASSUME NEW cs, NEW ds, NEW es, Keeps(cs, ds), Keeps(ds, es)
    PROVE  Keeps(cs, es)
BY DEF Keeps, SameLife

LEMMA KeepsRefl ==
    ASSUME NEW cs, GoodConn(cs)
    PROVE  Keeps(cs, cs)
BY DEF Keeps, SameLife

\* A peer's record changes in place, with its members and threads as they were.
LEMMA ChangeKeeps ==
    ASSUME NEW cs, GoodConn(cs), NEW p \in Peer, NEW r \in BRPeer,
           cs[p].state = "none" <=> r.state = "none",
           cs[p].state \in Up => r.state \in Up,
           r.pongs # <<>> => r.state \in Up,
           r.greet => r.state \in {"connected", "closed"}
    PROVE  Keeps(cs, [cs EXCEPT ![p] = r])
BY DEF Keeps, SameLife, GoodConn

\* The same when its state and its greeting stay.
LEMMA FlagsKeep ==
    ASSUME NEW cs, GoodConn(cs), NEW p \in Peer, NEW r \in BRPeer,
           r.state = cs[p].state, r.greet = cs[p].greet,
           r.pongs # <<>> => cs[p].pongs # <<>> \/ cs[p].state \in Up
    PROVE  Keeps(cs, [cs EXCEPT ![p] = r])
<1>1. /\ cs[p].pongs # <<>> => cs[p].state \in Up
      /\ cs[p].greet => cs[p].state \in {"connected", "closed"}
  BY DEF GoodConn
<1>2. QED
  BY <1>1, ChangeKeeps

\* A record whose state is set
LEMMA WithState ==
    ASSUME NEW r \in BRPeer, NEW s \in ConnState
    PROVE  /\ [r EXCEPT !.state = s] \in BRPeer
           /\ [r EXCEPT !.state = s].state = s
           /\ [r EXCEPT !.state = s].pongs = r.pongs
           /\ [r EXCEPT !.state = s].greet = r.greet
BY DEF BRPeer

\* BRPeerDisconnect closes the socket; the thread stays.
LEMMA CloseKeeps ==
    ASSUME NEW cs, GoodConn(cs), NEW p \in Peer
    PROVE  Keeps(cs, Close(cs, p))
<1>0. /\ cs[p] \in BRPeer
      /\ "closed" \in ConnState
      /\ cs[p].pongs # <<>> => cs[p].state \in Up
      /\ cs[p].greet => cs[p].state \in {"connected", "closed"}
  BY DEF GoodConn, ConnState, Up
<1>1. CASE cs[p].state \in {"handshake", "connected"}
  <2> DEFINE r == [cs[p] EXCEPT !.state = "closed"]
  <2>1. Close(cs, p) = [cs EXCEPT ![p] = r]
    BY <1>1 DEF Close
  <2>2. /\ r \in BRPeer /\ r.state = "closed" /\ r.pongs = cs[p].pongs /\ r.greet = cs[p].greet
    BY <1>0, WithState
  <2> HIDE DEF r
  <2>3. /\ cs[p].state = "none" <=> r.state = "none"
        /\ cs[p].state \in Up => r.state \in Up
        /\ r.pongs # <<>> => r.state \in Up
        /\ r.greet => r.state \in {"connected", "closed"}
    BY <1>0, <1>1, <2>2 DEF Up
  <2>4. Keeps(cs, [cs EXCEPT ![p] = r])
    BY <2>2, <2>3, ChangeKeeps
  <2>5. QED
    BY <2>1, <2>4
<1>2. QED
  BY <1>1, KeepsRefl DEF Close

\* A thread whose socket is closed ends its message, the greeting excepted.
LEMMA HandledKeeps ==
    ASSUME NEW cs, GoodConn(cs), NEW p \in Peer, ~cs[p].greet
    PROVE  Keeps(cs, Handled(cs, p))
<1>0. /\ cs[p] \in BRPeer
      /\ "ended" \in ConnState
      /\ cs[p].pongs # <<>> => cs[p].state \in Up
      /\ cs[p].greet => cs[p].state \in {"connected", "closed"}
  BY DEF GoodConn, ConnState, Up
<1>1. CASE cs[p].state = "closed"
  <2> DEFINE r == [cs[p] EXCEPT !.state = "ended"]
  <2>1. Handled(cs, p) = [cs EXCEPT ![p] = r]
    BY <1>1 DEF Handled
  <2>2. /\ r \in BRPeer /\ r.state = "ended" /\ r.pongs = cs[p].pongs /\ r.greet = cs[p].greet
    BY <1>0, WithState
  <2> HIDE DEF r
  <2>3. /\ cs[p].state = "none" <=> r.state = "none"
        /\ cs[p].state \in Up => r.state \in Up
        /\ r.pongs # <<>> => r.state \in Up
        /\ r.greet => r.state \in {"connected", "closed"}
    BY <1>0, <1>1, <2>2 DEF Up
  <2>4. Keeps(cs, [cs EXCEPT ![p] = r])
    BY <2>2, <2>3, ChangeKeeps
  <2>5. QED
    BY <2>1, <2>4
<1>2. QED
  BY <1>1, KeepsRefl DEF Handled

\* BRPeerScheduleDisconnect sets a timer.
LEMMA ScheduleKeeps ==
    ASSUME NEW cs, GoodConn(cs), NEW p \in Peer, NEW on \in BOOLEAN
    PROVE  Keeps(cs, ScheduleDisconnect(cs, p, on))
<1> DEFINE r == [cs[p] EXCEPT !.timer = on]
<1>1. cs \in [Peer -> BRPeer] /\ cs[p] \in BRPeer
  BY DEF GoodConn
<1>2. ScheduleDisconnect(cs, p, on) = [cs EXCEPT ![p] = r]
  BY <1>1 DEF ScheduleDisconnect
<1>3. r \in BRPeer /\ r.state = cs[p].state /\ r.greet = cs[p].greet /\ r.pongs = cs[p].pongs
  BY <1>1 DEF BRPeer
<1> HIDE DEF r
<1>4. Keeps(cs, [cs EXCEPT ![p] = r])
  BY <1>3, FlagsKeep
<1>5. QED
  BY <1>2, <1>4, Zenon

\* The peer's flag synced is set.
LEMMA SyncedKeeps ==
    ASSUME NEW cs, GoodConn(cs), NEW p \in Peer, NEW on \in BOOLEAN
    PROVE  Keeps(cs, [cs EXCEPT ![p].synced = on])
<1> DEFINE r == [cs[p] EXCEPT !.synced = on]
<1>1. cs \in [Peer -> BRPeer] /\ cs[p] \in BRPeer
  BY DEF GoodConn
<1>2. [cs EXCEPT ![p].synced = on] = [cs EXCEPT ![p] = r]
  OBVIOUS
<1>3. r \in BRPeer /\ r.state = cs[p].state /\ r.greet = cs[p].greet /\ r.pongs = cs[p].pongs
  BY <1>1 DEF BRPeer
<1> HIDE DEF r
<1>4. Keeps(cs, [cs EXCEPT ![p] = r])
  BY <1>3, FlagsKeep
<1>5. QED
  BY <1>2, <1>4, Zenon

\* The peer's flag needsFilterUpdate is set or reset.
LEMMA NeedsUpdateKeeps ==
    ASSUME NEW cs, GoodConn(cs), NEW p \in Peer, NEW on \in BOOLEAN
    PROVE  Keeps(cs, [cs EXCEPT ![p].needsUpdate = on])
<1> DEFINE r == [cs[p] EXCEPT !.needsUpdate = on]
<1>1. cs \in [Peer -> BRPeer] /\ cs[p] \in BRPeer
  BY DEF GoodConn
<1>2. [cs EXCEPT ![p].needsUpdate = on] = [cs EXCEPT ![p] = r]
  OBVIOUS
<1>3. r \in BRPeer /\ r.state = cs[p].state /\ r.greet = cs[p].greet /\ r.pongs = cs[p].pongs
  BY <1>1 DEF BRPeer
<1> HIDE DEF r
<1>4. Keeps(cs, [cs EXCEPT ![p] = r])
  BY <1>3, FlagsKeep
<1>5. QED
  BY <1>2, <1>4, Zenon

\* A request for the mempool is answered.
LEMMA MempoolKeeps ==
    ASSUME NEW cs, GoodConn(cs), NEW p \in Peer, NEW on \in BOOLEAN
    PROVE  Keeps(cs, [cs EXCEPT ![p].mempool = on])
<1> DEFINE r == [cs[p] EXCEPT !.mempool = on]
<1>1. cs \in [Peer -> BRPeer] /\ cs[p] \in BRPeer
  BY DEF GoodConn
<1>2. [cs EXCEPT ![p].mempool = on] = [cs EXCEPT ![p] = r]
  OBVIOUS
<1>3. r \in BRPeer /\ r.state = cs[p].state /\ r.greet = cs[p].greet /\ r.pongs = cs[p].pongs
  BY <1>1 DEF BRPeer
<1> HIDE DEF r
<1>4. Keeps(cs, [cs EXCEPT ![p] = r])
  BY <1>3, FlagsKeep
<1>5. QED
  BY <1>2, <1>4, Zenon

\* What the peer was told of changes.
LEMMA InvKeeps ==
    ASSUME NEW cs, GoodConn(cs), NEW p \in Peer, NEW txs \in SUBSET Tx
    PROVE  Keeps(cs, [cs EXCEPT ![p].inv = txs])
<1> DEFINE r == [cs[p] EXCEPT !.inv = txs]
<1>1. cs \in [Peer -> BRPeer] /\ cs[p] \in BRPeer
  BY DEF GoodConn
<1>2. [cs EXCEPT ![p].inv = txs] = [cs EXCEPT ![p] = r]
  OBVIOUS
<1>3. r \in BRPeer /\ r.state = cs[p].state /\ r.greet = cs[p].greet /\ r.pongs = cs[p].pongs
  BY <1>1 DEF BRPeer
<1> HIDE DEF r
<1>4. Keeps(cs, [cs EXCEPT ![p] = r])
  BY <1>3, FlagsKeep
<1>5. QED
  BY <1>2, <1>4, Zenon

\* BRPeerSendMempool notes the request.
LEMMA SendMempoolKeeps ==
    ASSUME NEW cs, GoodConn(cs), NEW p \in Peer, NEW done \in BOOLEAN
    PROVE  Keeps(cs, SendMempool(cs, p, done))
<1> DEFINE r == [cs[p] EXCEPT !.sentMempool = TRUE,
                             !.mempool = cs[p].mempool \/ (done /\ ~cs[p].sentMempool)]
<1>1. cs \in [Peer -> BRPeer] /\ cs[p] \in BRPeer
  BY DEF GoodConn
<1>2. SendMempool(cs, p, done) = [cs EXCEPT ![p] = r]
  BY <1>1 DEF SendMempool
<1>3. r \in BRPeer /\ r.state = cs[p].state /\ r.greet = cs[p].greet /\ r.pongs = cs[p].pongs
  BY <1>1 DEF BRPeer
<1> HIDE DEF r
<1>4. Keeps(cs, [cs EXCEPT ![p] = r])
  BY <1>3, FlagsKeep
<1>5. QED
  BY <1>2, <1>4, Zenon

\* _BRPeerManagerLoadBloomFilter gives the peer a filter.
LEMMA LoadBloomFilterKeeps ==
    ASSUME NEW cs, GoodConn(cs), NEW p \in Peer
    PROVE  Keeps(cs, LoadBloomFilter(cs, p))
<1> DEFINE r == [cs[p] EXCEPT !.filter = TRUE, !.sentMempool = FALSE]
<1>1. cs \in [Peer -> BRPeer] /\ cs[p] \in BRPeer
  BY DEF GoodConn
<1>2. LoadBloomFilter(cs, p) = [cs EXCEPT ![p] = r]
  BY <1>1 DEF LoadBloomFilter
<1>3. r \in BRPeer /\ r.state = cs[p].state /\ r.greet = cs[p].greet /\ r.pongs = cs[p].pongs
  BY <1>1 DEF BRPeer
<1> HIDE DEF r
<1>4. Keeps(cs, [cs EXCEPT ![p] = r])
  BY <1>3, FlagsKeep
<1>5. QED
  BY <1>2, <1>4, Zenon

\* _BRPeerManagerPublishPendingTx tells a peer of the transactions.
LEMMA AnnounceKeeps ==
    ASSUME NEW cs, GoodConn(cs), NEW p \in Peer, NEW txs \in SUBSET Tx,
           NEW pending \in BOOLEAN
    PROVE  Keeps(cs, Announce(cs, p, txs, pending))
<1> DEFINE r == [cs[p] EXCEPT !.timer = cs[p].timer \/ pending, !.inv = txs]
<1>1. cs \in [Peer -> BRPeer] /\ cs[p] \in BRPeer
  BY DEF GoodConn
<1>2. Announce(cs, p, txs, pending) = [cs EXCEPT ![p] = r]
  BY <1>1 DEF Announce
<1>3. r \in BRPeer /\ r.state = cs[p].state /\ r.greet = cs[p].greet /\ r.pongs = cs[p].pongs
  BY <1>1 DEF BRPeer
<1> HIDE DEF r
<1>4. Keeps(cs, [cs EXCEPT ![p] = r])
  BY <1>3, FlagsKeep
<1>5. QED
  BY <1>2, <1>4, Zenon

\* BRPeerSendPing to a peer that is connected keeps a callback until its pong.
LEMMA SendPingKeeps ==
    ASSUME NEW cs, GoodConn(cs), NEW p \in Peer, cs[p].state \in Up,
           NEW done \in Done, NEW q \in Peer
    PROVE  Keeps(cs, SendPing(cs, p, done, q))
<1> DEFINE P == Append(cs[p].pongs, <<done, q>>)
           r == [cs[p] EXCEPT !.pongs = P]
<1>1. cs \in [Peer -> BRPeer] /\ cs[p] \in BRPeer
  BY DEF GoodConn
<1>2. cs[p].pongs \in Seq(Done \X Peer) /\ <<done, q>> \in Done \X Peer
  BY <1>1 DEF BRPeer
<1>3. P \in Seq(Done \X Peer)
  BY <1>2
<1>4. SendPing(cs, p, done, q) = [cs EXCEPT ![p] = r]
  BY <1>1 DEF SendPing
<1> HIDE DEF P
<1>5. r \in BRPeer /\ r.state = cs[p].state /\ r.greet = cs[p].greet
  BY <1>1, <1>3 DEF BRPeer
<1> HIDE DEF r
<1>6. Keeps(cs, [cs EXCEPT ![p] = r])
  BY <1>5, FlagsKeep
<1>7. QED
  BY <1>4, <1>6, Zenon

\* A change of each peer's record by itself
LEMMA PointwiseKeeps ==
    ASSUME NEW cs, GoodConn(cs), NEW F, \A p \in Peer : Keeps(cs, F[p])
    PROVE  Keeps(cs, [p \in Peer |-> F[p][p]])
<1>1. \A p \in Peer : /\ F[p] \in [Peer -> BRPeer]
                      /\ F[p][p].pongs # <<>> => F[p][p].state \in Up
                      /\ F[p][p].greet => F[p][p].state \in {"connected", "closed"}
                      /\ cs[p].state = "none" <=> F[p][p].state = "none"
                      /\ cs[p].state \in Up => F[p][p].state \in Up
  BY DEF Keeps, GoodConn, SameLife
<1>2. QED
  BY <1>1 DEF Keeps, GoodConn, SameLife

\* A peer that had its thread before a change has it after.
LEMMA KeepsUp ==
    ASSUME NEW cs, NEW ds, Keeps(cs, ds), NEW p \in Peer, cs[p].state \in Up
    PROVE  ds[p].state \in Up
BY DEF Keeps, SameLife

LEMMA KeepsGood ==
    ASSUME NEW cs, NEW ds, Keeps(cs, ds)
    PROVE  GoodConn(ds)
BY DEF Keeps

\* _BRPeerManagerPublishPendingTx
LEMMA PublishPendingKeeps ==
    ASSUME NEW cs, GoodConn(cs), NEW p \in Peer, published \subseteq Tx
    PROVE  Keeps(cs, PublishPendingTx(cs, p))
<1>1. Publishing \in BOOLEAN
  BY DEF Publishing
<1>2. QED
  BY <1>1, AnnounceKeeps DEF PublishPendingTx

\* the filter and the pending transactions for one peer
LEMMA TellKeeps ==
    ASSUME NEW cs, GoodConn(cs), NEW p \in Peer, published \subseteq Tx
    PROVE  Keeps(cs, PublishPendingTx(LoadBloomFilter(cs, p), p))
<1>1. Keeps(cs, LoadBloomFilter(cs, p))
  BY LoadBloomFilterKeeps
<1>2. Keeps(LoadBloomFilter(cs, p), PublishPendingTx(LoadBloomFilter(cs, p), p))
  BY <1>1, KeepsGood, PublishPendingKeeps
<1>3. QED
  BY <1>1, <1>2, KeepsTrans

\* the same with a ping behind it
LEMMA TellAndPingKeeps ==
    ASSUME NEW cs, GoodConn(cs), NEW p \in Peer, published \subseteq Tx, cs[p].state \in Up
    PROVE  Keeps(cs, SendPing(PublishPendingTx(LoadBloomFilter(cs, p), p), p,
                              "loadBloomFilterDone", p))
<1> DEFINE ds == PublishPendingTx(LoadBloomFilter(cs, p), p)
<1>1. Keeps(cs, ds)
  BY TellKeeps
<1> HIDE DEF ds
<1>2. GoodConn(ds) /\ ds[p].state \in Up
  BY <1>1, KeepsGood, KeepsUp
<1>3. Keeps(ds, SendPing(ds, p, "loadBloomFilterDone", p))
  BY <1>2, SendPingKeeps DEF Done
<1>4. Keeps(cs, SendPing(ds, p, "loadBloomFilterDone", p))
  BY <1>1, <1>3, KeepsTrans
<1>5. QED
  BY <1>4 DEF ds

\* _BRPeerManagerSyncStopped
LEMMA SyncStoppedKeeps ==
    ASSUME NEW cs, GoodConn(cs), downloadPeer \in Peer \cup {NoPeer}
    PROVE  Keeps(cs, SyncStopped(cs))
<1>1. CASE downloadPeer = NoPeer \/ Publishing
  BY <1>1, KeepsRefl DEF SyncStopped
<1>2. CASE ~(downloadPeer = NoPeer \/ Publishing)
  <2>1. downloadPeer \in Peer /\ SyncStopped(cs) = ScheduleDisconnect(cs, downloadPeer, FALSE)
    BY <1>2 DEF SyncStopped
  <2>2. QED
    BY <2>1, ScheduleKeeps
<1>3. QED
  BY <1>1, <1>2

\* _BRPeerManagerLoadMempools
LEMMA LoadMempoolsKeeps ==
    ASSUME NEW cs, GoodConn(cs), published \subseteq Tx, NEW dl, NEW reload \in BOOLEAN
    PROVE  Keeps(cs, LoadMempools(cs, dl, reload))
<1> DEFINE F == [p \in Peer |->
                    IF p \notin Online(cs) THEN cs
                    ELSE IF p # dl \/ reload
                    THEN SendPing(PublishPendingTx(LoadBloomFilter(cs, p), p), p,
                                  "loadBloomFilterDone", p)
                    ELSE SendMempool(cs, p, TRUE)]
<1>1. ASSUME NEW p \in Peer PROVE Keeps(cs, F[p])
  <2>1. CASE p \notin Online(cs)
    BY <2>1, KeepsRefl
  <2>2. CASE p \in Online(cs) /\ (p # dl \/ reload)
    <3>1. cs[p].state \in Up
      BY <2>2 DEF Online, Up
    <3>2. F[p] = SendPing(PublishPendingTx(LoadBloomFilter(cs, p), p), p,
                          "loadBloomFilterDone", p)
      BY <2>2
    <3>3. QED
      BY <3>1, <3>2, TellAndPingKeeps
  <2>3. CASE p \in Online(cs) /\ ~(p # dl \/ reload)
    <3>1. F[p] = SendMempool(cs, p, TRUE)
      BY <2>3
    <3>2. QED
      BY <3>1, SendMempoolKeeps
  <2>4. QED
    BY <2>1, <2>2, <2>3
<1>2. LoadMempools(cs, dl, reload) = [p \in Peer |-> F[p][p]]
  BY DEF LoadMempools
<1> HIDE DEF F
<1>3. Keeps(cs, [p \in Peer |-> F[p][p]])
  BY <1>1, PointwiseKeeps
<1>4. QED
  BY <1>2, <1>3, Zenon

\* _BRPeerManagerUpdateFilter
LEMMA UpdateFilterKeeps ==
    ASSUME NEW cs, GoodConn(cs), downloadPeer \in Peer \cup {NoPeer},
           downloadPeer # NoPeer => cs[downloadPeer].state \in Up
    PROVE  Keeps(cs, UpdateFilter(cs))
<1>1. CASE downloadPeer = NoPeer \/ cs[downloadPeer].needsUpdate
  BY <1>1, KeepsRefl DEF UpdateFilter
<1>2. CASE ~(downloadPeer = NoPeer \/ cs[downloadPeer].needsUpdate)
  <2> DEFINE ds == SendPing(cs, downloadPeer, "updateFilterPingDone", downloadPeer)
             es == [ds EXCEPT ![downloadPeer].needsUpdate = TRUE]
  <2>1. downloadPeer \in Peer /\ cs[downloadPeer].state \in Up
    BY <1>2
  <2>2. UpdateFilter(cs) = es
    BY <1>2 DEF UpdateFilter
  <2>3. Keeps(cs, ds)
    BY <2>1, SendPingKeeps DEF Done
  <2> HIDE DEF ds
  <2>4. Keeps(ds, es)
    BY <2>1, <2>3, KeepsGood, NeedsUpdateKeeps
  <2> HIDE DEF es
  <2>5. Keeps(cs, es)
    BY <2>3, <2>4, KeepsTrans
  <2>6. QED
    BY <2>2, <2>5, Zenon
<1>3. QED
  BY <1>1, <1>2

\* _BRPeerManagerRequestUnrelayedTx
LEMMA RequestUnrelayedKeeps ==
    ASSUME NEW cs, GoodConn(cs), NEW p \in Peer, cs[p].state \in Up, TxInv,
           RequestUnrelayedTx(cs, p)
    PROVE  Keeps(cs, conn') /\ TxInv'
<1>0. TxInv'
  BY DEF RequestUnrelayedTx, TxInv
<1>1. CASE Unrelayed(p) = {}
  <2>1. conn' = [cs EXCEPT ![p].synced = TRUE]
    BY <1>1 DEF RequestUnrelayedTx
  <2>2. QED
    BY <1>0, <2>1, SyncedKeeps
<1>2. CASE Unrelayed(p) # {} /\ cs[p].synced
  <2>1. conn' = cs
    BY <1>2 DEF RequestUnrelayedTx
  <2>2. QED
    BY <1>0, <2>1, KeepsRefl
<1>3. CASE Unrelayed(p) # {} /\ ~cs[p].synced
  <2>1. conn' = SendPing(cs, p, "requestUnrelayedTxDone", p)
    BY <1>3 DEF RequestUnrelayedTx
  <2>2. QED
    BY <1>0, <2>1, SendPingKeeps DEF Done
<1>4. QED
  BY <1>1, <1>2, <1>3

\* the timeout of a publish that is answered
LEMMA PublishAnsweredKeeps ==
    ASSUME NEW cs, GoodConn(cs), NEW p \in Peer, NEW t
    PROVE  Keeps(cs, PublishAnswered(cs, p, t))
<1>1. Keeps(cs, cs) /\ Keeps(cs, ScheduleDisconnect(cs, p, FALSE))
  BY KeepsRefl, ScheduleKeeps
<1>2. QED
  BY <1>1 DEF PublishAnswered

\* the timeout of the sync
LEMMA SyncGoesOnKeeps ==
    ASSUME NEW cs, GoodConn(cs), NEW p \in Peer
    PROVE  Keeps(cs, SyncGoesOn(cs, p))
<1>1. Keeps(cs, cs) /\ Keeps(cs, ScheduleDisconnect(cs, p, TRUE))
  BY KeepsRefl, ScheduleKeeps
<1>2. QED
  BY <1>1 DEF SyncGoesOn

-----------------------------------------------------------------------------
(* Bags, numbers and budgets. *)

\* A thread goes on, or ends: the continuations stay a bag.
LEMMA StartIsBag ==
    ASSUME NEW steps, IsABag(conts), Start(steps)
    PROVE  IsABag(conts')
BY DEF Start, IsABag, SetToBag, (+)

LEMMA ProceedIsBag ==
    ASSUME NEW steps, NEW more, IsABag(conts), Proceed(steps, more)
    PROVE  IsABag(conts')
<1> DEFINE less == conts (-) SetToBag({steps})
           rest == more \o Tail(steps)
           B == IF rest = <<>> THEN EmptyBag ELSE SetToBag({rest})
<1>1. conts' = less (+) B
  BY DEF Proceed
<1>2. IsABag(less)
  BY DEF IsABag, SetToBag, (-)
<1>3. IsABag(B)
  BY DEF IsABag, EmptyBag, SetToBag
<1> HIDE DEF less, B
<1>4. QED
  BY <1>1, <1>2, <1>3 DEF IsABag, (+)

\* The environment's choices other than a publish leave the number of publishes alone.
LEMMA SpendOther ==
    ASSUME BudgetInv, NEW op \in DOMAIN Budget, op # "publish", Spend(op)
    PROVE  BudgetInv' /\ Issued' = Issued
<1>1. "publish" \in DOMAIN Budget
  BY PeerManagerAssumption
<1>2. budget' = [budget EXCEPT ![op] = budget[op] - 1] /\ budget[op] \in Nat /\ budget[op] > 0
  BY DEF BudgetInv, Spend
<1>3. budget' \in [DOMAIN Budget -> Nat] /\ budget'["publish"] = budget["publish"]
  BY <1>1, <1>2 DEF BudgetInv
<1>4. QED
  BY <1>3 DEF BudgetInv, Issued

LEMMA BudgetFrame ==
    ASSUME BudgetInv, UNCHANGED budget
    PROVE  BudgetInv' /\ Issued' = Issued
BY DEF BudgetInv, Issued

LEMMA PubFrame ==
    ASSUME PubInv, Issued' = Issued, UNCHANGED pubVars
    PROVE  PubInv'
BY DEF PubInv, pubVars

\* The members of connectedPeers are those of conn, and there are finitely many.
LEMMA ConnectedFinite ==
    /\ IsFiniteSet(ConnectedPeers)
    /\ Cardinality(ConnectedPeers) \in Nat
<1>1. ConnectedPeers \subseteq Peer
  BY DEF ConnectedPeers
<1>2. QED
  BY <1>1, FS_Subset, FS_CardinalityType, PeerManagerAssumption

\* What the proof of a step that adds and drops no peer comes to
LEMMA StepFrame ==
    ASSUME IInv, Keeps(conn, conn'), UNCHANGED <<downloadPeer, isConnected>>,
           NetInv', SyncInv', BudgetInv', TxInv', PubInv'
    PROVE  IInv'
<1>1. ConnectedPeers' = ConnectedPeers
  BY DEF ConnectedPeers, Keeps, SameLife
<1>2. CountInv'
  BY <1>1 DEF IInv, CountInv
<1>3. DownInv'
  BY DEF IInv, DownInv, Keeps, SameLife
<1>4. GoodConn(conn')
  BY DEF Keeps
<1>5. QED
  BY <1>2, <1>3, <1>4 DEF IInv, GoodConn

-----------------------------------------------------------------------------
(* Callbacks of publishes. *)

\* At most one transaction waits for a callback.
LEMMA WaitingForOne ==
    ASSUME PubInv, NEW T \in SUBSET Tx, NEW c \in 1..Budget["publish"]
    PROVE  /\ (\A t \in T : callback[t] # c) => Cardinality({t \in T : callback[t] = c}) = 0
           /\ (\E t \in T : callback[t] = c) => Cardinality({t \in T : callback[t] = c}) = 1
<1> DEFINE W == {t \in T : callback[t] = c}
<1>1. ASSUME \A t \in T : callback[t] # c PROVE Cardinality(W) = 0
  <2>1. W = {}
    BY <1>1
  <2>2. QED
    BY <2>1, FS_EmptySet
<1>2. ASSUME NEW t \in T, callback[t] = c PROVE Cardinality(W) = 1
  <2>1. c # 0
    BY PeerManagerAssumption
  <2>2. W = {t}
    BY <1>2, <2>1 DEF PubInv
  <2>3. QED
    BY <2>2, FS_Singleton
<1>3. QED
  BY <1>1, <1>2

\* What Call makes of the counts
LEMMA CallCounts ==
    ASSUME PubInv, NEW T \in SUBSET Tx
    PROVE  /\ Call(T) \in [1..Budget["publish"] -> {0, 1}]
           /\ \A c \in 1..Budget["publish"] :
                 Call(T)[c] = IF \E t \in T : callback[t] = c THEN 1 ELSE called[c]
<1>1. DOMAIN called = 1..Budget["publish"]
  BY DEF PubInv
<1>2. ASSUME NEW c \in 1..Budget["publish"]
      PROVE  /\ Call(T)[c] = IF \E t \in T : callback[t] = c THEN 1 ELSE called[c]
             /\ Call(T)[c] \in {0, 1}
  <2>1. Call(T)[c] = called[c] + Cardinality({t \in T : callback[t] = c})
    BY <1>1 DEF Call
  <2>2. called[c] \in {0, 1}
    BY DEF PubInv
  <2>3. CASE \E t \in T : callback[t] = c
    <3>1. called[c] = 0
      BY <2>3, PeerManagerAssumption DEF PubInv
    <3>2. Cardinality({t \in T : callback[t] = c}) = 1
      BY <2>3, WaitingForOne
    <3>3. QED
      BY <2>1, <2>3, <3>1, <3>2
  <2>4. CASE ~\E t \in T : callback[t] = c
    <3>1. Cardinality({t \in T : callback[t] = c}) = 0
      BY <2>4, WaitingForOne
    <3>2. QED
      BY <2>1, <2>2, <2>4, <3>1
  <2>5. QED
    BY <2>3, <2>4
<1>3. Call(T) = [c \in 1..Budget["publish"] |-> Call(T)[c]]
  BY <1>1 DEF Call
<1>4. QED
  BY <1>2, <1>3

\* Callbacks that are called leave publishedTx.
LEMMA CallKeepsPub ==
    ASSUME PubInv, BudgetInv, Issued' = Issued, NEW T \in SUBSET Tx, called' = Call(T),
           callback' = [t \in Tx |-> IF t \in T THEN 0 ELSE callback[t]],
           published' \subseteq Tx, UNCHANGED publisher
    PROVE  PubInv'
<1>0. Issued \in Nat /\ Issued <= Budget["publish"] /\ Budget["publish"] \in Nat
  BY PeerManagerAssumption DEF BudgetInv, Issued
<1>1. /\ called' \in [1..Budget["publish"] -> {0, 1}]
      /\ \A c \in 1..Budget["publish"] :
            called'[c] = IF \E t \in T : callback[t] = c THEN 1 ELSE called[c]
  BY CallCounts
<1>2. callback' \in [Tx -> 0..Issued]
  BY <1>0 DEF PubInv
<1>3. \A t, u \in Tx : callback'[t] = callback'[u] /\ callback'[t] # 0 => t = u
  BY DEF PubInv
<1>4. ASSUME NEW t \in Tx, callback'[t] # 0 PROVE called'[callback'[t]] = 0
  <2>1. t \notin T /\ callback'[t] = callback[t] /\ callback[t] # 0 /\ callback[t] \in 0..Issued
    BY <1>4 DEF PubInv
  <2>2. callback[t] \in 1..Budget["publish"]
    BY <2>1, <1>0
  <2>3. ~\E u \in T : callback[u] = callback[t]
    BY <2>1 DEF PubInv
  <2>4. QED
    BY <1>1, <2>1, <2>2, <2>3 DEF PubInv
<1>5. ASSUME NEW c \in 1..Budget["publish"], c > Issued PROVE called'[c] = 0
  <2>1. ~\E t \in T : callback[t] = c
    BY <1>0, <1>5 DEF PubInv
  <2>2. QED
    BY <1>1, <1>5, <2>1 DEF PubInv
<1>6. ASSUME publisher # <<>>
      PROVE  /\ publisher \in Tx \X (1..Issued)
             /\ called'[publisher[2]] = 0
             /\ \A t \in Tx : callback'[t] # publisher[2]
  <2>1. /\ publisher \in Tx \X (1..Issued)
        /\ called[publisher[2]] = 0
        /\ \A t \in Tx : callback[t] # publisher[2]
    BY <1>6 DEF PubInv
  <2>2. publisher[2] \in 1..Budget["publish"] /\ publisher[2] # 0
    BY <1>0, <2>1
  <2>3. QED
    BY <1>1, <2>1, <2>2
<1>7. QED
  BY <1>1, <1>2, <1>3, <1>4, <1>5, <1>6 DEF PubInv

\* A callback that a peer's answer calls
LEMMA AnswerKeepsPub ==
    ASSUME PubInv, BudgetInv, Issued' = Issued, NEW t \in Tx, Answer(t),
           published' \subseteq Tx, UNCHANGED publisher
    PROVE  PubInv'
<1>1. called' = Call({t})
  BY DEF Answer
<1>2. callback' = [u \in Tx |-> IF u \in {t} THEN 0 ELSE callback[u]]
  BY DEF Answer, PubInv
<1>3. QED
  BY <1>1, <1>2, CallKeepsPub

-----------------------------------------------------------------------------
(* BRPeerManagerConnect. *)

\* A connection that is begun or waits for the network
LEMMA NewConnProperties ==
    ASSUME reachable \in BOOLEAN
    PROVE  /\ NewConn \in BRPeer
           /\ NewConn.state \in {"starting", "waiting"}
           /\ NewConn.pongs = <<>> /\ NewConn.greet = FALSE
<1>1. Gone \in BRPeer /\ Gone.pongs = <<>> /\ Gone.greet = FALSE
  BY DEF Gone, BRPeer, ConnState
<1>2. \A s \in ConnState, b \in BOOLEAN :
          LET r == [Gone EXCEPT !.state = s, !.timer = b]
          IN  r \in BRPeer /\ r.state = s /\ r.pongs = <<>> /\ r.greet = FALSE
  BY <1>1 DEF BRPeer
<1>3. (IF reachable THEN "starting" ELSE "waiting") \in ConnState
  BY DEF ConnState
<1>4. QED
  BY <1>2, <1>3 DEF NewConn

\* BRPeerConnect of the peers that wait for the network
LEMMA RetriedKeeps ==
    ASSUME GoodConn(conn), reachable \in BOOLEAN
    PROVE  Keeps(conn, Retried)
BY NewConnProperties DEF Retried, Keeps, GoodConn, SameLife, Up

\* What is left to connect
LEMMA WantedBound ==
    ASSUME IInv
    PROVE  /\ Wanted \in Nat
           /\ Wanted + Cardinality(ConnectedPeers) <= PEER_MAX_CONNECTIONS
<1>1. /\ maxConnectCount \in Nat /\ maxConnectCount <= PEER_MAX_CONNECTIONS
      /\ PEER_MAX_CONNECTIONS \in Nat
  BY PeerManagerAssumption DEF IInv, NetInv
<1>2. Cardinality(ConnectedPeers) \in Nat
  BY ConnectedFinite
<1>3. Wanted = IF 0 >= maxConnectCount - Cardinality(ConnectedPeers) THEN 0
               ELSE maxConnectCount - Cardinality(ConnectedPeers)
  BY <1>1, <1>2, MaxOfTwo DEF Wanted
<1>4. QED
  BY <1>1, <1>2, <1>3 DEF IInv, CountInv

\* Random peers are added up to the maximum.
LEMMA AddPeersStep ==
    ASSUME IInv, NEW known \in SUBSET Peer, NEW cs, Keeps(conn, cs), AddPeers(known, cs)
    PROVE  /\ GoodConn(conn')
           /\ Cardinality(ConnectedPeers') <= PEER_MAX_CONNECTIONS
           /\ \A p \in Peer : conn[p].state \in Up => conn'[p].state \in Up
           /\ sync' \in BOOLEAN /\ peerThreadCount' \in Int
<1>1. PICK new \in SUBSET (known \ ConnectedPeers) :
        /\ Cardinality(new) = Min({Wanted, Cardinality(known \ ConnectedPeers)})
        /\ peerThreadCount' = peerThreadCount + Cardinality(new)
        /\ LET added == [p \in Peer |-> IF p \in new THEN NewConn ELSE cs[p]]
               none  == \A p \in Peer : added[p].state = "none"
           IN  /\ conn' = IF none THEN SyncStopped(added) ELSE added
               /\ sync' = (sync /\ ~none)
  BY DEF AddPeers
<1> DEFINE added == [p \in Peer |-> IF p \in new THEN NewConn ELSE cs[p]]
<1>2. /\ new \subseteq Peer /\ IsFiniteSet(new) /\ IsFiniteSet(known \ ConnectedPeers)
      /\ Cardinality(new) \in Nat /\ Cardinality(known \ ConnectedPeers) \in Nat
  <2>1. new \subseteq Peer /\ known \ ConnectedPeers \subseteq Peer
    OBVIOUS
  <2>2. QED
    BY <2>1, FS_Subset, FS_CardinalityType, PeerManagerAssumption
<1>3. Cardinality(new) <= Wanted
  <2> DEFINE n == Cardinality(known \ ConnectedPeers)
  <2>1. n \in Int /\ Wanted \in Int /\ Cardinality(new) = Min({Wanted, n})
    BY <1>1, <1>2, WantedBound
  <2> HIDE DEF n
  <2>2. Min({Wanted, n}) = IF Wanted <= n THEN Wanted ELSE n
    BY <2>1, MinOfTwo
  <2>3. QED
    BY <2>1, <2>2
<1>4. \A p \in new : cs[p].state = "none"
  BY <1>2 DEF ConnectedPeers, Keeps, SameLife
<1>5. /\ NewConn \in BRPeer /\ NewConn.state \in {"starting", "waiting"}
      /\ NewConn.pongs = <<>> /\ NewConn.greet = FALSE
  BY NewConnProperties DEF IInv, NetInv
<1>6. GoodConn(added)
  BY <1>5 DEF GoodConn, Keeps
<1>7. /\ \A p \in Peer : conn[p].state \in Up => added[p].state \in Up
      /\ \A p \in Peer : added[p].state # "none" <=> p \in ConnectedPeers \cup new
  BY <1>2, <1>4, <1>5 DEF Keeps, SameLife, ConnectedPeers, Up
<1>8. conn' = SyncStopped(added) \/ conn' = added
  BY <1>1
<1> HIDE DEF added
<1>9. Keeps(added, conn')
  <2>1. Keeps(added, added) /\ Keeps(added, SyncStopped(added))
    BY <1>6, KeepsRefl, SyncStoppedKeeps DEF IInv, DownInv
  <2>2. QED
    BY <1>8, <2>1
<1>10. GoodConn(conn') /\ \A p \in Peer : conn[p].state \in Up => conn'[p].state \in Up
  BY <1>7, <1>9 DEF Keeps, SameLife
<1>11. ConnectedPeers' = ConnectedPeers \cup new
  BY <1>2, <1>7, <1>9 DEF Keeps, SameLife, ConnectedPeers
<1>12. Cardinality(ConnectedPeers') <= PEER_MAX_CONNECTIONS
  <2>1. ConnectedPeers \cap new = {} /\ Cardinality({}) = 0
    BY FS_EmptySet
  <2>2. Cardinality(ConnectedPeers') = Cardinality(ConnectedPeers) + Cardinality(new) - 0
    BY <1>2, <1>11, <2>1, ConnectedFinite, FS_Union
  <2>3. QED
    BY <1>2, <1>3, <2>2, WantedBound, ConnectedFinite, PeerManagerAssumption
<1>13. sync' \in BOOLEAN /\ peerThreadCount' \in Int
  BY <1>1, <1>2 DEF IInv, SyncInv, NetInv
<1>14. QED
  BY <1>10, <1>12, <1>13

\* A step that may add peers keeps the invariant
LEMMA AddFrame ==
    ASSUME IInv, GoodConn(conn'), Cardinality(ConnectedPeers') <= PEER_MAX_CONNECTIONS,
           \A p \in Peer : conn[p].state \in Up => conn'[p].state \in Up,
           UNCHANGED <<downloadPeer, isConnected>>,
           NetInv', SyncInv', BudgetInv', TxInv', PubInv'
    PROVE  IInv'
<1>1. CountInv'
  BY DEF CountInv
<1>2. DownInv'
  BY DEF IInv, DownInv
<1>3. QED
  BY <1>1, <1>2 DEF IInv, GoodConn

\* the rest of BRPeerManagerConnect
LEMMA ConnectRestStep ==
    ASSUME IInv, NEW steps, ConnectRest(steps)
    PROVE  /\ GoodConn(conn')
           /\ Cardinality(ConnectedPeers') <= PEER_MAX_CONNECTIONS
           /\ \A p \in Peer : conn[p].state \in Up => conn'[p].state \in Up
           /\ sync' \in BOOLEAN /\ peerThreadCount' \in Int
           /\ IsABag(conts')
<1>1. Keeps(conn, Retried)
  BY RetriedKeeps DEF IInv, NetInv
<1>2. IsABag(conts')
  BY ProceedIsBag DEF IInv, NetInv, ConnectRest
<1>3. CASE Wanted > 0 /\ Cardinality(peers) < maxConnectCount
  <2>1. conn' = Retried /\ UNCHANGED <<sync, peerThreadCount>>
    BY <1>3 DEF ConnectRest
  <2>2. ConnectedPeers' = ConnectedPeers
    BY <1>1, <2>1 DEF Keeps, SameLife, ConnectedPeers
  <2>3. Cardinality(ConnectedPeers') <= PEER_MAX_CONNECTIONS
    BY <2>2 DEF IInv, CountInv
  <2>4. GoodConn(conn') /\ \A p \in Peer : conn[p].state \in Up => conn'[p].state \in Up
    BY <1>1, <2>1 DEF Keeps, SameLife
  <2>5. QED
    BY <1>2, <2>1, <2>3, <2>4 DEF IInv, NetInv, SyncInv
<1>4. CASE ~(Wanted > 0 /\ Cardinality(peers) < maxConnectCount)
  <2>1. AddPeers(peers, Retried) /\ peers \in SUBSET Peer
    BY <1>4 DEF ConnectRest, IInv, NetInv
  <2>2. QED
    BY <1>1, <1>2, <2>1, AddPeersStep
<1>5. QED
  BY <1>3, <1>4

LEMMA ConnectStep ==
    ASSUME IInv, Connect \/ NetworkLost \/ NetworkBack
    PROVE  IInv'
<1>1. IsABag(conts')
  BY StartIsBag DEF IInv, NetInv, Connect, NetworkLost, NetworkBack
<1>2. BudgetInv' /\ Issued' = Issued
  BY SpendOther, BudgetFrame, PeerManagerAssumption
     DEF IInv, Connect, NetworkLost, NetworkBack
<1>3. /\ UNCHANGED <<conn, peers, maxConnectCount, peerThreadCount, syncVars, bloomFilter,
                     pubVars, txVars>>
      /\ reachable' \in BOOLEAN
  BY DEF Connect, NetworkLost, NetworkBack, IInv, NetInv
<1>4. Keeps(conn, conn')
  BY <1>3, KeepsRefl DEF IInv
<1>5. NetInv' /\ SyncInv' /\ TxInv'
  BY <1>1, <1>3 DEF IInv, NetInv, SyncInv, TxInv, syncVars, txVars
<1>6. PubInv'
  BY <1>2, <1>3, PubFrame DEF IInv
<1>7. QED
  BY <1>2, <1>3, <1>4, <1>5, <1>6, StepFrame DEF syncVars

LEMMA ConnectBeginsStep ==
    ASSUME IInv, NEW steps, ConnectBegins(steps)
    PROVE  IInv'
<1>1. /\ GoodConn(conn')
      /\ Cardinality(ConnectedPeers') <= PEER_MAX_CONNECTIONS
      /\ \A p \in Peer : conn[p].state \in Up => conn'[p].state \in Up
      /\ sync' \in BOOLEAN /\ peerThreadCount' \in Int
      /\ IsABag(conts')
  <2>1. CASE ConnectRest(steps)
    BY <2>1, ConnectRestStep
  <2>2. CASE /\ sync' = TRUE
             /\ Proceed(steps, <<"connectPeers">>)
             /\ UNCHANGED <<conn, peerThreadCount>>
    <3>1. IsABag(conts')
      BY <2>2, ProceedIsBag DEF IInv, NetInv
    <3>2. ConnectedPeers' = ConnectedPeers
      BY <2>2 DEF ConnectedPeers
    <3>3. QED
      BY <2>2, <3>1, <3>2 DEF IInv, NetInv, CountInv
  <2>3. QED
    BY <2>1, <2>2 DEF ConnectBegins
<1>2. /\ UNCHANGED <<peers, maxConnectCount, reachable, downloadPeer, isConnected, height,
                     estimatedHeight, bloomFilter, pubVars, txVars, budget>>
      /\ failures' \in Nat
  BY DEF ConnectBegins, IInv, SyncInv
<1>3. NetInv' /\ SyncInv' /\ TxInv'
  BY <1>1, <1>2 DEF IInv, NetInv, SyncInv, TxInv, txVars
<1>4. BudgetInv' /\ PubInv'
  BY <1>2, BudgetFrame, PubFrame DEF IInv
<1>5. QED
  BY <1>1, <1>2, <1>3, <1>4, AddFrame

LEMMA ConnectPeersStep ==
    ASSUME IInv, NEW steps, ConnectPeers(steps)
    PROVE  IInv'
<1>1. /\ GoodConn(conn')
      /\ Cardinality(ConnectedPeers') <= PEER_MAX_CONNECTIONS
      /\ \A p \in Peer : conn[p].state \in Up => conn'[p].state \in Up
      /\ sync' \in BOOLEAN /\ peerThreadCount' \in Int
      /\ IsABag(conts')
  BY ConnectRestStep DEF ConnectPeers
<1>2. UNCHANGED <<peers, maxConnectCount, reachable, downloadPeer, isConnected, failures, height,
                  estimatedHeight, bloomFilter, pubVars, txVars, budget>>
  BY DEF ConnectPeers
<1>3. NetInv' /\ SyncInv' /\ TxInv'
  BY <1>1, <1>2 DEF IInv, NetInv, SyncInv, TxInv, txVars
<1>4. BudgetInv' /\ PubInv'
  BY <1>2, BudgetFrame, PubFrame DEF IInv
<1>5. QED
  BY <1>1, <1>2, <1>3, <1>4, AddFrame

LEMMA FoundPeersStep ==
    ASSUME IInv, NEW steps, FoundPeers(steps)
    PROVE  IInv'
<1>1. peers' \in SUBSET Peer
  BY DEF FoundPeers, IInv, NetInv
<1>2. Keeps(conn, conn)
  BY KeepsRefl DEF IInv
<1>3. AddPeers(peers', conn)
  BY DEF FoundPeers
<1>4. /\ GoodConn(conn')
      /\ Cardinality(ConnectedPeers') <= PEER_MAX_CONNECTIONS
      /\ \A p \in Peer : conn[p].state \in Up => conn'[p].state \in Up
      /\ sync' \in BOOLEAN /\ peerThreadCount' \in Int
  BY <1>1, <1>2, <1>3, AddPeersStep
<1>5. IsABag(conts')
  BY ProceedIsBag DEF FoundPeers, IInv, NetInv
<1>6. UNCHANGED <<maxConnectCount, reachable, downloadPeer, isConnected, failures, height,
                  estimatedHeight, bloomFilter, pubVars, txVars>>
  BY DEF FoundPeers
<1>7. BudgetInv' /\ Issued' = Issued
  BY SpendOther, BudgetFrame, PeerManagerAssumption DEF FoundPeers, IInv
<1>8. NetInv' /\ SyncInv' /\ TxInv'
  BY <1>1, <1>4, <1>5, <1>6 DEF IInv, NetInv, SyncInv, TxInv, txVars
<1>9. PubInv'
  BY <1>6, <1>7, PubFrame DEF IInv
<1>10. QED
  BY <1>4, <1>6, <1>7, <1>8, <1>9, AddFrame

-----------------------------------------------------------------------------
(* BRPeerManagerDisconnect and the ends of threads. *)

LEMMA DisconnectStep ==
    ASSUME IInv, Disconnect
    PROVE  IInv'
<1> DEFINE F == [p \in Peer |-> Close(conn, p)]
           cs == [p \in Peer |-> F[p][p]]
           W == {p \in Peer : cs[p].state \in {"waiting", "starting"}}
<1>1. \A p \in Peer : Keeps(conn, F[p])
  BY CloseKeeps DEF IInv
<1>2. /\ conn' = cs
      /\ peerThreadCount' = peerThreadCount - Cardinality(W)
  BY DEF Disconnect
<1>3. Cardinality(W) \in Nat
  <2>1. W \subseteq Peer
    OBVIOUS
  <2>2. QED
    BY <2>1, FS_Subset, FS_CardinalityType, PeerManagerAssumption
<1> HIDE DEF F, W
<1>4. Keeps(conn, cs)
  BY <1>1, PointwiseKeeps DEF IInv
<1> HIDE DEF cs
<1>5. Keeps(conn, conn')
  BY <1>2, <1>4
<1>6. IsABag(conts')
  BY StartIsBag DEF Disconnect, IInv, NetInv
<1>7. /\ UNCHANGED <<peers, reachable, downloadPeer, isConnected, sync, height,
                     estimatedHeight, bloomFilter, pubVars, txVars>>
      /\ maxConnectCount' = 0 /\ failures' \in Nat
  BY PeerManagerAssumption DEF Disconnect, IInv, SyncInv
<1>8. NetInv' /\ SyncInv' /\ TxInv'
  BY <1>2, <1>3, <1>6, <1>7 DEF IInv, NetInv, SyncInv, TxInv, txVars
<1>9. BudgetInv' /\ Issued' = Issued
  BY SpendOther, PeerManagerAssumption DEF Disconnect, IInv
<1>10. PubInv'
  BY <1>7, <1>9, PubFrame DEF IInv
<1>11. QED
  BY <1>5, <1>7, <1>8, <1>9, <1>10, StepFrame

LEMMA EndingStep ==
    ASSUME IInv, NEW steps,
           DisconnectWaits(steps) \/ DisconnectEnds(steps) \/ ThreadCleanup(steps)
    PROVE  IInv'
<1>1. IsABag(conts')
  BY ProceedIsBag DEF IInv, NetInv, DisconnectWaits, DisconnectEnds, ThreadCleanup
<1>2. /\ UNCHANGED <<conn, peers, reachable, syncVars, bloomFilter, pubVars, txVars, budget>>
      /\ peerThreadCount' \in Int
      /\ maxConnectCount' \in {0, PEER_MAX_CONNECTIONS}
  BY DEF DisconnectWaits, DisconnectEnds, ThreadCleanup, CountWithoutEnded, IInv, NetInv
<1>3. Keeps(conn, conn')
  BY <1>2, KeepsRefl DEF IInv
<1>4. NetInv' /\ SyncInv' /\ TxInv'
  BY <1>1, <1>2 DEF IInv, NetInv, SyncInv, TxInv, syncVars, txVars
<1>5. BudgetInv' /\ PubInv'
  BY <1>2, BudgetFrame, PubFrame DEF IInv
<1>6. QED
  BY <1>2, <1>3, <1>4, <1>5, StepFrame DEF syncVars

-----------------------------------------------------------------------------
(* The thread of a peer. *)

\* A step of a peer's thread that changes its record only
LEMMA RecordFrame ==
    ASSUME IInv, Keeps(conn, conn'),
           UNCHANGED <<netVars, syncVars, bloomFilter, pubVars, txVars>>,
           BudgetInv', Issued' = Issued
    PROVE  IInv'
<1>1. NetInv' /\ SyncInv' /\ TxInv'
  BY DEF IInv, NetInv, SyncInv, TxInv, netVars, syncVars, txVars
<1>2. PubInv'
  BY PubFrame DEF IInv
<1>3. QED
  BY <1>1, <1>2, StepFrame DEF syncVars

\* _BRPeerOpenSocket and _BRPeerDidConnect
LEMMA HandshakeStep ==
    ASSUME IInv, NEW p \in Peer, SocketOpens(p) \/ DidConnect(p)
    PROVE  IInv'
<1>0. /\ conn \in [Peer -> BRPeer] /\ conn[p] \in BRPeer
      /\ conn[p].pongs # <<>> => conn[p].state \in Up
      /\ conn[p].greet => conn[p].state \in {"connected", "closed"}
  BY DEF IInv, GoodConn
<1>1. Keeps(conn, conn')
  <2>1. CASE SocketOpens(p)
    <3> DEFINE r == [conn[p] EXCEPT !.state = "handshake"]
    <3>1. conn' = [conn EXCEPT ![p] = r] /\ conn[p].state = "starting"
      BY <2>1 DEF SocketOpens
    <3>2. r \in BRPeer /\ r.state = "handshake" /\ r.pongs = conn[p].pongs
          /\ r.greet = conn[p].greet
      BY <1>0, WithState DEF ConnState
    <3> HIDE DEF r
    <3>3. /\ conn[p].state = "none" <=> r.state = "none"
          /\ conn[p].state \in Up => r.state \in Up
          /\ r.pongs # <<>> => r.state \in Up
          /\ r.greet => r.state \in {"connected", "closed"}
      BY <1>0, <3>1, <3>2 DEF Up
    <3>4. Keeps(conn, [conn EXCEPT ![p] = r])
      BY <3>2, <3>3, ChangeKeeps DEF IInv
    <3>5. QED
      BY <3>1, <3>4, Zenon
  <2>2. CASE DidConnect(p)
    <3> DEFINE r == [conn[p] EXCEPT !.state = "connected", !.greet = TRUE, !.timer = FALSE]
    <3>1. conn' = [conn EXCEPT ![p] = r] /\ conn[p].state = "handshake"
      BY <1>0, <2>2 DEF DidConnect
    <3>2. r \in BRPeer /\ r.state = "connected"
      BY <1>0 DEF BRPeer, ConnState, Up
    <3> HIDE DEF r
    <3>3. /\ conn[p].state = "none" <=> r.state = "none"
          /\ conn[p].state \in Up => r.state \in Up
          /\ r.pongs # <<>> => r.state \in Up
          /\ r.greet => r.state \in {"connected", "closed"}
      BY <3>1, <3>2 DEF Up
    <3>4. Keeps(conn, [conn EXCEPT ![p] = r])
      BY <3>2, <3>3, ChangeKeeps DEF IInv
    <3>5. QED
      BY <3>1, <3>4, Zenon
  <2>3. QED
    BY <2>1, <2>2
<1>2. UNCHANGED <<netVars, syncVars, bloomFilter, pubVars, txVars, budget>>
  BY DEF SocketOpens, DidConnect
<1>3. BudgetInv' /\ Issued' = Issued
  BY <1>2, BudgetFrame DEF IInv
<1>4. QED
  BY <1>1, <1>2, <1>3, RecordFrame

\* A connection ends: its thread still has its failed pongs to handle.
LEMMA DyingKeeps ==
    ASSUME IInv, NEW p \in Peer, conn[p].state \in {"handshake"} \cup Up,
           NEW error \in {"ETIMEDOUT", "EBADF", "ECONNRESET", "EPROTO"}
    PROVE  Keeps(conn, Dying(p, error))
<1> DEFINE r == [conn[p] EXCEPT !.state = "dead", !.greet = FALSE, !.error = error,
                                !.mempool = FALSE]
<1>1. conn \in [Peer -> BRPeer] /\ conn[p] \in BRPeer
  BY DEF IInv, GoodConn
<1>2. Dying(p, error) = [conn EXCEPT ![p] = r]
  BY <1>1 DEF Dying
<1>3. r \in BRPeer /\ r.state = "dead" /\ r.greet = FALSE
  BY <1>1 DEF BRPeer, ConnState, Up
<1> HIDE DEF r
<1>4. /\ conn[p].state = "none" <=> r.state = "none"
      /\ conn[p].state \in Up => r.state \in Up
      /\ r.pongs # <<>> => r.state \in Up
      /\ r.greet => r.state \in {"connected", "closed"}
  BY <1>3 DEF Up
<1>5. Keeps(conn, [conn EXCEPT ![p] = r])
  BY <1>3, <1>4, ChangeKeeps DEF IInv
<1>6. QED
  BY <1>2, <1>5, Zenon

LEMMA DyingStep ==
    ASSUME IInv, NEW p \in Peer, PeerTimesOut(p) \/ PeerCloses(p) \/ PeerFails(p)
    PROVE  IInv'
<1>1. PICK error \in {"ETIMEDOUT", "EBADF", "ECONNRESET", "EPROTO"} : conn' = Dying(p, error)
  BY DEF PeerTimesOut, PeerCloses, PeerFails
<1>2. conn[p].state \in {"handshake"} \cup Up
  BY DEF PeerTimesOut, PeerCloses, PeerFails, Up
<1>3. Keeps(conn, conn')
  BY <1>1, <1>2, DyingKeeps
<1>4. UNCHANGED <<netVars, syncVars, bloomFilter, pubVars, txVars>>
  BY DEF PeerTimesOut, PeerCloses, PeerFails
<1>5. BudgetInv' /\ Issued' = Issued
  BY SpendOther, BudgetFrame, PeerManagerAssumption DEF PeerTimesOut, PeerCloses, PeerFails, IInv
<1>6. QED
  BY <1>3, <1>4, <1>5, RecordFrame

LEMMA MempoolAnsweredStep ==
    ASSUME IInv, NEW p \in Peer, MempoolAnswered(p)
    PROVE  IInv'
<1> DEFINE cs == [conn EXCEPT ![p].mempool = FALSE]
<1>1. Keeps(conn, cs)
  BY MempoolKeeps DEF IInv
<1>2. conn' = SendPing(cs, p, "mempoolDone", p) /\ conn[p].state \in Up
  BY DEF MempoolAnswered, Up
<1> HIDE DEF cs
<1>3. cs[p].state \in Up /\ GoodConn(cs)
  BY <1>1, <1>2, KeepsUp, KeepsGood
<1>4. Keeps(cs, conn')
  BY <1>2, <1>3, SendPingKeeps DEF Done
<1>5. Keeps(conn, conn')
  BY <1>1, <1>4, KeepsTrans
<1>6. UNCHANGED <<netVars, syncVars, bloomFilter, pubVars, txVars, budget>>
  BY DEF MempoolAnswered
<1>7. BudgetInv' /\ Issued' = Issued
  BY <1>6, BudgetFrame DEF IInv
<1>8. QED
  BY <1>5, <1>6, <1>7, RecordFrame

\* the candidates for download peer have connected
LEMMA BestIsUp ==
    ASSUME IInv, NEW p \in Peer, conn[p].greet, NEW q \in Best(p)
    PROVE  q \in Peer /\ conn[q].state \in Up
BY DEF Best, Online, IInv, GoodConn, Up

\* the greeting is handled
LEMMA GreetedKeeps ==
    ASSUME IInv, NEW p \in Peer, conn[p].greet
    PROVE  Keeps(conn, Handled([conn EXCEPT ![p].greet = FALSE], p))
<1> DEFINE r == [conn[p] EXCEPT !.greet = FALSE]
           cs == [conn EXCEPT ![p].greet = FALSE]
<1>1. /\ conn \in [Peer -> BRPeer] /\ conn[p] \in BRPeer
      /\ conn[p].pongs # <<>> => conn[p].state \in Up
  BY DEF IInv, GoodConn
<1>2. cs = [conn EXCEPT ![p] = r]
  OBVIOUS
<1>3. r \in BRPeer /\ r.state = conn[p].state /\ r.pongs = conn[p].pongs /\ r.greet = FALSE
  BY <1>1 DEF BRPeer
<1>4. cs[p].greet = FALSE
  BY <1>1, <1>2, <1>3
<1> HIDE DEF r
<1>5. Keeps(conn, [conn EXCEPT ![p] = r])
  BY <1>1, <1>3, ChangeKeeps DEF IInv
<1> HIDE DEF cs
<1>6. Keeps(conn, cs)
  BY <1>2, <1>5, Zenon
<1>7. Keeps(cs, Handled(cs, p))
  BY <1>4, <1>6, KeepsGood, HandledKeeps
<1>8. Keeps(conn, Handled(cs, p))
  BY <1>6, <1>7, KeepsTrans
<1>9. QED
  BY <1>8 DEF cs

\* a peer that is not fit, or misbehaves, is disconnected
LEMMA CloseHandledKeeps ==
    ASSUME NEW cs, GoodConn(cs), NEW p \in Peer, ~cs[p].greet
    PROVE  Keeps(cs, Handled(Close(cs, p), p))
<1>1. Keeps(cs, Close(cs, p))
  BY CloseKeeps
<1>2. ~Close(cs, p)[p].greet
  <2>1. cs \in [Peer -> BRPeer] /\ cs[p] \in BRPeer /\ "closed" \in ConnState
    BY DEF GoodConn, ConnState, Up
  <2>2. [cs[p] EXCEPT !.state = "closed"].greet = cs[p].greet
    BY <2>1, WithState
  <2>3. QED
    BY <2>1, <2>2 DEF Close
<1>3. Keeps(Close(cs, p), Handled(Close(cs, p), p))
  BY <1>1, <1>2, KeepsGood, HandledKeeps
<1>4. QED
  BY <1>1, <1>3, KeepsTrans

\* _peerConnected: the new download peer is one that has connected.
LEMMA PeerConnectedStep ==
    ASSUME IInv, NEW p \in Peer, PeerConnected(p)
    PROVE  IInv'
<1> DEFINE gs == [conn EXCEPT ![p].greet = FALSE]
           cs == Handled(gs, p)
<1>1. conn[p].greet /\ conn[p].state \in Up /\ conn \in [Peer -> BRPeer] /\ conn[p] \in BRPeer
  BY DEF PeerConnected, IInv, GoodConn, Up
<1>2. Keeps(conn, cs)
  BY <1>1, GreetedKeeps
<1>3. GoodConn(cs) /\ cs[p].state \in Up
  BY <1>1, <1>2, KeepsGood, KeepsUp
<1>4. ~cs[p].greet
  <2>1. gs \in [Peer -> BRPeer] /\ gs[p].greet = FALSE
    BY <1>1 DEF BRPeer
  <2>2. [gs[p] EXCEPT !.state = "ended"].greet = FALSE
    BY <2>1, WithState DEF ConnState, Up
  <2>3. QED
    BY <2>1, <2>2 DEF Handled
<1>5. published \subseteq Tx
  BY DEF IInv, PubInv
<1>6. /\ UNCHANGED <<netVars, pubVars, txVars, budget, sync, height>>
      /\ bloomFilter' \in BOOLEAN
      /\ failures' \in Nat
  <2>1. UNCHANGED <<netVars, pubVars, txVars, budget>>
    BY DEF PeerConnected
  <2>2. \/ UNCHANGED <<syncVars, bloomFilter>>
        \/ /\ bloomFilter' = TRUE
           /\ failures' = failures \/ failures' = 0
           /\ UNCHANGED <<sync, height>>
    BY DEF PeerConnected
  <2>3. UNCHANGED sync /\ UNCHANGED height
    BY <2>2 DEF syncVars
  <2>4. bloomFilter' \in BOOLEAN
    BY <2>2 DEF IInv, SyncInv
  <2>5. failures' \in Nat
    BY <2>2 DEF IInv, SyncInv, syncVars
  <2>6. QED
    BY <2>1, <2>3, <2>4, <2>5
<1>7. NetInv' /\ TxInv' /\ BudgetInv' /\ PubInv'
  BY <1>6, BudgetFrame, PubFrame DEF IInv, NetInv, TxInv, netVars, txVars
<1>8. CASE UNCHANGED <<downloadPeer, isConnected, estimatedHeight>> /\ Keeps(cs, conn')
  <2>1. Keeps(conn, conn')
    BY <1>2, <1>8, KeepsTrans
  <2>2. SyncInv'
    BY <1>6, <1>8 DEF IInv, SyncInv
  <2>3. QED
    BY <1>7, <1>8, <2>1, <2>2, StepFrame
<1>9. CASE /\ conn' = Handled(Close(cs, p), p)
           /\ UNCHANGED <<syncVars, bloomFilter>>
  <2>1. Keeps(cs, conn')
    BY <1>3, <1>4, <1>9, CloseHandledKeeps
  <2>2. QED
    BY <1>8, <1>9, <2>1 DEF syncVars
<1>10. CASE conn' = cs /\ UNCHANGED <<syncVars, bloomFilter>>
  BY <1>3, <1>8, <1>10, KeepsRefl DEF syncVars
<1>11. CASE /\ conn' = SendPing(PublishPendingTx(LoadBloomFilter(cs, p), p), p,
                                "loadBloomFilterDone", p)
            /\ UNCHANGED <<downloadPeer, isConnected, sync, height, estimatedHeight>>
  <2>1. Keeps(cs, conn')
    BY <1>3, <1>5, <1>11, TellAndPingKeeps
  <2>2. QED
    BY <1>8, <1>11, <2>1
<1>12. ASSUME NEW q \in Best(p),
              LET left == IF downloadPeer = NoPeer THEN cs ELSE Close(cs, downloadPeer)
                  told == Chosen(left, q)
              IN  /\ downloadPeer' = q
                  /\ isConnected' = TRUE
                  /\ estimatedHeight' = LastBlock[q]
                  /\ failures' = IF height < LastBlock[q] THEN failures ELSE 0
                  /\ conn' = IF height < LastBlock[q] THEN told
                             ELSE LoadMempools(told, q, FALSE)
       PROVE  IInv'
  <2> DEFINE left == IF downloadPeer = NoPeer THEN cs ELSE Close(cs, downloadPeer)
             tell == PublishPendingTx(LoadBloomFilter(left, q), q)
             told == Chosen(left, q)
  <2>0. q \in Peer /\ conn[q].state \in Up
    BY <1>1, BestIsUp
  <2>1. Keeps(cs, left)
    <3>1. CASE downloadPeer = NoPeer
      BY <1>3, <3>1, KeepsRefl
    <3>2. CASE downloadPeer # NoPeer
      <4>1. downloadPeer \in Peer
        BY <3>2 DEF IInv, DownInv
      <4>2. QED
        BY <1>3, <3>2, <4>1, CloseKeeps
    <3>3. QED
      BY <3>1, <3>2
  <2>2. conn' = told \/ conn' = LoadMempools(told, q, FALSE)
    BY <1>12
  <2>3. told = tell \/ told = ScheduleDisconnect(tell, q, TRUE)
    BY DEF Chosen
  <2> HIDE DEF left
  <2>4. Keeps(left, tell)
    BY <1>5, <2>0, <2>1, KeepsGood, TellKeeps
  <2> HIDE DEF tell
  <2>5. Keeps(tell, told)
    <3>1. Keeps(tell, tell) /\ Keeps(tell, ScheduleDisconnect(tell, q, TRUE))
      BY <2>0, <2>4, KeepsGood, KeepsRefl, ScheduleKeeps
    <3>2. QED
      BY <2>3, <3>1, Zenon
  <2> HIDE DEF told
  <2>6. Keeps(told, conn')
    <3>1. Keeps(told, told) /\ Keeps(told, LoadMempools(told, q, FALSE))
      BY <1>5, <2>5, KeepsGood, KeepsRefl, LoadMempoolsKeeps
    <3>2. QED
      BY <2>2, <3>1, Zenon
  <2>7. Keeps(conn, conn')
    BY <1>2, <2>1, <2>4, <2>5, <2>6, KeepsTrans
  <2>8. conn'[q].state \in Up
    BY <2>0, <2>7, KeepsUp
  <2>9. downloadPeer' = q /\ isConnected' = TRUE /\ estimatedHeight' = LastBlock[q]
    BY <1>12
  <2>10. q # NoPeer /\ LastBlock[q] \in 0..Top
    BY <2>0, PeerManagerAssumption
  <2>11. DownInv'
    BY <2>0, <2>8, <2>9, <2>10 DEF DownInv
  <2>12. SyncInv'
    BY <1>6, <2>9, <2>10 DEF IInv, SyncInv
  <2>13. ConnectedPeers' = ConnectedPeers
    BY <2>7 DEF Keeps, SameLife, ConnectedPeers
  <2>14. CountInv' /\ GoodConn(conn')
    BY <2>7, <2>13, KeepsGood DEF IInv, CountInv
  <2>15. QED
    BY <1>7, <2>11, <2>12, <2>14 DEF IInv, GoodConn
<1> HIDE DEF cs, gs
<1>13. QED
  <2>1. \/ /\ conn' = Handled(Close(cs, p), p)
           /\ UNCHANGED <<syncVars, bloomFilter>>
        \/ conn' = cs /\ UNCHANGED <<syncVars, bloomFilter>>
        \/ /\ conn' = SendPing(PublishPendingTx(LoadBloomFilter(cs, p), p), p,
                               "loadBloomFilterDone", p)
           /\ UNCHANGED <<downloadPeer, isConnected, sync, height, estimatedHeight>>
        \/ \E q \in Best(p) :
              LET left == IF downloadPeer = NoPeer THEN cs ELSE Close(cs, downloadPeer)
                  told == Chosen(left, q)
              IN  /\ downloadPeer' = q
                  /\ isConnected' = TRUE
                  /\ estimatedHeight' = LastBlock[q]
                  /\ failures' = IF height < LastBlock[q] THEN failures ELSE 0
                  /\ conn' = IF height < LastBlock[q] THEN told
                             ELSE LoadMempools(told, q, FALSE)
    BY DEF PeerConnected, cs, gs
  <2>2. QED
    BY <2>1, <1>9, <1>10, <1>11, <1>12

\* _peerDisconnected: a download peer that goes is forgotten.
LEMMA PeerDisconnectedStep ==
    ASSUME IInv, NEW p \in Peer, PeerDisconnected(p)
    PROVE  IInv'
<1>1. /\ conn' = [conn EXCEPT ![p] = Gone]
      /\ downloadPeer' = IF p = downloadPeer THEN NoPeer ELSE downloadPeer
      /\ isConnected' = (isConnected /\ p # downloadPeer)
      /\ relays' = [t \in Tx |-> relays[t] \ {p}]
      /\ UNCHANGED <<maxConnectCount, peerThreadCount, reachable, height, estimatedHeight,
                     bloomFilter, published, publisher, wallet, requests, budget>>
  BY DEF PeerDisconnected, DownloadPeerAfter
<1>2. Gone \in BRPeer /\ Gone.pongs = <<>> /\ Gone.greet = FALSE /\ Gone.state = "none"
  BY DEF Gone, BRPeer, ConnState
<1>3. GoodConn(conn')
  BY <1>1, <1>2 DEF IInv, GoodConn
<1>4. DownInv'
  BY <1>1, PeerManagerAssumption DEF IInv, DownInv, SyncInv, GoodConn
<1>5. CountInv'
  <2>1. ConnectedPeers' \subseteq ConnectedPeers
    BY <1>1, <1>2 DEF IInv, GoodConn, ConnectedPeers
  <2>2. Cardinality(ConnectedPeers') <= Cardinality(ConnectedPeers)
    BY <2>1, ConnectedFinite, FS_Subset
  <2>3. Cardinality(ConnectedPeers') \in Nat
    BY <2>1, ConnectedFinite, FS_Subset, FS_CardinalityType
  <2>4. QED
    BY <2>2, <2>3, ConnectedFinite, PeerManagerAssumption DEF IInv, CountInv
<1>6. IsABag(conts')
  BY StartIsBag DEF PeerDisconnected, IInv, NetInv
<1>7. peers' \subseteq Peer
  BY DEF PeerDisconnected, Misbehavin, IInv, NetInv
<1>8. failures' \in Nat /\ sync' \in BOOLEAN
  <2> DEFINE counted == failures + (IF conn[p].error = "EPROTO" THEN 0 ELSE 1)
  <2>1. counted \in Nat
    BY DEF IInv, SyncInv
  <2>2. failures' = IF p = downloadPeer THEN Min({counted, MAX_CONNECT_FAILURES}) ELSE counted
    BY DEF PeerDisconnected
  <2> HIDE DEF counted
  <2>3. Min({counted, MAX_CONNECT_FAILURES}) \in Nat
    BY <2>1, MinOfTwo, PeerManagerAssumption
  <2>4. sync' \in BOOLEAN
    BY DEF PeerDisconnected, IInv, SyncInv
  <2>5. QED
    BY <2>1, <2>2, <2>3, <2>4
<1>9. NetInv' /\ SyncInv' /\ TxInv'
  <2>1. isConnected' \in BOOLEAN
    BY <1>1 DEF IInv, SyncInv
  <2>2. QED
    BY <1>1, <1>6, <1>7, <1>8, <2>1 DEF IInv, NetInv, SyncInv, TxInv
<1>10. BudgetInv' /\ Issued' = Issued
  BY <1>1, BudgetFrame DEF IInv
<1>11. PubInv'
  <2>1. PICK T \in SUBSET Tx :
          /\ called' = Call(T)
          /\ callback' = [t \in Tx |-> IF t \in T THEN 0 ELSE callback[t]]
    <3>1. published \in SUBSET Tx /\ {} \in SUBSET Tx
      BY DEF IInv, PubInv
    <3>2. QED
      BY <3>1 DEF PeerDisconnected
  <2>2. published' \subseteq Tx
    BY <1>1 DEF IInv, PubInv
  <2>3. QED
    BY <1>1, <1>10, <2>1, <2>2, CallKeepsPub DEF IInv
<1>12. QED
  BY <1>3, <1>4, <1>5, <1>9, <1>10, <1>11 DEF IInv, GoodConn

-----------------------------------------------------------------------------
(* Pongs. *)

\* What a callback may do: it keeps connectedPeers, and sets what PongDone leaves to it.
PongKeeps(cs) ==
    /\ Keeps(cs, conn')
    /\ sync' \in BOOLEAN /\ bloomFilter' \in BOOLEAN
    /\ TxInv'

LEMMA RequestUnrelayedTxDoneStep ==
    ASSUME IInv, NEW cs, GoodConn(cs), NEW p \in Peer, NEW ok \in BOOLEAN,
           RequestUnrelayedTxDone(cs, p, ok)
    PROVE  PongKeeps(cs)
<1>1. cs \in [Peer -> BRPeer] /\ cs[p].synced \in BOOLEAN
  BY DEF GoodConn, BRPeer
<1>2. conn' = [cs EXCEPT ![p].synced = cs[p].synced \/ ok]
  BY DEF RequestUnrelayedTxDone
<1>3. (cs[p].synced \/ ok) \in BOOLEAN
  OBVIOUS
<1>4. Keeps(cs, conn')
  BY <1>2, <1>3, SyncedKeeps
<1>5. TxInv'
  BY DEF RequestUnrelayedTxDone, IInv, TxInv
<1>6. sync' \in BOOLEAN /\ bloomFilter' \in BOOLEAN
  BY DEF RequestUnrelayedTxDone, IInv, SyncInv
<1>7. QED
  BY <1>4, <1>5, <1>6 DEF PongKeeps

LEMMA LoadBloomFilterDoneStep ==
    ASSUME IInv, NEW cs, GoodConn(cs), NEW p \in Peer, NEW ok \in BOOLEAN,
           LoadBloomFilterDone(cs, p, ok)
    PROVE  PongKeeps(cs)
<1>1. Keeps(cs, cs) /\ Keeps(cs, SyncStopped(cs)) /\ Keeps(cs, SendMempool(cs, p, TRUE))
  BY KeepsRefl, SyncStoppedKeeps, SendMempoolKeeps DEF IInv, DownInv
<1>2. conn' = SendMempool(cs, p, TRUE) \/ conn' = SyncStopped(cs) \/ conn' = cs
  BY DEF LoadBloomFilterDone
<1>3. Keeps(cs, conn')
  BY <1>1, <1>2, Zenon
<1>4. sync' \in BOOLEAN /\ bloomFilter' \in BOOLEAN
  BY DEF LoadBloomFilterDone, IInv, SyncInv
<1>5. TxInv'
  BY DEF LoadBloomFilterDone, IInv, TxInv, txVars
<1>6. QED
  BY <1>3, <1>4, <1>5 DEF PongKeeps

LEMMA RequestAgainStep ==
    ASSUME IInv, NEW cs, GoodConn(cs), NEW p \in Peer, cs[p].state \in Up,
           PublishTxInvDone(cs, p) \/ MempoolDone(cs, p)
    PROVE  PongKeeps(cs)
<1>1. CASE PublishTxInvDone(cs, p)
  <2>1. Keeps(cs, conn') /\ TxInv'
    BY <1>1, RequestUnrelayedKeeps DEF PublishTxInvDone, IInv
  <2>2. QED
    BY <1>1, <2>1 DEF PublishTxInvDone, PongKeeps, IInv, SyncInv
<1>2. CASE MempoolDone(cs, p)
  <2> DEFINE ds == IF sync THEN SyncStopped(cs) ELSE cs
  <2>1. Keeps(cs, ds)
    BY KeepsRefl, SyncStoppedKeeps DEF IInv, DownInv
  <2>2. RequestUnrelayedTx(ds, p) /\ sync' = FALSE /\ UNCHANGED bloomFilter
    BY <1>2 DEF MempoolDone
  <2> HIDE DEF ds
  <2>3. GoodConn(ds) /\ ds[p].state \in Up
    BY <2>1, KeepsGood, KeepsUp
  <2>4. Keeps(ds, conn') /\ TxInv'
    BY <2>2, <2>3, RequestUnrelayedKeeps DEF IInv
  <2>5. Keeps(cs, conn')
    BY <2>1, <2>4, KeepsTrans
  <2>6. QED
    BY <2>2, <2>4, <2>5 DEF PongKeeps, IInv, SyncInv
<1>3. QED
  BY <1>1, <1>2

\* a new filter for one peer, and a ping behind it
LEMMA LoadAndPingKeeps ==
    ASSUME NEW cs, GoodConn(cs), NEW p \in Peer, cs[p].state \in Up, NEW done \in Done,
           NEW q \in Peer
    PROVE  Keeps(cs, SendPing(LoadBloomFilter(cs, p), p, done, q))
<1> DEFINE ds == LoadBloomFilter(cs, p)
<1>1. Keeps(cs, ds)
  BY LoadBloomFilterKeeps
<1> HIDE DEF ds
<1>2. GoodConn(ds) /\ ds[p].state \in Up
  BY <1>1, KeepsGood, KeepsUp
<1>3. Keeps(ds, SendPing(ds, p, done, q))
  BY <1>2, SendPingKeeps
<1>4. Keeps(cs, SendPing(ds, p, done, q))
  BY <1>1, <1>3, KeepsTrans
<1>5. QED
  BY <1>4 DEF ds

LEMMA UpdateFilterPingDoneStep ==
    ASSUME IInv, NEW cs, GoodConn(cs), NEW q \in Peer,
           downloadPeer # NoPeer => cs[downloadPeer].state \in Up,
           UpdateFilterPingDone(cs, q)
    PROVE  PongKeeps(cs)
<1> DEFINE F == [r \in Peer |->
                    IF r \in Online(cs)
                    THEN SendPing(LoadBloomFilter(cs, r), r, "updateFilterLoadDone", r)
                    ELSE cs]
<1>0. sync' \in BOOLEAN /\ bloomFilter' \in BOOLEAN /\ TxInv'
  <2>1. bloomFilter' = TRUE \/ bloomFilter' = FALSE
    BY DEF UpdateFilterPingDone
  <2>2. QED
    BY <2>1 DEF UpdateFilterPingDone, IInv, SyncInv, TxInv, txVars
<1>1. CASE height < estimatedHeight /\ downloadPeer = NoPeer
  <2>1. conn' = cs
    BY <1>1 DEF UpdateFilterPingDone
  <2>2. QED
    BY <1>0, <2>1, KeepsRefl DEF PongKeeps
<1>2. CASE height < estimatedHeight /\ downloadPeer # NoPeer
  <2>1. conn' = SendPing(LoadBloomFilter(cs, downloadPeer), downloadPeer,
                         "updateFilterLoadDone", q)
    BY <1>2 DEF UpdateFilterPingDone
  <2>2. downloadPeer \in Peer /\ cs[downloadPeer].state \in Up
    BY <1>2 DEF IInv, DownInv
  <2>3. Keeps(cs, conn')
    BY <2>1, <2>2, LoadAndPingKeeps DEF Done
  <2>4. QED
    BY <1>0, <2>3 DEF PongKeeps
<1>3. CASE ~(height < estimatedHeight)
  <2>1. conn' = [r \in Peer |-> F[r][r]]
    BY <1>3 DEF UpdateFilterPingDone
  <2>2. ASSUME NEW r \in Peer PROVE Keeps(cs, F[r])
    <3>1. CASE r \in Online(cs)
      <4>1. cs[r].state \in Up
        BY <3>1 DEF Online, Up
      <4>2. Keeps(cs, SendPing(LoadBloomFilter(cs, r), r, "updateFilterLoadDone", r))
        BY <4>1, LoadAndPingKeeps DEF Done
      <4>3. QED
        BY <3>1, <4>2
    <3>2. CASE r \notin Online(cs)
      BY <3>2, KeepsRefl
    <3>3. QED
      BY <3>1, <3>2
  <2> HIDE DEF F
  <2>3. Keeps(cs, [r \in Peer |-> F[r][r]])
    BY <2>2, PointwiseKeeps
  <2>4. Keeps(cs, conn')
    BY <2>1, <2>3, Zenon
  <2>5. QED
    BY <1>0, <2>4 DEF PongKeeps
<1>4. QED
  BY <1>1, <1>2, <1>3

LEMMA UpdateFilterLoadDoneStep ==
    ASSUME IInv, NEW cs, GoodConn(cs), NEW p \in Peer, NEW q \in Peer,
           downloadPeer # NoPeer => cs[downloadPeer].state \in Up,
           UpdateFilterLoadDone(cs, p, q)
    PROVE  PongKeeps(cs)
<1>1. PICK ds : /\ ds = cs \/ ds = [cs EXCEPT ![q].needsUpdate = FALSE]
                /\ conn' = IF height >= estimatedHeight THEN SendMempool(ds, q, FALSE)
                           ELSE IF downloadPeer = NoPeer THEN ds
                           ELSE SendPing(ds, downloadPeer, "updateFilterRerequestDone", q)
  BY DEF UpdateFilterLoadDone
<1>2. Keeps(cs, ds)
  BY <1>1, KeepsRefl, NeedsUpdateKeeps
<1>3. GoodConn(ds)
  BY <1>2, KeepsGood
<1>4. Keeps(ds, conn')
  <2>1. CASE height >= estimatedHeight
    BY <1>1, <1>3, <2>1, SendMempoolKeeps
  <2>2. CASE ~(height >= estimatedHeight) /\ downloadPeer = NoPeer
    BY <1>1, <1>3, <2>2, KeepsRefl
  <2>3. CASE ~(height >= estimatedHeight) /\ downloadPeer # NoPeer
    <3>1. downloadPeer \in Peer /\ cs[downloadPeer].state \in Up
      BY <2>3 DEF IInv, DownInv
    <3>2. ds[downloadPeer].state \in Up
      BY <1>2, <3>1, KeepsUp
    <3>3. QED
      BY <1>1, <1>3, <2>3, <3>1, <3>2, SendPingKeeps DEF Done
  <2>4. QED
    BY <2>1, <2>2, <2>3
<1>5. Keeps(cs, conn')
  BY <1>2, <1>4, KeepsTrans
<1>6. sync' \in BOOLEAN /\ bloomFilter' \in BOOLEAN /\ TxInv'
  BY DEF UpdateFilterLoadDone, IInv, SyncInv, TxInv, txVars
<1>7. QED
  BY <1>5, <1>6 DEF PongKeeps

LEMMA PongStep ==
    ASSUME IInv, NEW p \in Peer, Pong(p)
    PROVE  IInv'
<1> DEFINE r  == [conn[p] EXCEPT !.pongs = Tail(conn[p].pongs)]
           gs == [conn EXCEPT ![p].pongs = Tail(@)]
           cs == Handled(gs, p)
           ok == conn[p].state # "dead"
           first == Head(conn[p].pongs)
<1>0. /\ conn \in [Peer -> BRPeer] /\ conn[p] \in BRPeer
      /\ conn[p].pongs \in Seq(Done \X Peer) /\ conn[p].pongs # <<>>
      /\ conn[p].greet => conn[p].state \in {"connected", "closed"}
      /\ conn[p].state = "dead" \/ (conn[p].state \in {"connected", "closed"} /\ ~conn[p].greet)
  BY DEF Pong, IInv, GoodConn, BRPeer, Reading
<1>1. conn[p].state \in Up /\ ~conn[p].greet
  BY <1>0 DEF Up
<1>2. Tail(conn[p].pongs) \in Seq(Done \X Peer) /\ first \in Done \X Peer
  BY <1>0
<1>3. gs = [conn EXCEPT ![p] = r]
  OBVIOUS
<1>4. r \in BRPeer /\ r.state = conn[p].state /\ r.greet = conn[p].greet
  BY <1>0, <1>2 DEF BRPeer
<1> HIDE DEF r
<1>5. Keeps(conn, [conn EXCEPT ![p] = r])
  BY <1>1, <1>4, FlagsKeep DEF IInv
<1>6. ~gs[p].greet
  BY <1>0, <1>1, <1>3, <1>4
<1>7. PongDone(cs, p, first[1], first[2], ok)
  BY DEF Pong
<1> HIDE DEF gs
<1>8. Keeps(conn, gs)
  BY <1>3, <1>5, Zenon
<1>9. Keeps(gs, cs)
  BY <1>6, <1>8, KeepsGood, HandledKeeps
<1> HIDE DEF cs
<1>10. Keeps(conn, cs) /\ GoodConn(cs) /\ cs[p].state \in Up
  BY <1>1, <1>8, <1>9, KeepsTrans, KeepsGood, KeepsUp
<1>11. downloadPeer # NoPeer => cs[downloadPeer].state \in Up
  BY <1>10, KeepsUp DEF IInv, DownInv
<1>12. first[1] \in Done /\ first[2] \in Peer /\ ok \in BOOLEAN
  BY <1>2
<1> HIDE DEF first, ok
<1>13. PongKeeps(cs)
  <2>1. CASE ~ok /\ first[1] \notin HandlesFailure
    <3>1. conn' = cs /\ UNCHANGED <<sync, bloomFilter, txVars>>
      BY <1>7, <2>1 DEF PongDone
    <3>2. Keeps(cs, conn')
      BY <1>10, <3>1, KeepsRefl
    <3>3. QED
      BY <3>1, <3>2 DEF PongKeeps, IInv, SyncInv, TxInv, txVars
  <2>2. CASE ok \/ first[1] \in HandlesFailure
    <3>1. \/ RequestUnrelayedTxDone(cs, p, ok)
          \/ LoadBloomFilterDone(cs, p, ok)
          \/ PublishTxInvDone(cs, p)
          \/ MempoolDone(cs, p)
          \/ UpdateFilterPingDone(cs, first[2])
          \/ UpdateFilterLoadDone(cs, p, first[2])
          \/ UpdateFilterRerequestDone(cs)
      BY <1>7, <1>12, <2>2 DEF PongDone, Done
    <3>2. CASE UpdateFilterRerequestDone(cs)
      <4>1. Keeps(cs, conn')
        BY <1>10, <3>2, KeepsRefl DEF UpdateFilterRerequestDone
      <4>2. QED
        BY <3>2, <4>1 DEF UpdateFilterRerequestDone, PongKeeps, IInv, SyncInv, TxInv, txVars
    <3>3. QED
      BY <1>10, <1>11, <1>12, <3>1, <3>2, RequestUnrelayedTxDoneStep, LoadBloomFilterDoneStep,
         RequestAgainStep, UpdateFilterPingDoneStep, UpdateFilterLoadDoneStep
  <2>3. QED
    BY <2>1, <2>2
<1>14. Keeps(conn, conn')
  BY <1>10, <1>13, KeepsTrans DEF PongKeeps
<1>15. UNCHANGED <<netVars, downloadPeer, isConnected, failures, height, estimatedHeight, pubVars,
                   budget>>
  BY DEF Pong
<1>16. NetInv' /\ SyncInv' /\ TxInv'
  BY <1>13, <1>15 DEF IInv, NetInv, SyncInv, netVars, PongKeeps
<1>17. BudgetInv' /\ PubInv'
  BY <1>15, BudgetFrame, PubFrame DEF IInv
<1>18. QED
  BY <1>14, <1>15, <1>16, <1>17, StepFrame

-----------------------------------------------------------------------------
(* Messages of a peer. *)

\* a thread that handles a message
LEMMA ReadingKeeps ==
    ASSUME IInv, NEW p \in Peer, Reading(p)
    PROVE  /\ Keeps(conn, Handled(conn, p)) /\ GoodConn(Handled(conn, p))
           /\ conn[p].state \in Up /\ ~conn[p].greet
           /\ ~Handled(conn, p)[p].greet
<1>1. conn[p].state \in Up /\ ~conn[p].greet
  BY DEF Reading, Up
<1>2. Keeps(conn, Handled(conn, p))
  BY <1>1, HandledKeeps DEF IInv
<1>3. ~Handled(conn, p)[p].greet
  <2>1. conn \in [Peer -> BRPeer] /\ conn[p] \in BRPeer
    BY DEF IInv, GoodConn
  <2>2. [conn[p] EXCEPT !.state = "ended"].greet = conn[p].greet
    BY <2>1, WithState DEF ConnState, Up
  <2>3. QED
    BY <1>1, <2>1, <2>2 DEF Handled
<1>4. QED
  BY <1>1, <1>2, <1>3, KeepsGood

LEMMA BlockStep ==
    ASSUME IInv, NEW p \in Peer, Block(p)
    PROVE  IInv'
<1> DEFINE cs == Handled(conn, p)
<1>1. Keeps(conn, cs) /\ GoodConn(cs) /\ published \subseteq Tx
  BY ReadingKeeps DEF Block, IInv, PubInv
<1>2. PICK reload \in BOOLEAN :
        /\ reload => Spend("mishap")
        /\ ~reload => UNCHANGED budget
        /\ \/ conn' = cs \/ conn' = ScheduleDisconnect(cs, p, TRUE)
           \/ conn' = LoadMempools(cs, downloadPeer, reload)
        /\ failures' = failures \/ failures' = 0
        /\ \/ UNCHANGED <<height, estimatedHeight>>
           \/ /\ height' = height + 1
              /\ estimatedHeight' = Max({estimatedHeight, height + 1})
  BY DEF Block
<1>3. Keeps(conn, conn')
  <2>1. /\ Keeps(cs, cs) /\ Keeps(cs, ScheduleDisconnect(cs, p, TRUE))
        /\ Keeps(cs, LoadMempools(cs, downloadPeer, reload))
    BY <1>1, KeepsRefl, ScheduleKeeps, LoadMempoolsKeeps
  <2> HIDE DEF cs
  <2>2. Keeps(cs, conn')
    BY <1>2, <2>1, Zenon
  <2>3. QED
    BY <1>1, <2>2, KeepsTrans
<1>4. /\ UNCHANGED <<netVars, downloadPeer, isConnected, sync, bloomFilter, pubVars, txVars>>
      /\ height < LastBlock[p]
  BY DEF Block
<1>5. height' \in 0..Top /\ estimatedHeight' \in 0..Top
  <2>1. /\ height \in 0..Top /\ estimatedHeight \in 0..Top /\ Top \in Nat
        /\ LastBlock[p] \in 0..Top
    BY PeerManagerAssumption DEF IInv, SyncInv
  <2>2. height + 1 \in 0..Top
    BY <1>4, <2>1
  <2>3. Max({estimatedHeight, height + 1}) \in 0..Top
    BY <2>1, <2>2, MaxOfTwo
  <2>4. QED
    BY <1>2, <2>1, <2>2, <2>3
<1>6. NetInv' /\ SyncInv' /\ TxInv'
  BY <1>2, <1>4, <1>5 DEF IInv, NetInv, SyncInv, TxInv, netVars, txVars
<1>7. BudgetInv' /\ Issued' = Issued
  BY <1>2, SpendOther, BudgetFrame, PeerManagerAssumption DEF IInv
<1>8. PubInv'
  BY <1>4, <1>7, PubFrame DEF IInv
<1>9. QED
  BY <1>3, <1>4, <1>6, <1>7, <1>8, StepFrame

\* the timeouts after a message about a transaction
LEMMA AnsweredKeeps ==
    ASSUME IInv, NEW p \in Peer, NEW t, Reading(p)
    PROVE  /\ Keeps(conn, PublishAnswered(Handled(conn, p), p, t))
           /\ Keeps(conn, SyncGoesOn(PublishAnswered(Handled(conn, p), p, t), p))
<1> DEFINE cs == Handled(conn, p)
           ds == PublishAnswered(cs, p, t)
<1>1. Keeps(conn, cs)
  BY ReadingKeeps
<1>2. Keeps(cs, ds)
  BY <1>1, KeepsGood, PublishAnsweredKeeps
<1>3. Keeps(conn, ds)
  BY <1>1, <1>2, KeepsTrans
<1> HIDE DEF ds
<1>4. Keeps(ds, SyncGoesOn(ds, p))
  BY <1>3, KeepsGood, SyncGoesOnKeeps
<1>5. Keeps(conn, SyncGoesOn(ds, p))
  BY <1>3, <1>4, KeepsTrans
<1>6. QED
  BY <1>3, <1>5 DEF ds

LEMMA RelayedTxStep ==
    ASSUME IInv, NEW p \in Peer, NEW t \in Tx, RelayedTx(p, t)
    PROVE  IInv'
<1> DEFINE cs == SyncGoesOn(PublishAnswered(Handled(conn, p), p, t), p)
<1>1. Keeps(conn, cs)
  BY AnsweredKeeps DEF RelayedTx
<1>2. /\ conn' = cs \/ conn' = UpdateFilter(cs)
      /\ bloomFilter' \in BOOLEAN
  BY DEF RelayedTx
<1> HIDE DEF cs
<1>3. Keeps(cs, cs) /\ Keeps(cs, UpdateFilter(cs))
  <2>1. GoodConn(cs) /\ (downloadPeer # NoPeer => cs[downloadPeer].state \in Up)
    BY <1>1, KeepsGood, KeepsUp DEF IInv, DownInv
  <2>2. QED
    BY <2>1, KeepsRefl, UpdateFilterKeeps DEF IInv, DownInv
<1>4. Keeps(cs, conn')
  BY <1>2, <1>3, Zenon
<1>5. Keeps(conn, conn')
  BY <1>1, <1>4, KeepsTrans
<1>6. UNCHANGED <<netVars, syncVars, publisher>>
  BY DEF RelayedTx
<1>7. NetInv' /\ SyncInv' /\ TxInv'
  <2>1. TxInv'
    BY DEF RelayedTx, IInv, TxInv
  <2>2. QED
    BY <1>2, <1>6, <2>1 DEF IInv, NetInv, SyncInv, netVars, syncVars
<1>8. BudgetInv' /\ Issued' = Issued
  BY SpendOther, PeerManagerAssumption DEF RelayedTx, IInv
<1>9. PubInv'
  <2>1. published' \subseteq Tx /\ Answer(t)
    BY DEF RelayedTx, IInv, PubInv
  <2>2. QED
    BY <1>6, <1>8, <2>1, AnswerKeepsPub DEF IInv
<1>10. QED
  BY <1>5, <1>6, <1>7, <1>8, <1>9, StepFrame DEF syncVars

LEMMA RelayedOtherStep ==
    ASSUME IInv, NEW p \in Peer, RelayedOther(p)
    PROVE  IInv'
<1> DEFINE cs == Handled(conn, p)
<1>1. Keeps(conn, cs) /\ GoodConn(cs)
  BY ReadingKeeps DEF RelayedOther
<1>2. conn' = cs \/ conn' = ScheduleDisconnect(cs, p, FALSE)
  BY DEF RelayedOther
<1>3. Keeps(cs, cs) /\ Keeps(cs, ScheduleDisconnect(cs, p, FALSE))
  BY <1>1, KeepsRefl, ScheduleKeeps
<1> HIDE DEF cs
<1>4. Keeps(cs, conn')
  BY <1>2, <1>3, Zenon
<1>5. Keeps(conn, conn')
  BY <1>1, <1>4, KeepsTrans
<1>6. UNCHANGED <<netVars, syncVars, bloomFilter, pubVars, txVars>>
  BY DEF RelayedOther
<1>7. BudgetInv' /\ Issued' = Issued
  BY SpendOther, PeerManagerAssumption DEF RelayedOther, IInv
<1>8. QED
  BY <1>5, <1>6, <1>7, RecordFrame

LEMMA HasTxStep ==
    ASSUME IInv, NEW p \in Peer, NEW t \in Tx, HasTx(p, t)
    PROVE  IInv'
<1> DEFINE cs == PublishAnswered(Handled(conn, p), p, t)
<1>1. Keeps(conn, cs) /\ Keeps(conn, SyncGoesOn(cs, p))
  BY AnsweredKeeps DEF HasTx
<1>2. conn' = cs \/ conn' = SyncGoesOn(cs, p)
  BY DEF HasTx
<1> HIDE DEF cs
<1>3. Keeps(conn, conn')
  BY <1>1, <1>2, Zenon
<1>4. UNCHANGED <<netVars, syncVars, bloomFilter, published, publisher>>
  BY DEF HasTx
<1>5. NetInv' /\ SyncInv' /\ TxInv'
  <2>1. TxInv'
    BY DEF HasTx, IInv, TxInv
  <2>2. QED
    BY <1>4, <2>1 DEF IInv, NetInv, SyncInv, netVars, syncVars
<1>6. BudgetInv' /\ Issued' = Issued
  BY SpendOther, PeerManagerAssumption DEF HasTx, IInv
<1>7. PubInv'
  <2>1. published' \subseteq Tx /\ Answer(t)
    BY <1>4 DEF HasTx, IInv, PubInv
  <2>2. QED
    BY <1>4, <1>6, <2>1, AnswerKeepsPub DEF IInv
<1>8. QED
  BY <1>3, <1>4, <1>5, <1>6, <1>7, StepFrame DEF syncVars

LEMMA RequestedTxStep ==
    ASSUME IInv, NEW p \in Peer, NEW t \in Tx, RequestedTx(p, t)
    PROVE  IInv'
<1> DEFINE cs == PublishAnswered(Handled(conn, p), p, t)
           inv == cs[p].inv \ {t}
<1>1. Keeps(conn, cs)
  BY AnsweredKeeps DEF RequestedTx
<1>2. conn' = [cs EXCEPT ![p].inv = inv]
  BY DEF RequestedTx
<1> HIDE DEF cs
<1>3. inv \in SUBSET Tx
  BY <1>1 DEF Keeps, GoodConn, BRPeer
<1> HIDE DEF inv
<1>4. Keeps(cs, conn')
  BY <1>1, <1>2, <1>3, KeepsGood, InvKeeps
<1>5. Keeps(conn, conn')
  BY <1>1, <1>4, KeepsTrans
<1>6. UNCHANGED <<netVars, syncVars, bloomFilter, published, publisher, requests, budget>>
  BY DEF RequestedTx
<1>7. NetInv' /\ SyncInv' /\ TxInv'
  <2>1. TxInv'
    BY DEF RequestedTx, IInv, TxInv
  <2>2. QED
    BY <1>6, <2>1 DEF IInv, NetInv, SyncInv, netVars, syncVars
<1>8. BudgetInv' /\ Issued' = Issued
  BY <1>6, BudgetFrame DEF IInv
<1>9. PubInv'
  <2>1. published' \subseteq Tx /\ Answer(t)
    BY <1>6 DEF RequestedTx, IInv, PubInv
  <2>2. QED
    BY <1>6, <1>8, <2>1, AnswerKeepsPub DEF IInv
<1>10. QED
  BY <1>5, <1>6, <1>7, <1>8, <1>9, StepFrame DEF syncVars

\* _peerRejectedTx, _peerDataNotfound and _peerRelayedPeers
LEMMA OtherMessageStep ==
    ASSUME IInv, NEW p \in Peer,
           \/ \E t \in Tx : RejectedTx(p, t) \/ DataNotfound(p, t)
           \/ RelayedPeers(p)
    PROVE  IInv'
<1> DEFINE cs == Handled(conn, p)
<1>1. Keeps(conn, cs) /\ GoodConn(cs) /\ ~cs[p].greet
  BY ReadingKeeps DEF RejectedTx, DataNotfound, RelayedPeers
<1>2. conn' = cs \/ conn' = Handled(Close(cs, p), p)
  BY DEF RejectedTx, DataNotfound, RelayedPeers
<1>3. Keeps(cs, cs) /\ Keeps(cs, Handled(Close(cs, p), p))
  BY <1>1, KeepsRefl, CloseHandledKeeps
<1> HIDE DEF cs
<1>4. Keeps(cs, conn')
  BY <1>2, <1>3, Zenon
<1>5. Keeps(conn, conn')
  BY <1>1, <1>4, KeepsTrans
<1>6. /\ UNCHANGED <<maxConnectCount, peerThreadCount, conts, reachable, syncVars, bloomFilter,
                     pubVars, wallet>>
      /\ peers' \subseteq Peer
  <2>1. UNCHANGED <<maxConnectCount, peerThreadCount, conts, reachable, syncVars, bloomFilter,
                    pubVars, wallet>>
    BY DEF RejectedTx, DataNotfound, RelayedPeers, netVars, txVars
  <2>2. peers' \subseteq Peer
    BY DEF RejectedTx, DataNotfound, RelayedPeers, Misbehavin, netVars, IInv, NetInv
  <2>3. QED
    BY <2>1, <2>2
<1>7. TxInv'
  BY DEF RejectedTx, DataNotfound, RelayedPeers, txVars, IInv, TxInv
<1>8. NetInv' /\ SyncInv'
  BY <1>6 DEF IInv, NetInv, SyncInv, syncVars
<1>9. BudgetInv' /\ Issued' = Issued
  BY SpendOther, BudgetFrame, PeerManagerAssumption
     DEF RejectedTx, DataNotfound, RelayedPeers, IInv
<1>10. PubInv'
  BY <1>6, <1>9, PubFrame DEF IInv
<1>11. QED
  BY <1>5, <1>6, <1>7, <1>8, <1>9, <1>10, StepFrame DEF syncVars

-----------------------------------------------------------------------------
(* Other calls of the application. *)

LEMMA RescanStep ==
    ASSUME IInv, Rescan
    PROVE  IInv'
<1>1. downloadPeer \in Peer
  BY DEF Rescan, IInv, DownInv
<1>2. Keeps(conn, conn')
  BY <1>1, CloseKeeps DEF Rescan, IInv
<1>3. IsABag(conts')
  BY StartIsBag DEF Rescan, IInv, NetInv
<1>4. /\ UNCHANGED <<maxConnectCount, peerThreadCount, reachable, downloadPeer, isConnected,
                     failures, estimatedHeight, bloomFilter, pubVars, txVars>>
      /\ height' = 0 /\ sync' = FALSE /\ peers' = peers \ {downloadPeer}
  BY DEF Rescan
<1>5. NetInv' /\ SyncInv' /\ TxInv'
  <2>1. NetInv' /\ TxInv'
    BY <1>3, <1>4 DEF IInv, NetInv, TxInv, txVars
  <2>2. Top \in Nat
    BY PeerManagerAssumption
  <2>3. isConnected' \in BOOLEAN /\ sync' \in BOOLEAN /\ bloomFilter' \in BOOLEAN
    BY <1>4 DEF IInv, SyncInv
  <2>4. failures' \in Nat /\ height' \in 0..Top /\ estimatedHeight' \in 0..Top
    BY <1>4, <2>2 DEF IInv, SyncInv
  <2>5. QED
    BY <2>1, <2>3, <2>4 DEF SyncInv
<1>6. BudgetInv' /\ Issued' = Issued
  BY SpendOther, PeerManagerAssumption DEF Rescan, IInv
<1>7. PubInv'
  BY <1>4, <1>6, PubFrame DEF IInv
<1>8. QED
  BY <1>2, <1>4, <1>5, <1>6, <1>7, StepFrame

\* The announcement of a transaction to the peers that are connected
LEMMA PublishNowKeeps ==
    ASSUME IInv, NEW t \in Tx, NEW c, PublishNow(t, c)
    PROVE  /\ Keeps(conn, conn')
           /\ published' \subseteq Tx
           /\ callback' = callback \/ callback' = [callback EXCEPT ![t] = c]
           /\ UNCHANGED called
<1>1. PICK new, pending \in BOOLEAN, to \in SUBSET Online(conn) :
        /\ published' = published \cup {t}
        /\ callback' = callback \/ callback' = [callback EXCEPT ![t] = c]
        /\ conn' = [p \in Peer |->
                        IF p \in to
                        THEN SendPing(Announce(conn, p, published', pending), p,
                                      "publishTxInvDone", p)[p]
                        ELSE conn[p]]
        /\ UNCHANGED called
  <2> DEFINE new     == IF t \in published THEN callback ELSE [callback EXCEPT ![t] = c]
             pending == \E u \in Tx : new[u] # 0
             to      == IF Cardinality(Online(conn)) = 1 THEN Online(conn)
                        ELSE Online(conn) \ {downloadPeer}
  <2>1. pending \in BOOLEAN /\ to \in SUBSET Online(conn)
    OBVIOUS
  <2>2. /\ published' = published \cup {t}
        /\ callback' = new
        /\ conn' = [p \in Peer |->
                        IF p \in to
                        THEN SendPing(Announce(conn, p, published', pending), p,
                                      "publishTxInvDone", p)[p]
                        ELSE conn[p]]
        /\ UNCHANGED called
    BY DEF PublishNow
  <2>3. new = callback \/ new = [callback EXCEPT ![t] = c]
    OBVIOUS
  <2> HIDE DEF new, pending, to
  <2>4. QED
    BY <2>1, <2>2, <2>3
<1>2. published' \in SUBSET Tx
  BY <1>1 DEF IInv, PubInv
<1> DEFINE F == [p \in Peer |->
                    IF p \in to
                    THEN SendPing(Announce(conn, p, published', pending), p,
                                  "publishTxInvDone", p)
                    ELSE conn]
<1>3. ASSUME NEW p \in Peer PROVE Keeps(conn, F[p])
  <2>1. CASE p \in to
    <3> DEFINE cs == Announce(conn, p, published', pending)
    <3>1. conn[p].state \in Up
      BY <2>1 DEF Online, Up
    <3>2. Keeps(conn, cs)
      BY <1>2, AnnounceKeeps DEF IInv
    <3>3. F[p] = SendPing(cs, p, "publishTxInvDone", p)
      BY <2>1
    <3> HIDE DEF cs
    <3>4. GoodConn(cs) /\ cs[p].state \in Up
      BY <3>1, <3>2, KeepsGood, KeepsUp
    <3>5. Keeps(cs, SendPing(cs, p, "publishTxInvDone", p))
      BY <3>4, SendPingKeeps DEF Done
    <3>6. Keeps(conn, SendPing(cs, p, "publishTxInvDone", p))
      BY <3>2, <3>5, KeepsTrans
    <3>7. QED
      BY <3>3, <3>6, Zenon
  <2>2. CASE p \notin to
    <3>1. F[p] = conn
      BY <2>2
    <3>2. QED
      BY <3>1, KeepsRefl DEF IInv
  <2>3. QED
    BY <2>1, <2>2
<1>4. conn' = [p \in Peer |-> F[p][p]]
  BY <1>1
<1> HIDE DEF F
<1>5. Keeps(conn, [p \in Peer |-> F[p][p]])
  BY <1>3, PointwiseKeeps DEF IInv
<1>6. Keeps(conn, conn')
  BY <1>4, <1>5, Zenon
<1>7. QED
  BY <1>1, <1>2, <1>6

\* A callback that nothing holds may be put into publishedTx, or called.
LEMMA FreshKeepsPub ==
    ASSUME PubInv, Issued \in Nat, Issued' \in Nat, Issued <= Issued',
           Issued' <= Budget["publish"], NEW t \in Tx, NEW c \in 1..Issued',
           called[c] = 0, \A u \in Tx : callback[u] # c,
           published' \subseteq Tx, publisher' = <<>>,
           \/ /\ callback' = callback \/ callback' = [callback EXCEPT ![t] = c]
              /\ UNCHANGED called
           \/ /\ called' = [called EXCEPT ![c] = @ + 1]
              /\ UNCHANGED callback
    PROVE  PubInv'
<1>0. Budget["publish"] \in Nat /\ c \in 1..Budget["publish"] /\ c # 0
  BY PeerManagerAssumption
<1>1. /\ callback \in [Tx -> 0..Issued]
      /\ called \in [1..Budget["publish"] -> {0, 1}]
      /\ \A v, u \in Tx : callback[v] = callback[u] /\ callback[v] # 0 => v = u
      /\ \A v \in Tx : callback[v] # 0 => called[callback[v]] = 0
      /\ \A d \in 1..Budget["publish"] : d > Issued => called[d] = 0
  BY DEF PubInv
<1>2. CASE UNCHANGED <<callback, called>>
  <2>1. callback' \in [Tx -> 0..Issued']
    BY <1>1, <1>2
  <2>2. \A d \in 1..Budget["publish"] : d > Issued' => called'[d] = 0
    BY <1>1, <1>2
  <2>3. QED
    BY <1>1, <1>2, <2>1, <2>2 DEF PubInv
<1>3. CASE callback' = [callback EXCEPT ![t] = c] /\ UNCHANGED called
  <2>1. callback' \in [Tx -> 0..Issued']
    BY <1>1, <1>3
  <2>2. \A v, u \in Tx : callback'[v] = callback'[u] /\ callback'[v] # 0 => v = u
    BY <1>1, <1>3
  <2>3. \A v \in Tx : callback'[v] # 0 => called'[callback'[v]] = 0
    BY <1>1, <1>3
  <2>4. \A d \in 1..Budget["publish"] : d > Issued' => called'[d] = 0
    BY <1>1, <1>3
  <2>5. QED
    BY <1>1, <1>3, <2>1, <2>2, <2>3, <2>4 DEF PubInv
<1>4. CASE called' = [called EXCEPT ![c] = @ + 1] /\ UNCHANGED callback
  <2>1. called' = [called EXCEPT ![c] = 1]
    BY <1>0, <1>1, <1>4
  <2>2. callback' \in [Tx -> 0..Issued']
    BY <1>1, <1>4
  <2>3. called' \in [1..Budget["publish"] -> {0, 1}]
    BY <1>0, <1>1, <2>1
  <2>4. \A v \in Tx : callback'[v] # 0 => called'[callback'[v]] = 0
    BY <1>1, <1>4, <2>1
  <2>5. \A d \in 1..Budget["publish"] : d > Issued' => called'[d] = 0
    BY <1>0, <1>1, <2>1
  <2>6. QED
    BY <1>1, <1>4, <2>2, <2>3, <2>4, <2>5 DEF PubInv
<1>5. QED
  BY <1>2, <1>3, <1>4

LEMMA PublishTxStep ==
    ASSUME IInv, NEW t \in Tx, PublishTx(t)
    PROVE  IInv'
<1> DEFINE c == Issued + 1
<1>0. /\ Budget["publish"] \in Nat /\ "publish" \in DOMAIN Budget
      /\ budget["publish"] \in Nat /\ budget["publish"] <= Budget["publish"]
      /\ budget["publish"] > 0
      /\ budget' = [budget EXCEPT !["publish"] = budget["publish"] - 1]
  BY PeerManagerAssumption DEF PublishTx, Spend, IInv, BudgetInv
<1>1. /\ BudgetInv'
      /\ Issued \in Nat /\ Issued' = Issued + 1 /\ Issued' <= Budget["publish"]
  BY <1>0 DEF IInv, BudgetInv, Issued
<1>2. c \in 1..Issued' /\ c \in 1..Budget["publish"] /\ c > Issued
  BY <1>1
<1>3. called[c] = 0 /\ \A u \in Tx : callback[u] # c
  BY <1>1, <1>2 DEF IInv, PubInv
<1>4. /\ publisher = <<>>
      /\ \/ PublishNow(t, c) /\ UNCHANGED publisher
         \/ Failed(c) /\ UNCHANGED publisher
         \/ publisher' = <<t, c>> /\ UNCHANGED <<conn, published, callback, called>>
      /\ UNCHANGED <<netVars, syncVars, bloomFilter, txVars>>
  BY DEF PublishTx, Issued
<1> HIDE DEF c
<1>5. NetInv' /\ SyncInv' /\ TxInv'
  BY <1>4 DEF IInv, NetInv, SyncInv, TxInv, netVars, syncVars, txVars
<1>6. Keeps(conn, conn') /\ PubInv'
  <2>1. CASE PublishNow(t, c) /\ UNCHANGED publisher
    <3>1. /\ Keeps(conn, conn') /\ published' \subseteq Tx
          /\ callback' = callback \/ callback' = [callback EXCEPT ![t] = c]
          /\ UNCHANGED called
      BY <2>1, PublishNowKeeps
    <3>2. QED
      BY <1>1, <1>2, <1>3, <1>4, <2>1, <3>1, FreshKeepsPub DEF IInv
  <2>2. CASE Failed(c) /\ UNCHANGED publisher
    <3>1. /\ called' = [called EXCEPT ![c] = @ + 1]
          /\ UNCHANGED <<conn, published, callback>>
      BY <2>2 DEF Failed
    <3>2. Keeps(conn, conn') /\ published' \subseteq Tx
      BY <3>1, KeepsRefl DEF IInv, PubInv
    <3>3. publisher' = <<>> /\ Issued <= Issued' /\ Issued' \in Nat
      BY <1>1, <1>4, <2>2
    <3>4. PubInv'
      BY <1>1, <1>2, <1>3, <3>1, <3>2, <3>3, FreshKeepsPub DEF IInv
    <3>5. QED
      BY <3>2, <3>4
  <2>3. CASE publisher' = <<t, c>> /\ UNCHANGED <<conn, published, callback, called>>
    <3>1. Keeps(conn, conn')
      BY <2>3, KeepsRefl DEF IInv
    <3>2. /\ publisher' \in Tx \X (1..Issued')
          /\ called'[publisher'[2]] = 0
          /\ \A u \in Tx : callback'[u] # publisher'[2]
      BY <1>2, <1>3, <2>3
    <3>3. /\ callback' \in [Tx -> 0..Issued']
          /\ \A d \in 1..Budget["publish"] : d > Issued' => called'[d] = 0
      BY <1>1, <2>3 DEF IInv, PubInv
    <3>4. PubInv'
      BY <2>3, <3>2, <3>3 DEF IInv, PubInv
    <3>5. QED
      BY <3>1, <3>4
  <2>4. QED
    BY <1>4, <2>1, <2>2, <2>3
<1>7. UNCHANGED <<downloadPeer, isConnected>>
  BY <1>4 DEF syncVars
<1>8. QED
  BY <1>1, <1>5, <1>6, <1>7, StepFrame

LEMMA PublishTxGoesOnStep ==
    ASSUME IInv, PublishTxGoesOn
    PROVE  IInv'
<1> DEFINE t == publisher[1]
           c == publisher[2]
<1>0. BudgetInv' /\ Issued' = Issued
  BY BudgetFrame DEF PublishTxGoesOn, IInv
<1>1. Issued \in Nat /\ Issued' \in Nat /\ Issued <= Issued' /\ Issued' <= Budget["publish"]
  BY <1>0, PeerManagerAssumption DEF IInv, BudgetInv, Issued
<1>2. /\ t \in Tx /\ c \in 1..Issued'
      /\ called[c] = 0 /\ \A u \in Tx : callback[u] # c
  BY <1>0 DEF PublishTxGoesOn, IInv, PubInv
<1>3. /\ publisher' = <<>>
      /\ PublishNow(t, c) \/ Failed(c)
      /\ UNCHANGED <<netVars, syncVars, bloomFilter, txVars>>
  BY DEF PublishTxGoesOn
<1> HIDE DEF t, c
<1>4. NetInv' /\ SyncInv' /\ TxInv'
  BY <1>3 DEF IInv, NetInv, SyncInv, TxInv, netVars, syncVars, txVars
<1>5. Keeps(conn, conn') /\ PubInv'
  <2>1. CASE PublishNow(t, c)
    <3>1. /\ Keeps(conn, conn') /\ published' \subseteq Tx
          /\ callback' = callback \/ callback' = [callback EXCEPT ![t] = c]
          /\ UNCHANGED called
      BY <1>2, <2>1, PublishNowKeeps
    <3>2. QED
      BY <1>1, <1>2, <1>3, <3>1, FreshKeepsPub DEF IInv
  <2>2. CASE Failed(c)
    <3>1. /\ called' = [called EXCEPT ![c] = @ + 1]
          /\ UNCHANGED <<conn, published, callback>>
      BY <2>2 DEF Failed
    <3>2. Keeps(conn, conn') /\ published' \subseteq Tx
      BY <3>1, KeepsRefl DEF IInv, PubInv
    <3>3. QED
      BY <1>1, <1>2, <1>3, <3>1, <3>2, FreshKeepsPub DEF IInv
  <2>3. QED
    BY <1>3, <2>1, <2>2
<1>6. UNCHANGED <<downloadPeer, isConnected>>
  BY <1>3 DEF syncVars
<1>7. QED
  BY <1>0, <1>4, <1>5, <1>6, StepFrame

-----------------------------------------------------------------------------
(* The theorems. *)

LEMMA InitIInv == Init => IInv
<1> SUFFICES ASSUME Init PROVE IInv
  OBVIOUS
<1>1. Gone \in BRPeer /\ Gone.pongs = <<>> /\ Gone.greet = FALSE /\ Gone.state = "none"
  BY DEF Gone, BRPeer, ConnState
<1>2. GoodConn(conn)
  BY <1>1 DEF Init, GoodConn
<1>3. NetInv
  BY DEF Init, NetInv, IsABag, EmptyBag, SetToBag
<1>4. SyncInv /\ DownInv /\ TxInv
  <2>1. Top \in Nat
    BY PeerManagerAssumption
  <2>2. SyncInv
    <3>1. isConnected \in BOOLEAN /\ sync \in BOOLEAN /\ bloomFilter \in BOOLEAN
      BY DEF Init
    <3>2. failures \in Nat /\ height \in 0..Top /\ estimatedHeight \in 0..Top
      BY <2>1 DEF Init
    <3>3. QED
      BY <3>1, <3>2 DEF SyncInv
  <2>3. DownInv /\ TxInv
    BY DEF Init, DownInv, TxInv
  <2>4. QED
    BY <2>2, <2>3
<1>5. CountInv
  <2>1. ConnectedPeers = {}
    BY <1>1 DEF Init, ConnectedPeers
  <2>2. Cardinality(ConnectedPeers) = 0
    BY <2>1, FS_EmptySet
  <2>3. QED
    BY <2>2, PeerManagerAssumption DEF CountInv
<1>6. BudgetInv
  BY PeerManagerAssumption DEF Init, BudgetInv
<1>7. PubInv
  <2>1. Issued = 0 /\ Budget["publish"] \in Nat
    BY PeerManagerAssumption DEF Init, Issued
  <2>2. QED
    BY <2>1 DEF Init, PubInv
<1>8. QED
  BY <1>2, <1>3, <1>4, <1>5, <1>6, <1>7 DEF IInv

LEMMA StutterIInv ==
    ASSUME IInv, UNCHANGED vars
    PROVE  IInv'
<1>1. /\ UNCHANGED <<netVars, syncVars, bloomFilter, pubVars, txVars>>
      /\ conn' = conn /\ UNCHANGED budget
  BY DEF vars
<1>2. Keeps(conn, conn')
  BY <1>1, KeepsRefl DEF IInv
<1>3. BudgetInv' /\ Issued' = Issued
  BY <1>1, BudgetFrame DEF IInv
<1>4. QED
  BY <1>1, <1>2, <1>3, RecordFrame

\* Every section under the lock, every message, failure and timeout of every thread keeps the
\* invariant.
LEMMA NextIInv == IInv /\ [Next]_vars => IInv'
<1> SUFFICES ASSUME IInv, [Next]_vars PROVE IInv'
  OBVIOUS
<1>1. CASE UNCHANGED vars
  BY <1>1, StutterIInv
<1>2. CASE Application
  BY <1>2, ConnectStep, DisconnectStep, RescanStep, PublishTxStep, PublishTxGoesOnStep
     DEF Application
<1>3. ASSUME NEW steps, GoOn(steps) PROVE IInv'
  BY <1>3, ConnectBeginsStep, ConnectPeersStep, FoundPeersStep, EndingStep DEF GoOn
<1>4. ASSUME NEW p \in Peer, ThreadStep(p) PROVE IInv'
  BY <1>4, HandshakeStep, PeerConnectedStep, DyingStep, PeerDisconnectedStep, MempoolAnsweredStep
     DEF ThreadStep
<1>5. ASSUME NEW p \in Peer, PeerTimesOut(p) \/ Pong(p) PROVE IInv'
  BY <1>5, DyingStep, PongStep
<1>6. ASSUME NEW p \in Peer, PeerStep(p) PROVE IInv'
  BY <1>6, HandshakeStep, DyingStep, BlockStep, RelayedOtherStep, RelayedTxStep, HasTxStep,
     RequestedTxStep, OtherMessageStep DEF PeerStep
<1>7. QED
  BY <1>1, <1>2, <1>3, <1>4, <1>5, <1>6 DEF Next

\* The invariant holds in every state the manager reaches.
THEOREM ManagerInvariance == Spec => []IInv
<1>1. QED
  BY InitIInv, NextIInv, PTL DEF Spec

\* No height is past the network's, no handler leaves more than PEER_MAX_CONNECTIONS peers
\* connected, and only a peer whose thread has connected waits for pongs (BRPeerManagerConnect,
\* _peerConnected and every handler that sends a ping).
THEOREM ManagerTyped == Spec => []TypeOK
<1>1. IInv => TypeOK
  <2> SUFFICES ASSUME IInv PROVE TypeOK
    OBVIOUS
  <2>1. ASSUME NEW p \in Peer
        PROVE  /\ conn[p].state \in {"none", "waiting", "starting", "handshake", "connected",
                                     "closed", "ended", "dead"}
               /\ conn[p].pongs \in Seq(Done \X Peer)
               /\ conn[p].pongs # <<>> =>
                     conn[p].state \in {"connected", "closed", "ended", "dead"}
               /\ conn[p].inv \subseteq Tx
    BY DEF IInv, GoodConn, BRPeer, ConnState, Up
  <2>2. callback \in [Tx -> 0..Budget["publish"]]
    <3>1. Issued \in Nat /\ Issued <= Budget["publish"] /\ Budget["publish"] \in Nat
      BY PeerManagerAssumption DEF IInv, BudgetInv, Issued
    <3>2. QED
      BY <3>1 DEF IInv, PubInv
  <2>3. called \in [1..Budget["publish"] -> Nat] /\ published \subseteq Tx
    BY DEF IInv, PubInv
  <2>4. {isConnected, sync, bloomFilter, reachable} \subseteq BOOLEAN
    BY DEF IInv, SyncInv, NetInv
  <2>5. {failures, height, estimatedHeight} \subseteq Nat /\ height <= Top /\ estimatedHeight <= Top
    BY PeerManagerAssumption DEF IInv, SyncInv
  <2>6. QED
    BY <2>1, <2>2, <2>3, <2>4, <2>5 DEF TypeOK, IInv, NetInv, DownInv, CountInv, TxInv
<1>2. QED
  BY <1>1, ManagerInvariance, PTL

\* downloadPeer points to a member of connectedPeers exactly while the manager is connected: no
\* order of connects, disconnects, rescans and peers that fail leaves it at a peer that was freed
\* (_peerConnected, _peerDisconnected).
THEOREM DownloadPeerSafe == Spec => []DownloadPeerIsConnected
<1>1. IInv => DownloadPeerIsConnected
  BY DEF IInv, DownInv, DownloadPeerIsConnected, ConnectedPeers, Up
<1>2. QED
  BY <1>1, ManagerInvariance, PTL

\* The callback of a publish is called at most once, whatever peers answer, reject, fail or time
\* out and however the publisher's wait for the lock interleaves with them
\* (BRPeerManagerPublishTx, _peerRelayedTx, _peerHasTx, _peerRequestedTx, _peerDisconnected).
THEOREM PublishCalledOnce == Spec => []CalledOnce
<1>1. IInv => CalledOnce
  <2> SUFFICES ASSUME IInv, NEW c \in DOMAIN called
               PROVE  called[c] + Cardinality({t \in Tx : callback[t] = c}) <= 1
    BY DEF CalledOnce
  <2>1. c \in 1..Budget["publish"] /\ called[c] \in {0, 1} /\ Tx \in SUBSET Tx
    BY DEF IInv, PubInv
  <2>2. CASE \E t \in Tx : callback[t] = c
    <3>1. called[c] = 0
      BY <2>1, <2>2, PeerManagerAssumption DEF IInv, PubInv
    <3>2. Cardinality({t \in Tx : callback[t] = c}) = 1
      BY <2>1, <2>2, WaitingForOne DEF IInv
    <3>3. QED
      BY <3>1, <3>2
  <2>3. CASE ~\E t \in Tx : callback[t] = c
    <3>1. Cardinality({t \in Tx : callback[t] = c}) = 0
      BY <2>1, <2>3, WaitingForOne DEF IInv
    <3>2. QED
      BY <2>1, <3>1
  <2>4. QED
    BY <2>2, <2>3
<1>2. QED
  BY <1>1, ManagerInvariance, PTL

=============================================================================
