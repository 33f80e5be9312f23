-------------------------- MODULE BlockChainProofs --------------------------
(***************************************************************************)
(* Theorems about module BlockChain, for every tree of blocks, every set   *)
(* of peers and checkpoints and every difficulty interval:                 *)
(*                                                                         *)
(*  - BlockChainTyped: the type invariant, with the links of the blocks    *)
(*    and the index of the orphans;                                        *)
(*  - HighestWins: until a rescan no known block is higher than the tip;   *)
(*  - OrphansHaveNoParent: until a rescan or a restart no orphan's parent  *)
(*    is known, if the wallet starts at the last checkpoint;               *)
(*  - TransitionStaysReachable: until a rescan the walk from the tip       *)
(*    reaches the last difficulty transition.                              *)
(***************************************************************************)
EXTENDS BlockChain, BasicLemmas

-----------------------------------------------------------------------------
(* The inductive invariant, by parts *)

\* the blocks of a block set are linked to the blocks they follow
GoodBlocks(B) ==
    /\ DOMAIN B \subseteq Block
    /\ \A b \in DOMAIN B : B[b] = Prev[b] \/ (b \in Checkpoint /\ B[b] = None)

\* at most one orphan for each prevBlock
GoodOrphans(O) ==
    /\ O \subseteq Block
    /\ \A o, q \in O : Prev[o] = Prev[q] => o = q

\* every transaction has one height or none
GoodHeights(c) ==
    /\ c \in [Tx -> SUBSET Nat]
    /\ \A t \in Tx : \E h \in Nat : c[t] \subseteq {h}

\* the state of the chain
ChainOK ==
    /\ GoodBlocks(blocks)
    /\ GoodOrphans(orphans)
    /\ GoodHeights(confirmed)
    /\ lastBlock \in Block
    /\ estimatedHeight \in Nat
    /\ next \in [Peer -> Block \cup {None}]
    /\ saved \subseteq Block
    /\ failed \in {None, "assert", "freed"}

\* the state of the network and the bounds
NetworkOK ==
    /\ bloomFilter \in BOOLEAN
    /\ connected \subseteq Peer
    /\ downloadPeer \in connected \cup {None}
    /\ rescans \in 0..MaxRescans
    /\ restarts \in 0..MaxRestarts
    /\ base \in Nat

ChainInv == ChainOK /\ NetworkOK

-----------------------------------------------------------------------------
(* The operators *)

\* a walk finds blocks of the set, and the block it starts from
LEMMA WalkTyped ==
    ASSUME NEW B, DOMAIN B \subseteq Block, NEW b \in Block
    PROVE  Walk(B, b) \subseteq Block
BY DEF Walk

LEMMA PutTyped ==
    ASSUME NEW B, GoodBlocks(B), NEW b \in Block
    PROVE  /\ GoodBlocks(Put(B, b))
           /\ DOMAIN Put(B, b) = DOMAIN B \cup {b}
BY DEF GoodBlocks, Put

LEMMA KeptTyped ==
    ASSUME GoodBlocks(blocks), NEW b \in Block
    PROVE  /\ GoodBlocks(Kept(b))
           /\ DOMAIN Kept(b) \subseteq DOMAIN blocks
BY DEF GoodBlocks, Kept

LEMMA AddOrphanTyped ==
    ASSUME GoodOrphans(orphans), NEW b \in Block
    PROVE  GoodOrphans(AddOrphan(b))
BY DEF GoodOrphans, AddOrphan

LEMMA SubsetOfOrphans ==
    ASSUME NEW O, GoodOrphans(O), NEW Q \in SUBSET O
    PROVE  GoodOrphans(Q)
BY DEF GoodOrphans

LEMMA ConfirmTyped ==
    ASSUME GoodHeights(confirmed), NEW S \in SUBSET Block
    PROVE  GoodHeights(Confirm(S))
<1> USE ChainAssumption
<1>1. ASSUME NEW t \in Tx
      PROVE  Confirm(S)[t] \in SUBSET Nat /\ \E h \in Nat : Confirm(S)[t] \subseteq {h}
  <2>1. CASE \E b \in S : t \in TxOf[b]
    <3>1. PICK c : c = CHOOSE b \in S : t \in TxOf[b]
      OBVIOUS
    <3>2. c \in S
      BY <2>1, <3>1
    <3>3. Height[c] \in Nat
      BY <3>2
    <3>4. Confirm(S)[t] = {Height[c]}
      BY <2>1, <3>1 DEF Confirm
    <3> QED
      BY <3>3, <3>4
  <2>2. CASE ~\E b \in S : t \in TxOf[b]
    <3>1. Confirm(S)[t] = confirmed[t]
      BY <2>2 DEF Confirm
    <3> QED
      BY <3>1 DEF GoodHeights
  <2> QED
    BY <2>1, <2>2
<1>2. Confirm(S) = [t \in Tx |-> Confirm(S)[t]]
  BY DEF Confirm
<1> HIDE DEF Confirm
<1> QED
  BY <1>1, <1>2 DEF GoodHeights

\* taking heights away keeps what is left one height
LEMMA FewerHeights ==
    ASSUME GoodHeights(confirmed), NEW t \in Tx, NEW h
    PROVE  /\ UnconfirmedAfter(t, h) \in SUBSET Nat
           /\ \E g \in Nat : UnconfirmedAfter(t, h) \subseteq {g}
BY DEF GoodHeights, UnconfirmedAfter

\* a list of blocks to save is made of blocks
LEMMA SaveListTyped ==
    ASSUME NEW B, DOMAIN B \subseteq Block, NEW b \in Block, NEW n
    PROVE  SaveList(B, b, n) \subseteq Block
BY WalkTyped DEF SaveList

LEMMA SaveTyped ==
    ASSUME saved \subseteq Block, NEW S \in SUBSET Block, Save(S)
    PROVE  saved' \subseteq Block
BY DEF Save

-----------------------------------------------------------------------------
(* The steps keep the types *)

LEMMA TakeNextTyped ==
    ASSUME ChainOK, NEW p \in Peer, NEW O, GoodOrphans(O), NEW b \in Block, TakeNext(p, O, b)
    PROVE  /\ GoodOrphans(orphans')
           /\ next' \in [Peer -> Block \cup {None}]
           /\ estimatedHeight' \in Nat
<1> USE ChainAssumption
<1>1. PICK child : child = {o \in O : Prev[o] = b}
  OBVIOUS
<1>2. orphans' = O \ child
  BY <1>1 DEF TakeNext
<1>3. GoodOrphans(orphans')
  BY <1>2, SubsetOfOrphans
<1>4. PICK o : o = IF child = {} THEN None ELSE CHOOSE c \in child : TRUE
  OBVIOUS
<1>5. next' = [next EXCEPT ![p] = o]
  BY <1>1, <1>4 DEF TakeNext
<1>6. o \in Block \cup {None}
  BY <1>1, <1>4 DEF GoodOrphans
<1>7. next' \in [Peer -> Block \cup {None}]
  BY <1>5, <1>6 DEF ChainOK
<1>8. estimatedHeight' \in Nat
  BY DEF TakeNext, ChainOK
<1> QED
  BY <1>3, <1>7, <1>8

LEMMA NoNextTyped ==
    ASSUME ChainOK, NEW p \in Peer, NoNext(p)
    PROVE  /\ next' \in [Peer -> Block \cup {None}]
           /\ estimatedHeight' \in Nat
BY DEF ChainOK, NoNext

LEMMA LoadMempoolsTyped ==
    ASSUME ChainOK, NEW b, NEW O \in LoadMempools(b)
    PROVE  GoodOrphans(O)
BY DEF ChainOK, GoodOrphans, LoadMempools

\* what the cases of a known block change beside orphans, next and estimatedHeight
LEMMA ExtendTyped ==
    ASSUME ChainOK, NEW p, NEW B, GoodBlocks(B), NEW b \in Block, Extend(p, B, b)
    PROVE  /\ GoodBlocks(blocks')
           /\ GoodHeights(confirmed')
           /\ lastBlock' \in Block
           /\ saved' \subseteq Block
           /\ failed' \in {None, "assert", "freed"}
<1>1. GoodBlocks(Put(B, b))
  BY PutTyped
<1>2. GoodBlocks(blocks') /\ lastBlock' \in Block /\ failed' \in {None, "assert", "freed"}
  BY <1>1 DEF Extend, ChainOK
<1>3. GoodHeights(Confirm({b}))
  BY ConfirmTyped DEF ChainOK
<1>4. GoodHeights(confirmed')
  BY <1>3 DEF Extend
<1>5. DOMAIN Put(B, b) \subseteq Block
  BY <1>1 DEF GoodBlocks
<1>6. PICK S : /\ S = IF Height[b] = estimatedHeight
                      THEN SaveList(Put(B, b), b, SyncedCount(b))
                      ELSE IF Transition(b) /\ Height[b] + SaveMargin < estimatedHeight
                           THEN SaveList(Put(B, b), b, 1) ELSE {}
               /\ Save(S)
  BY DEF Extend
<1>7. S \subseteq Block
  BY <1>5, <1>6, SaveListTyped
<1>8. saved' \subseteq Block
  BY <1>6, <1>7, SaveTyped DEF ChainOK
<1> QED
  BY <1>2, <1>4, <1>8

LEMMA ReorganizeTyped ==
    ASSUME ChainOK, NEW p, NEW B, GoodBlocks(B), NEW b \in Block, Reorganize(p, B, b)
    PROVE  /\ GoodBlocks(blocks')
           /\ GoodHeights(confirmed')
           /\ lastBlock' \in Block
           /\ saved' \subseteq Block
           /\ failed' \in {None, "assert", "freed"}
<1>1. PICK C : C = Put(B, b)
  OBVIOUS
<1>2. GoodBlocks(C)
  BY <1>1, PutTyped
<1>3. blocks' = C
  BY <1>1 DEF Reorganize
<1>4. PICK j : j = Join(C, b)
  OBVIOUS
<1>5. PICK above : above = NewMain(C, b, j[2])
  OBVIOUS
<1>6. CASE j[1] = None
  BY <1>1, <1>2, <1>3, <1>4, <1>6 DEF Reorganize, ChainOK
<1>7. CASE j[1] # None
  <2>1. above \in SUBSET Block
    BY <1>2, <1>5, WalkTyped DEF NewMain, GoodBlocks
  <2>2. GoodHeights(Confirm(above))
    BY <2>1, ConfirmTyped DEF ChainOK
  <2>3. confirmed' = [t \in Tx |-> IF \E o \in above : t \in TxOf[o] THEN Confirm(above)[t]
                                   ELSE UnconfirmedAfter(t, Height[j[1]])]
    BY <1>1, <1>4, <1>5, <1>7 DEF Reorganize
  <2>4. GoodHeights(confirmed')
    <3>1. ASSUME NEW t \in Tx
          PROVE  confirmed'[t] \in SUBSET Nat /\ \E h \in Nat : confirmed'[t] \subseteq {h}
      <4>1. Confirm(above)[t] \in SUBSET Nat /\ \E h \in Nat : Confirm(above)[t] \subseteq {h}
        BY <2>2 DEF GoodHeights
      <4>2. /\ UnconfirmedAfter(t, Height[j[1]]) \in SUBSET Nat
            /\ \E h \in Nat : UnconfirmedAfter(t, Height[j[1]]) \subseteq {h}
        BY FewerHeights DEF ChainOK
      <4> QED
        BY <2>3, <4>1, <4>2
    <3>2. confirmed' = [t \in Tx |-> confirmed'[t]]
      BY <2>3
    <3> QED
      BY <3>1, <3>2 DEF GoodHeights
  <2>5. lastBlock' \in Block /\ failed' \in {None, "assert", "freed"}
    BY <1>1, <1>4, <1>7 DEF Reorganize, ChainOK
  <2>6. PICK S : /\ S = IF Height[b] = estimatedHeight
                        THEN SaveList(C, b, SyncedCount(b)) ELSE {}
                 /\ Save(S)
    BY <1>1, <1>4, <1>7 DEF Reorganize
  <2>7. S \subseteq Block
    BY <1>2, <2>6, SaveListTyped DEF GoodBlocks
  <2>8. saved' \subseteq Block
    BY <2>6, <2>7, SaveTyped DEF ChainOK
  <2> QED
    BY <1>2, <1>3, <2>4, <2>5, <2>8
<1> QED
  BY <1>6, <1>7

LEMMA ExistingTyped ==
    ASSUME ChainOK, NEW p, NEW B, GoodBlocks(B), NEW b \in Block, Existing(p, B, b)
    PROVE  /\ GoodBlocks(blocks')
           /\ GoodHeights(confirmed')
           /\ lastBlock' \in Block
           /\ saved' \subseteq Block
           /\ failed' \in {None, "assert", "freed"}
<1>1. GoodBlocks(Put(B, b))
  BY PutTyped
<1>2. GoodHeights(Confirm({b}))
  BY ConfirmTyped DEF ChainOK
<1>3. blocks' \in {blocks, Put(B, b)}
  BY DEF Existing
<1>4. confirmed' \in {confirmed, Confirm({b})}
  BY DEF Existing
<1>5. GoodBlocks(blocks') /\ GoodHeights(confirmed')
  BY <1>1, <1>2, <1>3, <1>4 DEF ChainOK
<1>6. lastBlock' \in Block /\ saved' \subseteq Block /\ failed' \in {None, "assert", "freed"}
  BY DEF Existing, ChainOK
<1> QED
  BY <1>5, <1>6

LEMMA AcceptTyped ==
    ASSUME ChainOK, NEW p \in Peer, NEW b \in Block, Accept(p, b)
    PROVE  ChainOK'
<1>1. PICK B : B = Kept(b)
  OBVIOUS
<1>2. GoodBlocks(B)
  BY <1>1, KeptTyped DEF ChainOK
<1>3. CASE /\ Extend(p, B, b) \/ Reorganize(p, B, b)
           /\ \E O \in LoadMempools(b) : TakeNext(p, O, b)
  <2>1. PICK O \in LoadMempools(b) : TakeNext(p, O, b)
    BY <1>3
  <2>2. GoodOrphans(O)
    BY LoadMempoolsTyped
  <2>3. /\ GoodOrphans(orphans')
        /\ next' \in [Peer -> Block \cup {None}]
        /\ estimatedHeight' \in Nat
    BY <2>1, <2>2, TakeNextTyped
  <2> QED
    BY <1>2, <1>3, <2>3, ExtendTyped, ReorganizeTyped DEF ChainOK
<1>4. CASE /\ Existing(p, B, b) \/ Fork(p, B, b)
           /\ TakeNext(p, orphans, b)
  <2>1. /\ GoodOrphans(orphans')
        /\ next' \in [Peer -> Block \cup {None}]
        /\ estimatedHeight' \in Nat
    BY <1>4, TakeNextTyped DEF ChainOK
  <2>2. CASE Existing(p, B, b)
    BY <1>2, <2>1, <2>2, ExistingTyped DEF ChainOK
  <2>3. CASE Fork(p, B, b)
    <3>1. GoodBlocks(Put(B, b))
      BY <1>2, PutTyped
    <3> QED
      BY <2>1, <2>3, <3>1 DEF Fork, ChainOK
  <2> QED
    BY <1>4, <2>2, <2>3
<1>5. CASE /\ MinedDuringRescan(p, B, b)
           /\ TakeNext(p, AddOrphan(b), b)
           /\ blocks' = B
           /\ UNCHANGED <<lastBlock, confirmed, saved, failed>>
  <2>1. GoodOrphans(AddOrphan(b))
    BY AddOrphanTyped DEF ChainOK
  <2>2. /\ GoodOrphans(orphans')
        /\ next' \in [Peer -> Block \cup {None}]
        /\ estimatedHeight' \in Nat
    BY <1>5, <2>1, TakeNextTyped
  <2> QED
    BY <1>2, <1>5, <2>2 DEF ChainOK
<1>6. CASE /\ OldFork(p, B, b)
           /\ NoNext(p)
           /\ blocks' = B
           /\ UNCHANGED <<orphans, lastBlock, confirmed, saved, failed>>
  BY <1>2, <1>6, NoNextTyped DEF ChainOK
<1> QED
  BY <1>1, <1>3, <1>4, <1>5, <1>6 DEF Accept

LEMMA RelayedTyped ==
    ASSUME ChainInv, NEW p \in Peer, NEW b \in Block, RelayedBlock(p, b)
    PROVE  ChainInv'
<1>1. NetworkOK'
  BY DEF ChainInv, NetworkOK, RelayedBlock, netVars, runVars
<1> SUFFICES ChainOK'
  BY <1>1 DEF ChainInv
<1>0. ChainOK
  BY DEF ChainInv
<1>2. CASE IgnoreUnfiltered(p, b)
  BY <1>2, <1>0, NoNextTyped DEF ChainOK, IgnoreUnfiltered
<1>3. CASE Orphan(p, b)
  <2>1. GoodOrphans(AddOrphan(b))
    BY AddOrphanTyped DEF ChainInv, ChainOK
  <2>2. GoodOrphans(orphans')
    BY <1>3, <2>1 DEF Orphan, ChainInv, ChainOK
  <2> QED
    BY <1>3, <2>2, <1>0, NoNextTyped DEF ChainOK, Orphan
<1>4. CASE Refuse(p, b)
  <2>1. GoodBlocks(Kept(b))
    BY KeptTyped DEF ChainInv, ChainOK
  <2> QED
    BY <1>4, <2>1, <1>0, NoNextTyped DEF ChainOK, Refuse
<1>5. CASE FreeLastBlock(p, b)
  <2>1. GoodBlocks(Kept(b))
    BY KeptTyped DEF ChainInv, ChainOK
  <2> QED
    BY <1>5, <2>1, <1>0, NoNextTyped DEF ChainOK, FreeLastBlock
<1>6. CASE Accept(p, b)
  BY <1>0, <1>6, AcceptTyped
<1> QED
  BY <1>2, <1>3, <1>4, <1>5, <1>6 DEF RelayedBlock

LEMMA PeerConnectedTyped ==
    ASSUME ChainInv, NEW p \in Peer, PeerConnected(p)
    PROVE  ChainInv'
<1> USE ChainAssumption
<1>1. orphans' \in {orphans, {}} /\ bloomFilter' \in BOOLEAN
  BY DEF PeerConnected, LoadBloomFilter, ChainInv, NetworkOK
<1>2. GoodOrphans({})
  BY DEF GoodOrphans
<1>3. GoodOrphans(orphans')
  BY <1>1, <1>2 DEF ChainInv, ChainOK
<1>4. connected' = connected \cup {p} /\ connected' \subseteq Peer
  BY DEF PeerConnected, ChainInv, NetworkOK
<1>5. downloadPeer' \in connected' \cup {None} /\ estimatedHeight' \in Nat
  <2>1. CASE UNCHANGED <<downloadPeer, estimatedHeight>>
    BY <1>4, <2>1 DEF ChainInv, ChainOK, NetworkOK
  <2>2. CASE \E q \in connected' : downloadPeer' = q /\ estimatedHeight' = PeerLastBlock[q]
    BY <1>4, <2>2
  <2> QED
    BY <2>1, <2>2 DEF PeerConnected
<1>6. UNCHANGED <<blocks, lastBlock, next, confirmed, saved, failed, rescans, restarts, base>>
  BY DEF PeerConnected, runVars
<1> QED
  BY <1>1, <1>3, <1>4, <1>5, <1>6 DEF ChainInv, ChainOK, NetworkOK

LEMMA RestartTyped ==
    ASSUME ChainInv, Restart
    PROVE  ChainInv'
<1> USE ChainAssumption
<1>1. PICK O \in OnePerPrev(saved) :
          IF LastTransition = {}
          THEN blocks' = Checkpoints /\ lastBlock' = Start /\ orphans' = O
          ELSE \E first \in LastTransition :
                  /\ blocks' = [x \in Checkpoint \cup Restored(O, first) |->
                                  IF x \in Restored(O, first) THEN Prev[x] ELSE None]
                  /\ lastBlock' \in {b \in Restored(O, first) :
                                       \A o \in Restored(O, first) : Height[o] <= Height[b]}
                  /\ orphans' = {o \in O : \A b \in Restored(O, first) : Prev[o] # Prev[b]}
  BY DEF Restart
<1>2. GoodOrphans(O)
  BY DEF OnePerPrev, GoodOrphans, ChainInv, ChainOK
<1>3. GoodBlocks(blocks') /\ lastBlock' \in Block /\ orphans' \subseteq O
  <2>1. CASE LastTransition = {}
    BY <1>1, <2>1 DEF GoodBlocks, Checkpoints
  <2>2. CASE LastTransition # {}
    <3>1. PICK first \in LastTransition :
              /\ blocks' = [x \in Checkpoint \cup Restored(O, first) |->
                              IF x \in Restored(O, first) THEN Prev[x] ELSE None]
              /\ lastBlock' \in {b \in Restored(O, first) :
                                   \A o \in Restored(O, first) : Height[o] <= Height[b]}
              /\ orphans' = {o \in O : \A b \in Restored(O, first) : Prev[o] # Prev[b]}
      BY <1>1, <2>2
    <3>2. first \in Block
      BY DEF LastTransition, ChainInv, ChainOK
    <3>3. Restored(O, first) \subseteq Block
      BY <1>2, <3>2 DEF Restored, GoodOrphans
    <3>4. PICK R : R = Restored(O, first)
      OBVIOUS
    <3>5. R \subseteq Block
      BY <3>3, <3>4
    <3>6. blocks' = [x \in Checkpoint \cup R |-> IF x \in R THEN Prev[x] ELSE None]
      BY <3>1, <3>4
    <3>7. GoodBlocks(blocks')
      BY <3>5, <3>6 DEF GoodBlocks
    <3> QED
      BY <3>1, <3>3, <3>7
  <2> QED
    BY <2>1, <2>2
<1>4. GoodOrphans(orphans')
  BY <1>2, <1>3, SubsetOfOrphans
<1>5. base' \in Nat
  BY <1>3 DEF Restart
<1>6. next' \in [Peer -> Block \cup {None}] /\ estimatedHeight' \in Nat
  BY DEF Restart
<1>7. restarts' \in 0..MaxRestarts
  BY DEF Restart, ChainInv, NetworkOK
<1>8. GoodHeights(confirmed') /\ saved' \subseteq Block /\ rescans' \in 0..MaxRescans
  BY DEF Restart, ChainInv, ChainOK, NetworkOK
<1>9. /\ bloomFilter' \in BOOLEAN /\ connected' \subseteq Peer
      /\ downloadPeer' \in connected' \cup {None} /\ failed' \in {None, "assert", "freed"}
  BY DEF Restart
<1> QED
  BY <1>3, <1>4, <1>5, <1>6, <1>7, <1>8, <1>9 DEF ChainInv, ChainOK, NetworkOK

\* a block a peer relays, or the orphan its thread goes on with, is a block
LEMMA StepRelays ==
    ASSUME ChainInv, Next
    PROVE  \/ \E p \in Peer, b \in Block : RelayedBlock(p, b)
           \/ \E p \in Peer : PeerConnected(p) \/ PeerDisconnected(p)
           \/ FilterExhausted \/ UpdateFilterPingDone
           \/ \E b \in Block : Rescan(b)
           \/ Restart
<1>1. ASSUME NEW p \in Peer, RelayNext(p)
      PROVE  \E b \in Block : RelayedBlock(p, b)
  BY <1>1 DEF RelayNext, ChainInv, ChainOK
<1> QED
  BY <1>1 DEF Next, PeerRelaysBlock

\* every step keeps the invariant
LEMMA ChainStep ==
    ASSUME ChainInv, [Next]_vars
    PROVE  ChainInv'
<1> USE ChainAssumption
<1>1. ASSUME NEW p \in Peer, NEW b \in Block, RelayedBlock(p, b)
      PROVE  ChainInv'
  BY <1>1, RelayedTyped
<1>2. ASSUME NEW p \in Peer, PeerConnected(p)
      PROVE  ChainInv'
  BY <1>2, PeerConnectedTyped
<1>3. ASSUME NEW p \in Peer, PeerDisconnected(p)
      PROVE  ChainInv'
  <2>1. ChainOK'
    BY <1>3 DEF PeerDisconnected, ChainInv, ChainOK
  <2>2. NetworkOK'
    BY <1>3 DEF PeerDisconnected, ChainInv, NetworkOK, runVars
  <2> QED
    BY <2>1, <2>2 DEF ChainInv
<1>4. CASE FilterExhausted
  <2>1. ChainOK'
    BY <1>4 DEF FilterExhausted, ChainInv, ChainOK
  <2>2. NetworkOK'
    BY <1>4 DEF FilterExhausted, ChainInv, NetworkOK, runVars
  <2> QED
    BY <2>1, <2>2 DEF ChainInv
<1>5. CASE UpdateFilterPingDone
  <2>1. GoodOrphans({})
    BY DEF GoodOrphans
  <2>2. orphans' \in {orphans, {}}
    BY <1>5 DEF UpdateFilterPingDone
  <2>3. ChainOK'
    BY <1>5, <2>1, <2>2 DEF UpdateFilterPingDone, ChainInv, ChainOK
  <2>4. bloomFilter' \in BOOLEAN
    BY <1>5, Zenon DEF UpdateFilterPingDone
  <2>5. NetworkOK'
    BY <1>5, <2>4 DEF UpdateFilterPingDone, ChainInv, NetworkOK, runVars
  <2> QED
    BY <2>3, <2>5 DEF ChainInv
<1>6. ASSUME NEW b \in Block, Rescan(b)
      PROVE  ChainInv'
  <2>1. ChainOK'
    BY <1>6 DEF Rescan, ChainInv, ChainOK
  <2>2. NetworkOK'
    BY <1>6 DEF Rescan, ChainInv, NetworkOK, netVars
  <2> QED
    BY <2>1, <2>2 DEF ChainInv
<1>7. CASE Restart
  BY <1>7, RestartTyped
<1>8. CASE UNCHANGED vars
  BY <1>8 DEF vars, netVars, runVars, ChainInv, ChainOK, NetworkOK
<1> QED
  BY <1>1, <1>2, <1>3, <1>4, <1>5, <1>6, <1>7, <1>8, StepRelays

LEMMA ChainInit ==
    ASSUME Init
    PROVE  ChainInv
<1> USE ChainAssumption
<1>1. GoodBlocks(blocks) /\ GoodOrphans(orphans)
  BY DEF Init, GoodBlocks, Checkpoints, GoodOrphans
<1>2. GoodHeights(confirmed)
  BY DEF Init, GoodHeights
<1>3. ChainOK
  BY <1>1, <1>2 DEF Init, ChainOK
<1>4. bloomFilter \in BOOLEAN
  BY DEF Init
<1>5. NetworkOK
  BY <1>4 DEF Init, NetworkOK
<1> QED
  BY <1>3, <1>5 DEF ChainInv

\* The invariant holds of every state of _peerRelayedBlock, of the rescans and of the
\* starts, for every tree of blocks.
THEOREM ChainInvariance == Spec => []ChainInv
<1>1. Init => ChainInv
  BY ChainInit
<1>2. ChainInv /\ [Next]_vars => ChainInv'
  BY ChainStep
<1> QED
  BY <1>1, <1>2, PTL DEF Spec

\* one height at most is what TypeOK counts
LEMMA OneHeight ==
    ASSUME NEW S, NEW h, S \subseteq {h}
    PROVE  Cardinality(S) <= 1
<1>1. CASE S = {}
  BY <1>1, FS_EmptySet
<1>2. CASE S = {h}
  <2>1. Cardinality({h}) = 1
    BY FS_Singleton, Zenon
  <2> QED
    BY <1>2, <2>1
<1> QED
  BY <1>1, <1>2

\* The state keeps its types: blocks are linked to the blocks they follow, an orphan is alone
\* for its prevBlock, a transaction has one height at most (_peerRelayedBlock,
\* BRPeerManagerNew).
THEOREM BlockChainTyped == Spec => []TypeOK
<1>1. ChainInv => TypeOK
  <2> SUFFICES ASSUME ChainInv PROVE TypeOK
    OBVIOUS
  <2>1. \A t \in Tx : Cardinality(confirmed[t]) <= 1
    BY OneHeight DEF ChainInv, ChainOK, GoodHeights
  <2> QED
    BY <2>1 DEF ChainInv, ChainOK, NetworkOK, GoodBlocks, GoodOrphans, GoodHeights, TypeOK
<1> QED
  BY <1>1, ChainInvariance, PTL

-----------------------------------------------------------------------------
(* The highest chain, until a rescan *)

\* the steps that leave the chain alone, and the start of the program
LEMMA ChainUntouched ==
    ASSUME Next, ~\E p \in Peer, b \in Block : RelayedBlock(p, b), (rescans = 0)', ChainInv
    PROVE  /\ rescans = 0
           /\ \/ Restart
              \/ /\ UNCHANGED <<blocks, lastBlock, failed, restarts>>
                 /\ orphans' \in {orphans, {}}
<1>1. rescans \in Nat
  BY ChainAssumption DEF ChainInv, NetworkOK
<1>2. ASSUME NEW p \in Peer, PeerConnected(p)
      PROVE  /\ UNCHANGED <<blocks, lastBlock, failed, rescans, restarts>>
             /\ orphans' \in {orphans, {}}
  BY <1>2 DEF PeerConnected, LoadBloomFilter, runVars
<1>3. ASSUME NEW p \in Peer, PeerDisconnected(p)
      PROVE  /\ UNCHANGED <<blocks, lastBlock, failed, rescans, restarts>>
             /\ orphans' \in {orphans, {}}
  BY <1>3 DEF PeerDisconnected, runVars
<1>4. CASE FilterExhausted
  BY <1>4 DEF FilterExhausted, runVars
<1>5. CASE UpdateFilterPingDone
  BY <1>5 DEF UpdateFilterPingDone, runVars
<1>6. ASSUME NEW b \in Block, Rescan(b)
      PROVE  FALSE
  BY <1>1, <1>6 DEF Rescan
<1>7. CASE Restart
  BY <1>7 DEF Restart
<1> QED
  BY <1>2, <1>3, <1>4, <1>5, <1>6, <1>7, StepRelays

\* no known block is higher than the tip
Highest == \A b \in DOMAIN blocks \ Checkpoint : Height[b] <= Height[lastBlock]

\* what a relayed block does to the known blocks and to the tip
LEMMA RelayedHighest ==
    ASSUME ChainInv, Highest, NEW p \in Peer, NEW b \in Block, RelayedBlock(p, b)
    PROVE  /\ failed' = None => Highest'
           /\ failed' = None => Height[lastBlock] <= Height[lastBlock']
<1> USE ChainAssumption
<1>1. lastBlock \in Block /\ GoodBlocks(blocks)
  BY DEF ChainInv, ChainOK
<1>2. PICK B : B = Kept(b)
  OBVIOUS
<1>3. GoodBlocks(B) /\ DOMAIN B \subseteq DOMAIN blocks
  BY <1>1, <1>2, KeptTyped
<1>4. \A x \in Block : Height[x] \in Nat
  OBVIOUS
<1>5. DOMAIN Put(B, b) = DOMAIN B \cup {b}
  BY <1>3, PutTyped
<1>6. CASE lastBlock' = lastBlock /\ blocks' \in {blocks, B}
  BY <1>1, <1>3, <1>4, <1>6 DEF Highest, GoodBlocks
<1>7. CASE lastBlock' = b /\ blocks' = Put(B, b) /\ Height[b] > Height[lastBlock]
  BY <1>1, <1>3, <1>4, <1>5, <1>7 DEF Highest, GoodBlocks
<1>8. CASE lastBlock' = lastBlock /\ blocks' = Put(B, b) /\ b \in DOMAIN B
  BY <1>1, <1>3, <1>4, <1>5, <1>8 DEF Highest, GoodBlocks
<1>9. CASE lastBlock' = lastBlock /\ blocks' = Put(B, b) /\ Height[b] <= Height[lastBlock]
  BY <1>1, <1>3, <1>4, <1>5, <1>9 DEF Highest, GoodBlocks
<1>10. CASE Accept(p, b)
  <2>1. CASE Extend(p, B, b)
    <3>1. Height[b] = Height[lastBlock] + 1
      BY <1>1, <2>1 DEF Extend
    <3> QED
      BY <1>1, <1>4, <1>7, <2>1, <3>1 DEF Extend
  <2>2. CASE Reorganize(p, B, b)
    <3>1. blocks' = Put(B, b) /\ Height[b] > Height[lastBlock]
      BY <2>2 DEF Reorganize, Longer
    <3>2. failed' = "assert" \/ lastBlock' = b
      BY <2>2, Zenon DEF Reorganize
    <3> QED
      BY <1>7, <3>1, <3>2
  <2>3. CASE Existing(p, B, b)
    BY <1>6, <1>8, <2>3 DEF Existing
  <2>4. CASE Fork(p, B, b)
    BY <1>1, <1>4, <1>9, <2>4 DEF Fork, Longer
  <2>5. CASE blocks' = B /\ UNCHANGED lastBlock
    BY <1>6, <2>5
  <2> QED
    BY <1>2, <1>10, <2>1, <2>2, <2>3, <2>4, <2>5 DEF Accept
<1> QED
  BY <1>2, <1>6, <1>10 DEF RelayedBlock, IgnoreUnfiltered, Orphan, Refuse, FreeLastBlock

\* the program starts from the highest of the saved blocks that it chains
LEMMA RestartHighest ==
    ASSUME Restart
    PROVE  Highest'
<1>1. CASE LastTransition = {}
  BY <1>1 DEF Restart, Highest, Checkpoints
<1>2. CASE LastTransition # {}
  <2>1. PICK O \in OnePerPrev(saved), first \in LastTransition :
           LET chain == Restored(O, first)
           IN  /\ blocks' = [x \in Checkpoint \cup chain |->
                              IF x \in chain THEN Prev[x] ELSE None]
               /\ lastBlock' \in {b \in chain : \A o \in chain : Height[o] <= Height[b]}
    BY <1>2 DEF Restart
  <2>2. PICK chain : chain = Restored(O, first)
    OBVIOUS
  <2>3. DOMAIN blocks' = Checkpoint \cup chain /\ \A o \in chain : Height[o] <= Height[lastBlock']
    BY <2>1, <2>2
  <2> QED
    BY <2>3 DEF Highest
<1> QED
  BY <1>1, <1>2

HighestInv == rescans = 0 /\ Alive => Highest

\* every step keeps it
LEMMA HighestStep ==
    ASSUME ChainInv, HighestInv, [Next]_vars
    PROVE  HighestInv'
<1>1. CASE \E p \in Peer, b \in Block : RelayedBlock(p, b)
  <2>1. PICK p \in Peer, b \in Block : RelayedBlock(p, b)
    BY <1>1
  <2>2. Alive /\ UNCHANGED rescans
    BY <2>1 DEF RelayedBlock, runVars
  <2> QED
    BY <2>1, <2>2, RelayedHighest DEF HighestInv, Alive
<1>2. CASE Next /\ ~\E p \in Peer, b \in Block : RelayedBlock(p, b)
  <2> SUFFICES ASSUME (rescans = 0)', Alive' PROVE Highest'
    BY DEF HighestInv
  <2>1. CASE Restart
    BY <2>1, RestartHighest
  <2>2. CASE UNCHANGED <<blocks, lastBlock, failed>> /\ rescans = 0
    BY <2>2 DEF HighestInv, Highest, Alive
  <2> QED
    BY <1>2, <2>1, <2>2, ChainUntouched
<1>3. CASE UNCHANGED vars
  BY <1>3 DEF vars, runVars, HighestInv, Highest, Alive
<1> QED
  BY <1>1, <1>2, <1>3

\* Until the application rescans, no known block but a checkpoint is higher than the tip:
\* whichever peers relay whichever blocks in whatever order, a fork that overtakes the main chain
\* is adopted at once (_peerRelayedBlock), and BRPeerManagerNew starts from the highest of the
\* saved blocks it chains.
THEOREM HighestWins == Spec => [](rescans = 0 => HighestChain)
<1>1. Init => HighestInv
  BY DEF Init, HighestInv, Highest, Checkpoints
<1>2. ChainInv /\ HighestInv /\ [Next]_vars => HighestInv'
  BY HighestStep
<1>3. HighestInv => (rescans = 0 => HighestChain)
  BY DEF HighestInv, Highest, HighestChain
<1> QED
  BY <1>1, <1>2, <1>3, ChainInvariance, PTL DEF Spec

-----------------------------------------------------------------------------
(* The orphans, until a rescan or a restart *)

Undisturbed == rescans = 0 /\ restarts = 0

\* no orphan's parent is known
Waiting == \A o \in orphans : Prev[o] \notin DOMAIN blocks

\* a block above the tip's next one is nobody's child while the chain is the highest
LEMMA NothingMinedAbove ==
    ASSUME ChainInv, Highest, \A c \in Checkpoint : Height[c] <= Height[lastBlock],
           NEW b \in Block, Prev[b] \in DOMAIN blocks
    PROVE  Height[b] <= Height[lastBlock] + 1
<1> USE ChainAssumption
<1>1. lastBlock \in Block /\ DOMAIN blocks \subseteq Block
  BY DEF ChainInv, ChainOK, GoodBlocks
<1>2. Height[Prev[b]] <= Height[lastBlock]
  BY <1>1 DEF Highest
<1>3. Height[b] = Height[Prev[b]] + 1
  BY <1>1
<1> QED
  BY <1>1, <1>2, <1>3

\* the orphans that stay when b is put into the block set
LEMMA TakeNextWaiting ==
    ASSUME NEW p, NEW b, NEW O, TakeNext(p, O, b), \A o \in O : Prev[o] \notin DOMAIN blocks,
           DOMAIN blocks' \subseteq DOMAIN blocks \cup {b}
    PROVE  Waiting'
BY DEF TakeNext, Waiting

LEMMA RelayedWaiting ==
    ASSUME ChainInv, Highest, Waiting, \A c \in Checkpoint : Height[c] <= Height[lastBlock],
           NEW p \in Peer, NEW b \in Block, RelayedBlock(p, b)
    PROVE  Waiting'
<1>1. PICK B : B = Kept(b)
  OBVIOUS
<1>2. GoodBlocks(B) /\ DOMAIN B \subseteq DOMAIN blocks
  BY <1>1, KeptTyped DEF ChainInv, ChainOK
<1>3. DOMAIN Put(B, b) = DOMAIN B \cup {b}
  BY <1>2, PutTyped
<1>4. CASE IgnoreUnfiltered(p, b)
  BY <1>4 DEF IgnoreUnfiltered, Waiting
<1>5. CASE Orphan(p, b)
  BY <1>5 DEF Orphan, AddOrphan, Waiting
<1>6. CASE blocks' = B /\ orphans' = orphans
  BY <1>2, <1>6 DEF Waiting
<1>7. CASE Accept(p, b)
  <2>1. CASE /\ Extend(p, B, b) \/ Reorganize(p, B, b)
             /\ \E O \in LoadMempools(b) : TakeNext(p, O, b)
    <3>1. PICK O \in LoadMempools(b) : TakeNext(p, O, b)
      BY <2>1
    <3>2. O \subseteq orphans
      BY DEF LoadMempools
    <3>3. blocks' = Put(B, b)
      BY <2>1 DEF Extend, Reorganize
    <3> QED
      BY <1>2, <1>3, <3>1, <3>2, <3>3, TakeNextWaiting DEF Waiting
  <2>2. CASE /\ Existing(p, B, b) \/ Fork(p, B, b)
             /\ TakeNext(p, orphans, b)
    <3>1. blocks' \in {blocks, Put(B, b)}
      BY <2>2 DEF Existing, Fork
    <3> QED
      BY <1>2, <1>3, <2>2, <3>1, TakeNextWaiting DEF Waiting
  <2>3. CASE MinedDuringRescan(p, B, b)
    <3>1. Prev[b] \in DOMAIN blocks
      BY <1>7 DEF Accept
    <3>2. Height[b] <= Height[lastBlock] + 1
      BY <3>1, NothingMinedAbove
    <3>3. Height[b] \in Nat /\ Height[lastBlock] \in Nat
      BY ChainAssumption DEF ChainInv, ChainOK
    <3> QED
      BY <2>3, <3>2, <3>3 DEF MinedDuringRescan
  <2>4. CASE blocks' = B /\ UNCHANGED orphans
    BY <1>6, <2>4
  <2> QED
    BY <1>1, <1>7, <2>1, <2>2, <2>3, <2>4 DEF Accept
<1> QED
  BY <1>1, <1>4, <1>5, <1>6, <1>7 DEF RelayedBlock, Refuse, FreeLastBlock

\* the wallet starts at the last checkpoint, so all checkpoints stay below the tip
StartsLast == \A c \in Checkpoint : Height[c] <= Height[Start]

OrphansInv ==
    Undisturbed /\ Alive => Height[Start] <= Height[lastBlock] /\ Waiting

LEMMA OrphansStep ==
    ASSUME StartsLast, ChainInv, HighestInv, OrphansInv, [Next]_vars
    PROVE  OrphansInv'
<1> USE ChainAssumption
<1>1. CASE \E p \in Peer, b \in Block : RelayedBlock(p, b)
  <2> SUFFICES ASSUME Undisturbed', Alive'
               PROVE  Height[Start] <= Height[lastBlock'] /\ Waiting'
    BY DEF OrphansInv
  <2>1. PICK p \in Peer, b \in Block : RelayedBlock(p, b)
    BY <1>1
  <2>2. Alive /\ Undisturbed
    BY <2>1 DEF RelayedBlock, runVars, Undisturbed
  <2>3. Highest /\ Height[Start] <= Height[lastBlock] /\ Waiting
    BY <2>2 DEF HighestInv, OrphansInv, Undisturbed
  <2>4. lastBlock \in Block /\ Start \in Block
    BY DEF ChainInv, ChainOK
  <2>5. \A c \in Checkpoint : Height[c] <= Height[lastBlock]
    BY <2>3, <2>4 DEF StartsLast
  <2>6. Waiting'
    BY <2>1, <2>3, <2>5, RelayedWaiting
  <2>7. Height[lastBlock] <= Height[lastBlock']
    BY <2>1, <2>3, RelayedHighest DEF Alive
  <2>8. lastBlock' \in Block
    BY ChainStep DEF ChainInv, ChainOK
  <2> QED
    BY <2>3, <2>4, <2>6, <2>7, <2>8
<1>2. CASE Next /\ ~\E p \in Peer, b \in Block : RelayedBlock(p, b)
  <2> SUFFICES ASSUME Undisturbed', Alive'
               PROVE  Height[Start] <= Height[lastBlock'] /\ Waiting'
    BY DEF OrphansInv
  <2>1. ~Restart
    BY ChainAssumption DEF ChainInv, NetworkOK, Restart, Undisturbed
  <2>2. UNCHANGED <<blocks, lastBlock, failed>> /\ orphans' \in {orphans, {}} /\ Undisturbed
    BY <1>2, <2>1, ChainUntouched DEF Undisturbed
  <2> QED
    BY <2>2 DEF OrphansInv, Waiting, Alive
<1>3. CASE UNCHANGED vars
  BY <1>3 DEF vars, runVars, OrphansInv, Waiting, Alive, Undisturbed
<1> QED
  BY <1>1, <1>2, <1>3

\* Until the application rescans and until the program is started again, a block waits among the
\* orphans only while its parent is unknown, if the wallet is so new that it starts at the last
\* checkpoint: when the parent comes, by whichever thread and by whichever case of
\* _peerRelayedBlock, the orphan is taken out.  An older wallet knows checkpoints above its tip,
\* and the child of one of them is kept among the orphans ("new block mined during rescan").
THEOREM OrphansHaveNoParent ==
    ASSUME \A c \in Checkpoint : Height[c] <= Height[Start]
    PROVE  Spec => [](rescans = 0 /\ restarts = 0 => OrphansWait)
<1>1. Init => HighestInv
  BY DEF Init, HighestInv, Highest, Checkpoints
<1>2. ChainInv /\ HighestInv /\ [Next]_vars => HighestInv'
  BY HighestStep
<1>3. Init => OrphansInv
  BY ChainAssumption DEF Init, OrphansInv, Waiting
<1>4. ChainInv /\ HighestInv /\ OrphansInv /\ [Next]_vars => OrphansInv'
  BY OrphansStep DEF StartsLast
<1>5. OrphansInv => (rescans = 0 /\ restarts = 0 => OrphansWait)
  BY DEF OrphansInv, Undisturbed, Waiting, OrphansWait
<1> QED
  BY <1>1, <1>2, <1>3, <1>4, <1>5, ChainInvariance, PTL DEF Spec

-----------------------------------------------------------------------------
(* Multiples of the difficulty interval *)

\* division with remainder
LEMMA Remainder ==
    ASSUME NEW i \in Nat \ {0}, NEW n \in Nat
    PROVE  /\ n % i \in 0..(i - 1) /\ n % i <= n
           /\ n \div i \in Nat /\ n = i * (n \div i) + (n % i)
           /\ \A k \in 0..(n % i) : (n - k) % i = (n % i) - k
<1>1. n % i \in 0..(i - 1) /\ n % i <= n
  OBVIOUS
<1>2. n \div i \in Nat /\ n = i * (n \div i) + (n % i)
  OBVIOUS
<1>3. ASSUME NEW k \in 0..(n % i) PROVE (n - k) % i = (n % i) - k
  OBVIOUS
<1> QED
  BY <1>1, <1>2, <1>3

LEMMA MultiplesApart ==
    ASSUME NEW i \in Nat \ {0}, NEW q \in Nat, NEW r \in Nat, q < r
    PROVE  i * q + i <= i * r
<1>1. i * q + i = i * (q + 1)
  OBVIOUS
<1>2. PICK d \in Nat : r = q + 1 + d
  <2>1. r - (q + 1) \in Nat
    OBVIOUS
  <2> QED
    BY <2>1
<1>3. i * r = i * (q + 1) + i * d /\ i * d \in Nat
  BY <1>2
<1> QED
  BY <1>1, <1>3

LEMMA IsMultiple ==
    ASSUME NEW i \in Nat \ {0}, NEW n \in Nat, n % i = 0
    PROVE  \E q \in Nat : n = i * q
<1>1. n \div i \in Nat /\ n = i * (n \div i) + (n % i)
  BY Remainder
<1>2. PICK q \in Nat : q = n \div i
  BY <1>1
<1> QED
  BY <1>1, <1>2

\* two multiples are one interval apart
LEMMA NextMultiple ==
    ASSUME NEW i \in Nat \ {0}, NEW a \in Nat, NEW b \in Nat, a % i = 0, b % i = 0, a < b
    PROVE  a + i <= b
<1>1. PICK q \in Nat : a = i * q
  BY IsMultiple
<1>2. PICK r \in Nat : b = i * r
  BY IsMultiple
<1>3. q < r
  <2>1. CASE q >= r
    <3>1. q = r \/ r < q
      BY <2>1
    <3>2. CASE r < q
      <4>1. i * r + i <= i * q
        BY <3>2, MultiplesApart
      <4> QED
        BY <1>1, <1>2, <4>1
    <3> QED
      BY <1>1, <1>2, <3>1, <3>2
  <2> QED
    BY <2>1
<1> QED
  BY <1>1, <1>2, <1>3, MultiplesApart

\* a multiple less one interval is one
LEMMA MultipleBefore ==
    ASSUME NEW i \in Nat \ {0}, NEW a \in Nat, a % i = 0, a >= i
    PROVE  (a - i) % i = 0
<1>1. PICK q \in Nat : a = i * q
  BY IsMultiple
<1>2. PICK p : p = q - 1
  OBVIOUS
<1>3. p \in Int /\ a - i = i * p + 0
  BY <1>1, <1>2
<1> QED
  BY <1>3

-----------------------------------------------------------------------------
(* Walks *)

\* w is the walk back from b through B, n blocks far
Walks(w, B, b, n) ==
    /\ w[0] = b
    /\ \A k \in 1..n : w[k] = PrevIn(B, w[k - 1])

\* Back is the last block of such a walk
LEMMA BackWalks ==
    ASSUME NEW B, NEW b, NEW n \in Nat
    PROVE  \E w : Walks(w, B, b, n) /\ Back(B, b, n) = w[n]
<1>1. PICK S : S = DOMAIN B \cup {b, None}
  OBVIOUS
<1>2. \A c : PrevIn(B, c) \in S
  BY <1>1 DEF PrevIn
<1>3. PICK step : step = [i \in 1..n |-> [c \in S |-> PrevIn(B, c)]]
  OBVIOUS
<1>4. PICK f : Iterates(f, step, b, n)
  <2>1. n \in 0..n
    OBVIOUS
  <2> QED
    BY <2>1, IterationExists
<1>5. \A i \in 0..n : f[i] \in S
  <2>1. f[0] \in S
    BY <1>1, <1>4 DEF Iterates
  <2>2. ASSUME NEW i \in 1..n, f[i - 1] \in S PROVE f[i] \in S
    <3>1. f[i] = step[i][f[i - 1]]
      BY <1>4 DEF Iterates
    <3> QED
      BY <1>2, <1>3, <2>2, <3>1
  <2> QED
    BY <2>1, <2>2, IterationStays
<1>6. f = [k \in 0..n |-> IF k = 0 THEN b ELSE PrevIn(B, f[k - 1])]
  <2>1. \A k \in 0..n : f[k] = IF k = 0 THEN b ELSE PrevIn(B, f[k - 1])
    <3> TAKE k \in 0..n
    <3>1. CASE k = 0
      BY <1>4, <3>1 DEF Iterates
    <3>2. CASE k # 0
      <4>1. f[k] = step[k][f[k - 1]]
        BY <1>4, <3>2 DEF Iterates
      <4>2. f[k - 1] \in S /\ k \in 1..n
        BY <1>5, <3>2
      <4> QED
        BY <1>3, <3>2, <4>1, <4>2
    <3> QED
      BY <3>1, <3>2
  <2>2. f = [k \in 0..n |-> f[k]]
    BY <1>4 DEF Iterates
  <2> QED
    BY <2>1, <2>2
<1>7. PICK w : w = CHOOSE g : g = [k \in 0..n |-> IF k = 0 THEN b ELSE PrevIn(B, g[k - 1])]
  OBVIOUS
<1>8. w = [k \in 0..n |-> IF k = 0 THEN b ELSE PrevIn(B, w[k - 1])]
  BY <1>6, <1>7
<1>9. Back(B, b, n) = w[n]
  BY <1>7 DEF Back
<1>10. Walks(w, B, b, n)
  <2>1. w[0] = b
    BY <1>8
  <2>2. \A k \in 1..n : w[k] = PrevIn(B, w[k - 1])
    BY <1>8
  <2> QED
    BY <2>1, <2>2 DEF Walks
<1> QED
  BY <1>9, <1>10

\* there is one walk only
LEMMA OneWalk ==
    ASSUME NEW B, NEW b, NEW n \in Nat, NEW v, NEW w, Walks(v, B, b, n), Walks(w, B, b, n)
    PROVE  \A k \in 0..n : v[k] = w[k]
<1>1. PICK T : T = {k \in 0..n : v[k] = w[k]}
  OBVIOUS
<1>2. 0 \in T
  BY <1>1 DEF Walks
<1>3. \A k \in 1..n : k - 1 \in T => k \in T
  BY <1>1 DEF Walks
<1>4. \A k \in 0..n : k \in T
  BY <1>2, <1>3, CountUp
<1> QED
  BY <1>1, <1>4

LEMMA WalkEnds ==
    ASSUME NEW B, NEW b, NEW n \in Nat, NEW w, Walks(w, B, b, n)
    PROVE  Back(B, b, n) = w[n]
<1>1. PICK v : Walks(v, B, b, n) /\ Back(B, b, n) = v[n]
  BY BackWalks
<1>2. v[n] = w[n]
  BY <1>1, OneWalk
<1> QED
  BY <1>1, <1>2

\* the block that PrevIn finds is known, and the one before
LEMMA PrevInProperties ==
    ASSUME NEW B, GoodBlocks(B), NEW b, PrevIn(B, b) # None
    PROVE  /\ b \in DOMAIN B /\ b \in Block /\ Prev[b] \in DOMAIN B /\ PrevIn(B, b) = Prev[b]
           /\ Height[Prev[b]] = Height[b] - 1
<1> USE ChainAssumption
<1>1. b \in DOMAIN B /\ B[b] \in DOMAIN B /\ PrevIn(B, b) = B[b]
  BY DEF PrevIn
<1>2. b \in Block /\ B[b] \in Block /\ B[b] # None
  BY <1>1 DEF GoodBlocks
<1>3. B[b] = Prev[b]
  BY <1>1, <1>2 DEF GoodBlocks
<1>4. Height[b] = Height[Prev[b]] + 1 /\ Height[Prev[b]] \in Nat
  BY <1>2, <1>3
<1> QED
  BY <1>1, <1>2, <1>3, <1>4

\* a walk goes down by one height with each block
LEMMA BackHeight ==
    ASSUME NEW B, GoodBlocks(B), NEW b \in Block, NEW n \in Nat, Back(B, b, n) # None
    PROVE  Back(B, b, n) \in Block /\ Height[Back(B, b, n)] = Height[b] - n
<1> USE ChainAssumption
<1>1. PICK w : Walks(w, B, b, n) /\ Back(B, b, n) = w[n]
  BY BackWalks
<1>2. PICK T : T = {k \in 0..n : w[k] # None => w[k] \in Block /\ Height[w[k]] = Height[b] - k}
  OBVIOUS
<1>3. Height[b] \in Nat
  OBVIOUS
<1>4. 0 \in T
  BY <1>1, <1>2, <1>3 DEF Walks
<1>5. ASSUME NEW k \in 1..n, k - 1 \in T PROVE k \in T
  <2> SUFFICES ASSUME w[k] # None
               PROVE  w[k] \in Block /\ Height[w[k]] = Height[b] - k
    BY <1>2
  <2>1. PICK c : c = w[k - 1]
    OBVIOUS
  <2>2. w[k] = PrevIn(B, c)
    BY <1>1, <2>1 DEF Walks
  <2>3. c \in Block /\ w[k] = Prev[c] /\ Prev[c] \in DOMAIN B /\ Height[Prev[c]] = Height[c] - 1
    BY <2>2, PrevInProperties
  <2>4. c # None
    BY <2>3
  <2>5. Height[c] = Height[b] - (k - 1)
    BY <1>2, <1>5, <2>1, <2>4
  <2>6. w[k] \in Block
    BY <2>3 DEF GoodBlocks
  <2> QED
    BY <1>3, <2>3, <2>5, <2>6
<1>6. \A k \in 0..n : k \in T
  BY <1>4, <1>5, CountUp
<1>7. n \in T
  BY <1>6
<1> QED
  BY <1>1, <1>2, <1>7

\* a walk reaches a lower height when it finds the block before each block above that height
LEMMA WalkReaches ==
    ASSUME NEW B, GoodBlocks(B), NEW b \in DOMAIN B, NEW m \in Nat, m <= Height[b],
           \A x \in DOMAIN B : Height[b] - m < Height[x] /\ Height[x] <= Height[b]
                                 => Prev[x] \in DOMAIN B /\ x \notin Checkpoint
    PROVE  \E x \in Walk(B, b) : x \in DOMAIN B /\ Height[x] = Height[b] - m
<1> USE ChainAssumption
<1>1. PICK w : Walks(w, B, b, m) /\ Back(B, b, m) = w[m]
  BY BackWalks
<1>2. PICK T : T = {k \in 0..m : w[k] \in DOMAIN B /\ Height[w[k]] = Height[b] - k}
  OBVIOUS
<1>3. b \in Block /\ Height[b] \in Nat
  BY DEF GoodBlocks
<1>4. 0 \in T
  BY <1>1, <1>2, <1>3 DEF Walks
<1>5. ASSUME NEW k \in 1..m, k - 1 \in T PROVE k \in T
  <2>1. PICK c : c = w[k - 1]
    OBVIOUS
  <2>2. c \in DOMAIN B /\ Height[c] = Height[b] - (k - 1)
    BY <1>2, <1>5, <2>1
  <2>3. Prev[c] \in DOMAIN B /\ c \notin Checkpoint
    BY <1>3, <2>2
  <2>4. c \in Block /\ Prev[c] \in Block
    BY <2>2, <2>3 DEF GoodBlocks
  <2>5. B[c] = Prev[c]
    BY <2>2, <2>3 DEF GoodBlocks
  <2>6. w[k] = Prev[c]
    BY <1>1, <2>1, <2>2, <2>3, <2>5 DEF Walks, PrevIn
  <2>7. PICK q : q = Prev[c]
    OBVIOUS
  <2>8. q \in Block /\ q # None
    BY <2>4, <2>7
  <2>9. Height[c] = Height[q] + 1 /\ Height[q] \in Nat
    BY <2>4, <2>7, <2>8
  <2>10. Height[w[k]] = Height[b] - k
    BY <1>3, <2>2, <2>6, <2>7, <2>9
  <2> QED
    BY <1>2, <2>3, <2>6, <2>10
<1>6. \A k \in 0..m : k \in T
  BY <1>4, <1>5, CountUp
<1>7. w[m] \in DOMAIN B /\ Height[w[m]] = Height[b] - m
  BY <1>2, <1>6
<1>8. Height[b] - Height[w[m]] = m /\ Height[w[m]] <= Height[b]
  BY <1>3, <1>7
<1>9. w[m] \in Walk(B, b)
  BY <1>1, <1>7, <1>8 DEF Walk
<1> QED
  BY <1>7, <1>9

-----------------------------------------------------------------------------
(* The last difficulty transition, until a rescan *)

\* the height of the last difficulty transition up to b
Since(b) == Height[b] - (Height[b] % I)

\* The block before b is known unless b is a transition, for every b of the set D whose
\* interval is not yet over at the tip.
LinkedIn(D, tip) ==
    \A b \in D : ~Transition(b) /\ Since(b) + I > Height[tip] => Prev[b] \in D

Linked == lastBlock \in DOMAIN blocks /\ LinkedIn(DOMAIN blocks, lastBlock)

\* VerifyBlock frees blocks below a transition that lies a whole interval below the tip's next
\* block
LEMMA PrunedBelow ==
    ASSUME ChainInv, Highest, NEW b \in Block, Prev[b] \in DOMAIN blocks, NEW x \in Pruned(b)
    PROVE  \E h \in Nat : h % I = 0 /\ Height[x] < h /\ h + I <= Height[lastBlock] + 1
<1>1. /\ I \in Nat \ {0} /\ None \notin Block /\ Height \in [Block -> Nat]
      /\ \A c \in Block : Prev[c] # None => Height[c] = Height[Prev[c]] + 1
      /\ \A c \in Checkpoint : Height[c] % I = 0
  BY ChainAssumption
<1>2. GoodBlocks(blocks) /\ DOMAIN blocks \subseteq Block /\ lastBlock \in Block
  BY DEF ChainInv, ChainOK, GoodBlocks
<1>3. PICK prior : prior = PriorTransition(b)
  OBVIOUS
<1>4. Transition(b) /\ prior # None /\ x \in Walk(blocks, prior) \ {prior} /\ ~Transition(x)
  BY <1>3 DEF Pruned
<1>5. PICK C : C = Put(blocks, b)
  OBVIOUS
<1>6. GoodBlocks(C) /\ prior = Back(C, b, I)
  BY <1>2, <1>3, <1>5, PutTyped DEF PriorTransition
<1>7. prior \in Block /\ Height[prior] = Height[b] - I
  BY <1>1, <1>4, <1>6, BackHeight
<1>8. x \in Block /\ Height[x] <= Height[prior]
      /\ Back(blocks, prior, Height[prior] - Height[x]) = x
  BY <1>2, <1>4, <1>7, WalkTyped DEF Walk
<1>9. Height[x] \in Nat /\ Height[prior] \in Nat /\ Height[b] \in Nat /\ Height[lastBlock] \in Nat
  BY <1>1, <1>2, <1>7, <1>8
<1>10. Height[x] < Height[prior]
  <2>1. CASE Height[x] = Height[prior]
    <3>1. Back(blocks, prior, 0) = x
      BY <1>8, <1>9, <2>1
    <3>2. PICK w : Walks(w, blocks, prior, 0) /\ Back(blocks, prior, 0) = w[0]
      BY BackWalks
    <3> QED
      BY <1>4, <3>1, <3>2 DEF Walks
  <2> QED
    BY <1>8, <1>9, <2>1
<1>11. Height[b] % I = 0 /\ Height[x] % I # 0
  BY <1>4 DEF Transition
<1>12. I # 1
  BY <1>9, <1>11
<1>13. Height[b] = Height[Prev[b]] + 1 /\ Height[Prev[b]] \in Nat
  <2>1. Prev[b] # None /\ Prev[b] \in Block
    BY <1>1, <1>2
  <2> QED
    BY <1>1, <2>1
<1>14. Prev[b] \notin Checkpoint
  <2>1. CASE Height[Prev[b]] % I = 0
    <3>1. Height[Prev[b]] + I <= Height[b]
      BY <1>1, <1>9, <1>11, <1>13, <2>1, NextMultiple
    <3> QED
      BY <1>1, <1>12, <1>13, <3>1
  <2> QED
    BY <1>1, <2>1
<1>15. Height[b] <= Height[lastBlock] + 1
  BY <1>9, <1>13, <1>14 DEF Highest
<1>16. Height[prior] % I = 0
  <2>1. Height[b] >= I
    BY <1>1, <1>7, <1>9
  <2> QED
    BY <1>1, <1>7, <1>9, <1>11, <2>1, MultipleBefore
<1> QED
  BY <1>1, <1>7, <1>9, <1>10, <1>15, <1>16

\* what is freed does not take away what the blocks of the tip's interval follow
LEMMA KeptLinked ==
    ASSUME ChainInv, Highest, Linked, NEW b \in Block, Prev[b] \in DOMAIN blocks
    PROVE  LinkedIn(DOMAIN Kept(b), lastBlock)
<1>1. /\ I \in Nat \ {0} /\ None \notin Block /\ Height \in [Block -> Nat]
      /\ \A c \in Block : Prev[c] # None => Height[c] = Height[Prev[c]] + 1
  BY ChainAssumption
<1>2. DOMAIN blocks \subseteq Block /\ lastBlock \in Block
  BY DEF ChainInv, ChainOK, GoodBlocks
<1>3. DOMAIN Kept(b) = DOMAIN blocks \ Pruned(b)
  BY DEF Kept
<1>4. SUFFICES ASSUME NEW x \in DOMAIN blocks, ~Transition(x),
                      Since(x) + I > Height[lastBlock], Prev[x] \in Pruned(b)
               PROVE  FALSE
  <2>1. ASSUME NEW x \in DOMAIN blocks, ~Transition(x), Since(x) + I > Height[lastBlock]
        PROVE  Prev[x] \in DOMAIN blocks
    BY <2>1 DEF Linked, LinkedIn
  <2> QED
    BY <1>3, <2>1 DEF LinkedIn
<1>5. PICK h \in Nat : h % I = 0 /\ Height[Prev[x]] < h /\ h + I <= Height[lastBlock] + 1
  BY <1>4, PrunedBelow
<1>6. Height[x] \in Nat /\ Height[lastBlock] \in Nat
  BY <1>1, <1>2
<1>7. Height[x] = Height[Prev[x]] + 1 /\ Height[Prev[x]] \in Nat
  <2>1. Prev[x] \in Block
    BY <1>2, <1>4 DEF Linked, LinkedIn
  <2>2. Prev[x] # None
    BY <1>1, <2>1
  <2> QED
    BY <1>1, <1>2, <2>1, <2>2
<1>8. PICK s : s = Since(x)
  OBVIOUS
<1>9. s \in Nat /\ s % I = 0 /\ s < Height[x]
  <2>1. PICK r : r = Height[x] % I
    OBVIOUS
  <2>2. PICK h0 \in Nat : h0 = Height[x]
    BY <1>6
  <2>3. r \in 0..(I - 1) /\ r <= h0 /\ \A k \in 0..r : (h0 - k) % I = r - k
    BY <1>1, <2>1, <2>2, Remainder
  <2>4. (h0 - r) % I = 0
    <3>1. r \in 0..r /\ r - r = 0
      BY <1>1, <2>3
    <3> QED
      BY <2>3, <3>1
  <2>5. r # 0
    BY <1>4, <2>1 DEF Transition
  <2>6. s = h0 - r
    BY <1>8, <2>1, <2>2 DEF Since
  <2>7. r \in Nat /\ r <= h0
    BY <1>1, <2>3
  <2>8. s \in Nat /\ s < h0
    BY <2>2, <2>5, <2>6, <2>7
  <2>9. s % I = 0
    BY <2>4, <2>6
  <2> QED
    BY <2>2, <2>8, <2>9
<1>10. s < h
  BY <1>5, <1>7, <1>9
<1>11. s + I <= h
  BY <1>1, <1>5, <1>9, <1>10, NextMultiple
<1> QED
  BY <1>1, <1>4, <1>5, <1>6, <1>8, <1>9, <1>11

\* a higher tip asks less
LEMMA HigherTip ==
    ASSUME NEW D \in SUBSET Block, NEW t \in Block, NEW u \in Block, Height[t] <= Height[u],
           LinkedIn(D, t)
    PROVE  LinkedIn(D, u)
<1>1. Height[t] \in Nat /\ Height[u] \in Nat /\ I \in Nat \ {0}
  BY ChainAssumption
<1>2. \A b \in D : Since(b) \in Int
  <2>1. ASSUME NEW b \in D PROVE Since(b) \in Int
    <3>1. Height[b] \in Nat
      BY ChainAssumption
    <3>2. Height[b] % I \in Int
      BY <1>1, <3>1
    <3> QED
      BY <3>1, <3>2 DEF Since
  <2> QED
    BY <2>1
<1> QED
  BY <1>1, <1>2 DEF LinkedIn

\* a block whose parent is known is linked
LEMMA PutLinked ==
    ASSUME ChainInv, Highest, Linked, NEW b \in Block, Prev[b] \in DOMAIN blocks
    PROVE  LinkedIn(DOMAIN Kept(b) \cup {b}, lastBlock)
<1>1. LinkedIn(DOMAIN Kept(b), lastBlock)
  BY KeptLinked
<1>2. ~Transition(b) => Prev[b] \in DOMAIN Kept(b)
  BY DEF Kept, Pruned
<1> QED
  BY <1>1, <1>2 DEF LinkedIn

LEMMA RelayedLinked ==
    ASSUME ChainInv, Highest, Linked, NEW p \in Peer, NEW b \in Block, RelayedBlock(p, b),
           failed' = None
    PROVE  Linked'
<1>1. /\ lastBlock \in Block /\ GoodBlocks(blocks)
      /\ lastBlock \in DOMAIN blocks /\ LinkedIn(DOMAIN blocks, lastBlock)
  BY DEF ChainInv, ChainOK, Linked
<1>2. PICK B : B = Kept(b)
  OBVIOUS
<1>3. GoodBlocks(B) /\ DOMAIN B = DOMAIN blocks \ Pruned(b)
  BY <1>1, <1>2, KeptTyped DEF Kept
<1>4. DOMAIN Put(B, b) = DOMAIN B \cup {b}
  BY <1>3, PutTyped
<1>5. CASE blocks' = blocks /\ lastBlock' = lastBlock
  BY <1>1, <1>5 DEF Linked
<1>6. CASE blocks' = B /\ lastBlock' = lastBlock /\ lastBlock \notin Pruned(b)
           /\ Prev[b] \in DOMAIN blocks
  <2>1. LinkedIn(DOMAIN B, lastBlock)
    BY <1>2, <1>6, KeptLinked
  <2> QED
    BY <1>1, <1>3, <1>6, <2>1 DEF Linked
<1>7. CASE blocks' = Put(B, b) /\ lastBlock' \in {lastBlock, b} /\ lastBlock \notin Pruned(b)
           /\ Prev[b] \in DOMAIN blocks
  <2>1. LinkedIn(DOMAIN B \cup {b}, lastBlock)
    BY <1>2, <1>7, PutLinked
  <2>2. Height[lastBlock] <= Height[lastBlock']
    BY RelayedHighest
  <2>3. DOMAIN B \cup {b} \in SUBSET Block
    BY <1>3 DEF GoodBlocks
  <2>4. LinkedIn(DOMAIN B \cup {b}, lastBlock')
    BY <1>1, <1>7, <2>1, <2>2, <2>3, HigherTip
  <2> QED
    BY <1>1, <1>3, <1>4, <1>7, <2>4 DEF Linked
<1>8. CASE Accept(p, b)
  <2>1. lastBlock \notin Pruned(b) /\ Prev[b] \in DOMAIN blocks
    BY <1>8 DEF Accept
  <2>2. CASE Extend(p, B, b)
    BY <1>7, <2>1, <2>2 DEF Extend
  <2>3. CASE Reorganize(p, B, b)
    <3>1. blocks' = Put(B, b)
      BY <2>3 DEF Reorganize
    <3>2. failed' = "assert" \/ lastBlock' = b
      BY <2>3, Zenon DEF Reorganize
    <3>3. failed' # "assert"
      BY ChainAssumption
    <3> QED
      BY <1>7, <2>1, <3>1, <3>2, <3>3
  <2>4. CASE Existing(p, B, b)
    <3>1. failed' # "assert"
      BY ChainAssumption
    <3>2. blocks' = Put(B, b) /\ lastBlock' = lastBlock
      BY <2>4, <3>1 DEF Existing
    <3> QED
      BY <1>7, <2>1, <3>2
  <2>5. CASE Fork(p, B, b)
    BY <1>7, <2>1, <2>5 DEF Fork
  <2>6. CASE blocks' = B /\ UNCHANGED lastBlock
    BY <1>6, <2>1, <2>6
  <2> QED
    BY <1>2, <1>8, <2>2, <2>3, <2>4, <2>5, <2>6 DEF Accept
<1>9. CASE FreeLastBlock(p, b)
  BY <1>9, ChainAssumption DEF FreeLastBlock
<1> QED
  BY <1>2, <1>5, <1>6, <1>8, <1>9 DEF RelayedBlock, IgnoreUnfiltered, Orphan, Refuse

\* every block that BRPeerManagerNew chains follows one that it has chained, up to the first
LEMMA RestoredLinked ==
    ASSUME NEW O \in SUBSET Block, NEW first \in Block, NEW x \in Restored(O, first), x # first
    PROVE  Prev[x] \in Restored(O, first)
<1> USE ChainAssumption
<1>1. PICK C : C = [y \in O \cup {first} |-> Prev[y]]
  OBVIOUS
<1>2. GoodBlocks(C) /\ DOMAIN C = O \cup {first}
  BY <1>1 DEF GoodBlocks
<1>3. \A o : o \in Restored(O, first) <=> o \in O \cup {first} /\ first \in Walk(C, o)
  BY <1>1 DEF Restored
<1>4. x \in O \cup {first} /\ first \in Walk(C, x)
  BY <1>3
<1>5. x \in Block /\ Height[x] \in Nat /\ Height[first] \in Nat
  BY <1>4
<1>6. PICK n : n = Height[x] - Height[first]
  OBVIOUS
<1>7. n \in Nat /\ Back(C, x, n) = first
  BY <1>4, <1>5, <1>6 DEF Walk
<1>8. PICK w : Walks(w, C, x, n) /\ w[n] = first
  BY <1>7, BackWalks
<1>9. w[0] = x /\ \A k \in 1..n : w[k] = PrevIn(C, w[k - 1])
  BY <1>8 DEF Walks
<1>10. n # 0
  BY <1>8, <1>9
<1>11. w[1] # None
  <2> SUFFICES ASSUME w[1] = None
               PROVE  FALSE
    OBVIOUS
  <2>1. PICK T : T = {k \in 0..n : k >= 1 => w[k] = None}
    OBVIOUS
  <2>2. 0 \in T
    BY <1>7, <2>1
  <2>3. ASSUME NEW k \in 1..n, k - 1 \in T PROVE k \in T
    <3>1. CASE k = 1
      BY <2>1, <3>1
    <3>2. CASE k # 1
      <4>1. w[k - 1] = None
        BY <2>1, <2>3, <3>2
      <4>2. None \notin DOMAIN C
        BY <1>2
      <4>3. w[k] = None
        BY <1>9, <4>1, <4>2 DEF PrevIn
      <4> QED
        BY <2>1, <4>3
    <3> QED
      BY <3>1, <3>2
  <2>4. \A k \in 0..n : k \in T
    BY <1>7, <2>2, <2>3, CountUp
  <2>5. w[n] = None
    BY <1>7, <1>10, <2>1, <2>4
  <2> QED
    BY <1>8, <2>5
<1>12. PICK q : q = Prev[x]
  OBVIOUS
<1>13. w[1] = q /\ q \in DOMAIN C /\ Height[q] = Height[x] - 1
  <2>1. w[1] = PrevIn(C, x)
    BY <1>7, <1>9, <1>10
  <2> QED
    BY <1>2, <1>11, <1>12, <2>1, PrevInProperties
<1>14. PICK v : v = [k \in 0..(n - 1) |-> w[k + 1]]
  OBVIOUS
<1>15. n - 1 \in Nat /\ v[n - 1] = first
  BY <1>7, <1>8, <1>10, <1>14
<1>16. Walks(v, C, q, n - 1)
  <2>1. v[0] = q
    BY <1>13, <1>14, <1>15
  <2>2. ASSUME NEW k \in 1..(n - 1) PROVE v[k] = PrevIn(C, v[k - 1])
    <3>1. v[k] = w[k + 1] /\ v[k - 1] = w[k]
      BY <1>7, <1>14, <2>2
    <3>2. w[k + 1] = PrevIn(C, w[k])
      <4>1. k + 1 \in 1..n /\ (k + 1) - 1 = k
        BY <1>7, <2>2
      <4> QED
        BY <1>9, <4>1
    <3> QED
      BY <3>1, <3>2
  <2> QED
    BY <2>1, <2>2 DEF Walks
<1>17. Back(C, q, n - 1) = first
  BY <1>15, <1>16, WalkEnds
<1>18. Height[q] - Height[first] = n - 1 /\ Height[first] <= Height[q]
  BY <1>5, <1>6, <1>13, <1>15
<1>19. first \in Walk(C, q)
  BY <1>2, <1>17, <1>18 DEF Walk
<1> QED
  BY <1>2, <1>3, <1>12, <1>13, <1>19

LEMMA RestartLinked ==
    ASSUME ChainInv, Restart
    PROVE  Linked'
<1> USE ChainAssumption
<1>1. saved \subseteq Block
  BY DEF ChainInv, ChainOK
<1>2. CASE LastTransition = {}
  <2>1. blocks' = Checkpoints /\ lastBlock' = Start
    BY <1>2 DEF Restart
  <2>2. DOMAIN blocks' = Checkpoint
    BY <2>1 DEF Checkpoints
  <2> QED
    BY <2>1, <2>2 DEF Linked, LinkedIn, Transition
<1>3. CASE LastTransition # {}
  <2>1. PICK O \in OnePerPrev(saved), first \in LastTransition :
           LET chain == Restored(O, first)
           IN  /\ blocks' = [x \in Checkpoint \cup chain |->
                              IF x \in chain THEN Prev[x] ELSE None]
               /\ lastBlock' \in {b \in chain : \A o \in chain : Height[o] <= Height[b]}
    BY <1>3 DEF Restart
  <2>2. PICK chain : chain = Restored(O, first)
    OBVIOUS
  <2>3. DOMAIN blocks' = Checkpoint \cup chain /\ lastBlock' \in chain
    BY <2>1, <2>2
  <2>4. O \in SUBSET Block /\ first \in Block /\ Transition(first)
    BY <1>1, <2>1 DEF OnePerPrev, LastTransition
  <2>5. ASSUME NEW x \in DOMAIN blocks', ~Transition(x) PROVE Prev[x] \in DOMAIN blocks'
    <3>1. x \notin Checkpoint
      BY <2>5 DEF Transition
    <3>2. x \in Restored(O, first) /\ x # first
      BY <2>2, <2>3, <2>4, <2>5, <3>1
    <3>3. Prev[x] \in Restored(O, first)
      BY <2>4, <3>2, RestoredLinked
    <3> QED
      BY <2>2, <2>3, <3>3
  <2> QED
    BY <2>3, <2>5 DEF Linked, LinkedIn
<1> QED
  BY <1>2, <1>3

\* a walk through linked blocks reaches the tip's last transition
LEMMA LinkedReaches ==
    ASSUME ChainInv, Linked
    PROVE  \E b \in MainChain : Transition(b) /\ Height[lastBlock] - Height[b] < I
<1>1. I \in Nat \ {0} /\ Height \in [Block -> Nat] /\ \A c \in Checkpoint : Height[c] % I = 0
  BY ChainAssumption
<1>2. GoodBlocks(blocks) /\ lastBlock \in DOMAIN blocks /\ LinkedIn(DOMAIN blocks, lastBlock)
  BY DEF ChainInv, ChainOK, Linked
<1>3. PICK H, m : H = Height[lastBlock] /\ m = Height[lastBlock] % I
  OBVIOUS
<1>4. H \in Nat
  BY <1>1, <1>2, <1>3 DEF GoodBlocks
<1>5. m \in 0..(I - 1) /\ m <= H /\ \A k \in 0..m : (H - k) % I = m - k
  BY <1>1, <1>3, <1>4, Remainder
<1>6. ASSUME NEW x \in DOMAIN blocks, H - m < Height[x], Height[x] <= H
      PROVE  Prev[x] \in DOMAIN blocks /\ x \notin Checkpoint
  <2>1. Height[x] \in Nat
    BY <1>1, <1>2 DEF GoodBlocks
  <2>2. PICK k \in 0..m : Height[x] = H - k /\ k # m
    <3>1. H - Height[x] \in 0..m /\ H - Height[x] # m /\ Height[x] = H - (H - Height[x])
      BY <1>4, <1>5, <1>6, <2>1
    <3> QED
      BY <3>1
  <2>3. Height[x] % I = m - k
    BY <1>5, <2>2
  <2>4. Height[x] % I # 0 /\ Since(x) = H - m
    BY <1>4, <1>5, <2>2, <2>3 DEF Since
  <2>5. ~Transition(x) /\ Since(x) + I > H
    BY <1>1, <1>4, <1>5, <2>4 DEF Transition
  <2> QED
    BY <1>1, <1>2, <1>3, <2>4, <2>5 DEF LinkedIn
<1>7. PICK x \in Walk(blocks, lastBlock) : x \in DOMAIN blocks /\ Height[x] = H - m
  <2>1. m \in Nat
    BY <1>1, <1>5
  <2> QED
    BY <1>2, <1>3, <1>5, <1>6, <2>1, WalkReaches
<1>8. Height[x] % I = 0
  BY <1>1, <1>5, <1>7
<1>9. Height[lastBlock] - Height[x] < I
  BY <1>1, <1>3, <1>4, <1>5, <1>7
<1> QED
  BY <1>7, <1>8, <1>9 DEF MainChain, Transition

LinkedInv == rescans = 0 /\ Alive => Linked

LEMMA LinkedStep ==
    ASSUME ChainInv, HighestInv, LinkedInv, [Next]_vars
    PROVE  LinkedInv'
<1>1. CASE \E p \in Peer, b \in Block : RelayedBlock(p, b)
  <2> SUFFICES ASSUME (rescans = 0)', Alive' PROVE Linked'
    BY DEF LinkedInv
  <2>1. PICK p \in Peer, b \in Block : RelayedBlock(p, b)
    BY <1>1
  <2>2. Alive /\ rescans = 0 /\ failed' = None
    BY <2>1 DEF RelayedBlock, runVars, Alive
  <2>3. Highest /\ Linked
    BY <2>2 DEF HighestInv, LinkedInv
  <2> QED
    BY <2>1, <2>2, <2>3, RelayedLinked
<1>2. CASE Next /\ ~\E p \in Peer, b \in Block : RelayedBlock(p, b)
  <2> SUFFICES ASSUME (rescans = 0)', Alive' PROVE Linked'
    BY DEF LinkedInv
  <2>1. CASE Restart
    BY <2>1, RestartLinked
  <2>2. CASE UNCHANGED <<blocks, lastBlock, failed>> /\ rescans = 0
    BY <2>2 DEF LinkedInv, Linked, LinkedIn, Alive
  <2> QED
    BY <1>2, <2>1, <2>2, ChainUntouched
<1>3. CASE UNCHANGED vars
  BY <1>3 DEF vars, runVars, LinkedInv, Linked, LinkedIn, Alive
<1> QED
  BY <1>1, <1>2, <1>3

\* Until the application rescans, the walk from the tip reaches the last difficulty transition,
\* so the next one can be verified: what _BRPeerManagerVerifyBlock frees lies below the interval
\* that the tip is in, and of a fork it has cut off from its transition every block is too low to
\* be the start of a longer one.  A restart chains nothing that does not lead to a transition.
THEOREM TransitionStaysReachable == Spec => [](rescans = 0 => TransitionReachable)
<1>1. Init => HighestInv
  BY DEF Init, HighestInv, Highest, Checkpoints
<1>2. ChainInv /\ HighestInv /\ [Next]_vars => HighestInv'
  BY HighestStep
<1>3. Init => LinkedInv
  BY ChainAssumption DEF Init, LinkedInv, Linked, LinkedIn, Checkpoints, Transition
<1>4. ChainInv /\ HighestInv /\ LinkedInv /\ [Next]_vars => LinkedInv'
  BY LinkedStep
<1>5. ChainInv /\ LinkedInv => (rescans = 0 => TransitionReachable)
  BY LinkedReaches DEF LinkedInv, TransitionReachable
<1> QED
  BY <1>1, <1>2, <1>3, <1>4, <1>5, ChainInvariance, PTL DEF Spec
=============================================================================
