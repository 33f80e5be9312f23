------------------------- MODULE PersistenceProofs -------------------------
(***************************************************************************)
(* What TLAPS proves of Persistence for every set of transactions and      *)
(* peers, every chain and every number of crashes, failed saves and        *)
(* rescans: a running wallet has missed no transaction below its chain,    *)
(* what it lists is on disk or on its way there, and a restart resumes     *)
(* no lower than the last transition block that was saved.                 *)
(***************************************************************************)
EXTENDS Persistence, BasicLemmas

(* The invariant. *)

\* the calls a handler under manager->lock makes, and those for the peers
ChainCall == {Save(TxFile(t)) : t \in Tx} \cup {RemoveFile(TxFile(t)) : t \in Tx}
                \cup {Save(BlockFile(h)) : h \in 1..NetHeight} \cup {Clear("blocks"), RescanCall}

PeersCall == {Save(PeerFile(p)) : p \in Peer} \cup {Clear("peers"), RescanCall}

Calls == todo["chain"]

\* the contents of the files, by kind; the checkpoint has none
FilesInv ==
    /\ files \in [Entity -> Height \cup {Unconfirmed, Absent, Torn}]
    /\ \A t \in Tx : files[TxFile(t)] \in 1..NetHeight \cup {Unconfirmed, Absent, Torn}
    /\ files[BlockFile(0)] = Absent

\* A stopped process has nothing in memory.
StoppedInv ==
    ~running =>
        /\ Calls = <<>> /\ todo["peers"] = <<>>
        /\ open["chain"] = Closed /\ open["peers"] = Closed
        /\ \A t \in Tx : known[t] = Absent
        /\ listed = {} /\ orphans = {} /\ next = {} /\ blocks = {0} /\ lastBlock = 0
        /\ ~connected

MemoryInv ==
    /\ running \in BOOLEAN /\ connected \in BOOLEAN /\ loadFailed \in BOOLEAN
    /\ known \in [Tx -> 1..NetHeight \cup {Unconfirmed, Absent}]
    /\ listed \subseteq {t \in Tx : known[t] # Absent}
    /\ lastBlock \in blocks /\ blocks \subseteq Height /\ 0 \in blocks
    /\ orphans \subseteq Height \ {0} /\ next \subseteq Height \ {0}
    /\ estimatedHeight \in Nat
    /\ connected \/ next # {} => estimatedHeight >= 2 * BLOCK_DIFFICULTY_INTERVAL

\* A handler saves what the wallet knows and removes what it has unlisted; a handler
\* that waits for the lock it holds makes no further call.
CallsInv ==
    /\ todo \in [Actor -> Seq(ChainCall \cup PeersCall)]
    /\ Calls \in Seq(ChainCall) /\ todo["peers"] \in Seq(PeersCall)
    /\ \A i \in 1..Len(Calls), t \in Tx :
          /\ Calls[i] = Save(TxFile(t)) => known[t] # Absent
          /\ Calls[i] = RemoveFile(TxFile(t)) => t \notin listed /\ known[t] = Unconfirmed
    /\ \A i \in 1..Len(Calls) : Calls[i] = RescanCall => i = 1

\* the bytes held while a file is open are still those of the entity
OpenAt(a) ==
    open[a] # Closed =>
        /\ Ready(a, "save")
        /\ files[Head(todo[a]).entity] = Torn
        /\ open[a] = Written(Head(todo[a]).entity)

OpenInv == open \in [Actor -> Int] /\ \A a \in Actor : OpenAt(a)

\* a save of t is on its way or failed
OnItsWay(t) == \E i \in 1..Len(Calls) : Calls[i] \in {Save(TxFile(t)), RescanCall}

\* the list, and the confirmed transactions that were taken off it, are on disk
DiskInv ==
    \A t \in Tx : t \in listed \/ known[t] \in 1..NetHeight =>
        files[TxFile(t)] = known[t] \/ OnItsWay(t)

\* the wallet, the disk, know the transactions of the chain up to h
KnownTo(h) == \A t \in Tx : TxHeight[t] <= h => known[t] = TxHeight[t]

SavedTo(h) == \A t \in Tx : TxHeight[t] <= h => files[TxFile(t)] \in {TxHeight[t], Torn}

\* the i-th call comes after the save of what the chain up to h holds
SavedBefore(i, h) ==
    \A t \in Tx : TxHeight[t] <= h =>
        \/ files[TxFile(t)] \in {TxHeight[t], Torn}
        \/ \E j \in 1..(i - 1) : Calls[j] \in {Save(TxFile(t)), RescanCall}

\* no block is in memory, on disk or about to be saved without the transactions below it
ChainInv ==
    ~loadFailed =>
        /\ \A h \in blocks \cup orphans \cup next : KnownTo(h)
        /\ \A h \in Height : files[BlockFile(h)] # Absent =>
              SavedTo(h) /\ (running => KnownTo(h))
        /\ \A h \in Height, i \in 1..Len(Calls) : Calls[i] = Save(BlockFile(h)) =>
              KnownTo(h) /\ SavedBefore(i, h)

\* the last transition saved is still there
DurableInv ==
    /\ durable \in Height
    /\ durable # 0 => Transition(durable) /\ files[BlockFile(durable)] # Absent

IInv ==
    /\ FilesInv
    /\ StoppedInv
    /\ MemoryInv
    /\ CallsInv
    /\ OpenInv
    /\ DiskInv
    /\ ChainInv
    /\ DurableInv

-----------------------------------------------------------------------------
(* The calls. *)

\* Calls of different kinds, and of different entities, are different.
LEMMA CallsDiffer ==
    /\ \A t, u : Save(TxFile(t)) = Save(TxFile(u)) => t = u
    /\ \A t, u : RemoveFile(TxFile(t)) = RemoveFile(TxFile(u)) => t = u
    /\ \A h, k : Save(BlockFile(h)) = Save(BlockFile(k)) => h = k
    /\ \A t, h : Save(TxFile(t)) # Save(BlockFile(h))
    /\ \A t, u : Save(TxFile(t)) # RemoveFile(TxFile(u))
    /\ \A t, h : RemoveFile(TxFile(t)) # Save(BlockFile(h))
    /\ \A t : Save(TxFile(t)) \notin {RescanCall, Clear("blocks")}
    /\ \A t : RemoveFile(TxFile(t)) \notin {RescanCall, Clear("blocks")}
    /\ \A h : Save(BlockFile(h)) \notin {RescanCall, Clear("blocks")}
    /\ RescanCall # Clear("blocks")
BY DEF Save, RemoveFile, Clear, RescanCall, TxFile, BlockFile

LEMMA FilesDiffer ==
    /\ \A t, u : TxFile(t) = TxFile(u) => t = u
    /\ \A h, k : BlockFile(h) = BlockFile(k) => h = k
    /\ \A t, h : TxFile(t) # BlockFile(h)
    /\ \A t, p : TxFile(t) # PeerFile(p)
    /\ \A h, p : BlockFile(h) # PeerFile(p)
BY DEF TxFile, BlockFile, PeerFile

LEMMA EntityMembers ==
    /\ \A t \in Tx : TxFile(t) \in Entity
    /\ \A h \in Height : BlockFile(h) \in Entity
    /\ \A p \in Peer : PeerFile(p) \in Entity
BY DEF Entity

\* A call's kind and entity.
LEMMA CallParts ==
    /\ \A e : Save(e).op = "save" /\ Save(e).entity = e
    /\ \A e : RemoveFile(e).op = "remove" /\ RemoveFile(e).entity = e
    /\ \A c : Clear(c).op = "clear"
    /\ RescanCall.op = "rescan"
BY DEF Save, RemoveFile, Clear, RescanCall

LEMMA ChainCallKinds ==
    ASSUME NEW c \in ChainCall
    PROVE  /\ c.op = "save" => \/ \E t \in Tx : c = Save(TxFile(t))
                               \/ \E h \in 1..NetHeight : c = Save(BlockFile(h))
           /\ c.op = "remove" => \E t \in Tx : c = RemoveFile(TxFile(t))
           /\ c.op = "rescan" => c = RescanCall
           /\ c.op = "clear" => c = Clear("blocks")
BY CallParts, Zenon DEF ChainCall

LEMMA ChainSaveEntity ==
    ASSUME NEW c \in ChainCall, c.op = "save"
    PROVE  /\ c = Save(c.entity)
           /\ \/ \E t \in Tx : c.entity = TxFile(t)
              \/ \E h \in 1..NetHeight : c.entity = BlockFile(h)
<1>1. CASE \E t \in Tx : c = Save(TxFile(t))
  BY <1>1, CallParts
<1>2. CASE \E h \in 1..NetHeight : c = Save(BlockFile(h))
  BY <1>2, CallParts
<1>3. QED
  BY <1>1, <1>2, ChainCallKinds

LEMMA PeersCallKinds ==
    ASSUME NEW c \in PeersCall
    PROVE  /\ c.op = "save" => \E p \in Peer : c = Save(PeerFile(p))
           /\ c.op # "remove"
           /\ c.op = "rescan" => c = RescanCall
           /\ c.op = "clear" => c = Clear("peers")
BY CallParts DEF PeersCall

\* What is left of an actor's calls when the first one returns, or fails.
LEMMA TailCalls ==
    ASSUME NEW C, NEW s \in Seq(C), s # <<>>, NEW c
    PROVE  /\ Len(s) \in Nat \ {0} /\ Head(s) = s[1] /\ s[1] \in C
           /\ Tail(s) \in Seq(C) /\ Len(Tail(s)) = Len(s) - 1
           /\ \A i \in 1..Len(Tail(s)) : Tail(s)[i] = s[i + 1]
           /\ c \in C => <<c>> \o Tail(s) \in Seq(C)
           /\ Len(<<c>> \o Tail(s)) = Len(s)
           /\ \A i \in 1..Len(s) : (<<c>> \o Tail(s))[i] = IF i = 1 THEN c ELSE s[i]
<1>1. Len(s) \in Nat \ {0} /\ Head(s) = s[1] /\ s[1] \in C
  OBVIOUS
<1>2. Tail(s) \in Seq(C) /\ Len(Tail(s)) = Len(s) - 1
  OBVIOUS
<1>3. \A i \in 1..Len(Tail(s)) : Tail(s)[i] = s[i + 1]
  OBVIOUS
<1>4. c \in C => <<c>> \o Tail(s) \in Seq(C)
  BY <1>2
<1> DEFINE t == Tail(s)
<1>5. t \in Seq(C) /\ <<c>> \in Seq({c})
  BY <1>2
<1> HIDE DEF t
<1>6. Len(<<c>> \o t) = 1 + Len(t)
  BY <1>5
<1>7. \A i \in 1..(1 + Len(t)) : (<<c>> \o t)[i] = IF i = 1 THEN c ELSE t[i - 1]
  BY <1>5
<1>8. QED
  BY <1>1, <1>2, <1>3, <1>4, <1>6, <1>7 DEF t

-----------------------------------------------------------------------------
(* The file service, for a handler under manager->lock. *)

\* The first call of a handler that is inside one.
LEMMA FirstCall ==
    ASSUME IInv, NEW op, Ready("chain", op)
    PROVE  /\ running
           /\ Calls \in Seq(ChainCall) /\ Calls # <<>>
           /\ Len(Calls) \in Nat \ {0} /\ Head(Calls) = Calls[1] /\ Calls[1] \in ChainCall
           /\ Calls[1].op = op
<1>1. Calls \in Seq(ChainCall)
  BY DEF IInv, CallsInv
<1>2. running /\ Calls # <<>> /\ Head(Calls).op = op
  BY DEF Ready, Idle, Calls
<1> HIDE DEF Calls
<1>3. QED
  BY <1>1, <1>2, TailCalls

\* What an actor holds open stays open as long as others act.
LEMMA PeersStayOpen ==
    ASSUME IInv, todo'["peers"] = todo["peers"], open'["peers"] = open["peers"],
           running' = running, \A p \in Peer : files'[PeerFile(p)] = files[PeerFile(p)]
    PROVE  OpenAt("peers")'
<1> SUFFICES ASSUME open["peers"] # Closed
             PROVE  OpenAt("peers")'
  BY DEF OpenAt
<1>1. /\ Ready("peers", "save") /\ files[Head(todo["peers"]).entity] = Torn
      /\ open["peers"] = Written(Head(todo["peers"]).entity)
  BY DEF IInv, OpenInv, OpenAt, Actor
<1>2. Ready("peers", "save")'
  BY <1>1 DEF Ready, Idle
<1>3. todo["peers"] \in Seq(PeersCall) /\ todo["peers"] # <<>>
  BY <1>1 DEF IInv, CallsInv, Ready, Idle
<1>4. Head(todo["peers"]) \in PeersCall /\ Head(todo["peers"]).op = "save"
  BY <1>1, <1>3, TailCalls DEF Ready
<1>5. PICK p \in Peer : Head(todo["peers"]) = Save(PeerFile(p))
  BY <1>4, PeersCallKinds
<1>6. Head(todo["peers"]).entity = PeerFile(p)
  BY <1>5, CallParts
<1>7. Written(PeerFile(p)) = 0 /\ Written(PeerFile(p))' = 0
  BY DEF Written, PeerFile
<1>8. Head(todo'["peers"]).entity = PeerFile(p)
  BY <1>6
<1>9. files'[PeerFile(p)] = Torn /\ open'["peers"] = 0
  BY <1>1, <1>6, <1>7
<1>10. Written(Head(todo["peers"]).entity)' = 0
  BY <1>8 DEF Written, PeerFile
<1>11. QED
  BY <1>2, <1>8, <1>9, <1>10 DEF OpenAt

LEMMA ChainStaysOpen ==
    ASSUME IInv, todo'["chain"] = todo["chain"], open'["chain"] = open["chain"],
           running' = running, known' = known,
           \A t \in Tx : files'[TxFile(t)] = files[TxFile(t)],
           \A h \in Height : files'[BlockFile(h)] = files[BlockFile(h)]
    PROVE  OpenAt("chain")'
<1> SUFFICES ASSUME open["chain"] # Closed
             PROVE  OpenAt("chain")'
  BY DEF OpenAt
<1>1. /\ Ready("chain", "save") /\ files[Head(todo["chain"]).entity] = Torn
      /\ open["chain"] = Written(Head(todo["chain"]).entity)
  BY DEF IInv, OpenInv, OpenAt, Actor
<1>2. Ready("chain", "save")'
  BY <1>1 DEF Ready, Idle
<1>3. Head(todo["chain"]) \in ChainCall /\ Head(todo["chain"]).op = "save"
  BY <1>1, FirstCall DEF Calls
<1>4. PICK e : e = Head(todo["chain"]).entity
  OBVIOUS
<1>5. (\E t \in Tx : e = TxFile(t)) \/ (\E h \in 1..NetHeight : e = BlockFile(h))
  BY <1>3, <1>4, ChainCallKinds, CallParts
<1>6. 1..NetHeight \subseteq Height
  BY PersistenceAssumption DEF Height
<1>7. files'[e] = files[e]
  BY <1>5, <1>6
<1>8. Written(e)' = Written(e)
  BY DEF Written
<1>9. Written(Head(todo["chain"]).entity)' = Written(e)'
  BY <1>4 DEF Written
<1>10. QED
  BY <1>1, <1>2, <1>4, <1>7, <1>8, <1>9 DEF OpenAt

\* An actor that has nothing to do holds nothing open.
LEMMA IdleClosed ==
    ASSUME IInv, NEW a \in Actor, todo[a] = <<>>
    PROVE  open[a] = Closed
BY DEF IInv, OpenInv, OpenAt, Ready, Idle

\* fopen truncates the file of the call; of a block only when what the chain below it
\* holds is saved.
LEMMA ChainSaveOpens ==
    ASSUME IInv, SaveOpens("chain")
    PROVE  IInv'
<1> USE DEF IInv
<1>1. /\ running /\ Calls \in Seq(ChainCall) /\ Calls # <<>>
      /\ Len(Calls) \in Nat \ {0} /\ Head(Calls) = Calls[1] /\ Calls[1] \in ChainCall
      /\ Calls[1].op = "save"
  BY FirstCall DEF SaveOpens
<1>0. PICK e : e = Calls[1].entity
  OBVIOUS
<1>2. /\ files' = [files EXCEPT ![e] = Torn]
      /\ open' = [open EXCEPT !["chain"] = Written(e)]
      /\ UNCHANGED <<running, todo, known, listed, lastBlock, blocks, orphans, estimatedHeight,
                     connected, next, loadFailed, durable>>
  BY <1>0, <1>1 DEF SaveOpens, Calls, walletVars, chainVars, historyVars
<1>3. Calls' = Calls
  BY <1>2 DEF Calls
<1>4. files \in [Entity -> Height \cup {Unconfirmed, Absent, Torn}] /\ open \in [Actor -> Int]
  BY DEF FilesInv, OpenInv
<1>5. \/ \E t \in Tx : Calls[1] = Save(TxFile(t))
      \/ \E h \in 1..NetHeight : Calls[1] = Save(BlockFile(h))
  BY <1>1, ChainCallKinds
<1>6. 1 \in 1..Len(Calls)
  BY <1>1
<1>7. \A t \in Tx : Calls[1] = Save(TxFile(t)) => OnItsWay(t)
  BY <1>6 DEF OnItsWay
<1>8. \A h \in 1..NetHeight : Calls[1] = Save(BlockFile(h)) /\ ~loadFailed => KnownTo(h) /\ SavedTo(h)
  <2> SUFFICES ASSUME NEW h \in 1..NetHeight, Calls[1] = Save(BlockFile(h)), ~loadFailed
               PROVE  KnownTo(h) /\ SavedTo(h)
    OBVIOUS
  <2>1. h \in Height
    BY PersistenceAssumption DEF Height
  <2>2. KnownTo(h) /\ SavedBefore(1, h)
    BY <1>6, <2>1 DEF ChainInv
  <2>3. 1..(1 - 1) = {}
    OBVIOUS
  <2>4. QED
    BY <2>2, <2>3 DEF SavedBefore, SavedTo
<1>9. e \in Entity
  <2>1. 1..NetHeight \subseteq Height
    BY PersistenceAssumption DEF Height
  <2>2. QED
    BY <1>0, <1>5, <2>1, CallParts, EntityMembers
<1>10. /\ \A f \in Entity : files'[f] = IF f = e THEN Torn ELSE files[f]
       /\ files' \in [Entity -> Height \cup {Unconfirmed, Absent, Torn}]
  BY <1>2, <1>4, <1>9
<1>11. Written(e) \in Int /\ Written(e)' = Written(e)
  <2>1. \A t \in Tx : known[t] \in Int
    BY PersistenceAssumption DEF MemoryInv, Absent
  <2>2. CASE \E t \in Tx : e = TxFile(t)
    BY <1>2, <2>1, <2>2 DEF Written, TxFile
  <2>3. CASE \E h \in 1..NetHeight : e = BlockFile(h)
    BY <2>3 DEF Written, BlockFile
  <2>4. QED
    BY <1>0, <1>5, <2>2, <2>3, CallParts
<1>12. Torn # Absent /\ 0 \in Height /\ 1..NetHeight \subseteq Height
  BY PersistenceAssumption DEF Torn, Absent, Height
<1>13. FilesInv'
  <2>1. BlockFile(0) # e
    BY <1>0, <1>5, CallParts, FilesDiffer
  <2>2. QED
    BY <1>10, <1>12, <2>1, EntityMembers DEF FilesInv
<1>14. StoppedInv' /\ MemoryInv' /\ CallsInv'
  BY <1>1, <1>2, <1>3 DEF StoppedInv, MemoryInv, CallsInv
<1>15. OpenInv'
  <2>1. open' \in [Actor -> Int] /\ open'["chain"] = Written(e) /\ open'["peers"] = open["peers"]
    BY <1>2, <1>4, <1>11 DEF Actor
  <2>2. Ready("chain", "save")' /\ Head(todo'["chain"]).entity = e
    BY <1>0, <1>1, <1>2 DEF Ready, Idle, Calls
  <2>3. files'[e] = Torn
    BY <1>9, <1>10
  <2>4. Written(Head(todo["chain"]).entity)' = Written(e)'
    BY <2>2 DEF Written
  <2>5. OpenAt("chain")'
    BY <1>11, <2>1, <2>2, <2>3, <2>4 DEF OpenAt
  <2>6. \A p \in Peer : e # PeerFile(p)
    BY <1>0, <1>5, CallParts, FilesDiffer
  <2>7. \A p \in Peer : files'[PeerFile(p)] = files[PeerFile(p)]
    BY <1>10, <2>6, EntityMembers
  <2>8. OpenAt("peers")'
    BY <1>2, <2>1, <2>7, PeersStayOpen
  <2>9. QED
    BY <2>1, <2>5, <2>8 DEF OpenInv, Actor
<1>16. DiskInv'
  <2>1. \A t : OnItsWay(t)' = OnItsWay(t)
    BY <1>3 DEF OnItsWay
  <2>2. ASSUME NEW t \in Tx, t \in listed \/ known[t] \in 1..NetHeight
        PROVE  files'[TxFile(t)] = known[t] \/ OnItsWay(t)
    <3>1. CASE e = TxFile(t)
      <4>1. Calls[1] = Save(TxFile(t))
        BY <1>0, <1>1, <3>1, ChainSaveEntity
      <4>2. QED
        BY <1>7, <4>1
    <3>2. CASE e # TxFile(t)
      BY <1>10, <2>2, <3>2, EntityMembers DEF DiskInv
    <3>3. QED
      BY <3>1, <3>2
  <2>3. QED
    BY <1>2, <2>1, <2>2 DEF DiskInv
<1>17. ChainInv'
  <2>1. \A h : KnownTo(h)' = KnownTo(h)
    BY <1>2 DEF KnownTo
  <2>2. \A t \in Tx : files'[TxFile(t)] \in {files[TxFile(t)], Torn}
    BY <1>10, EntityMembers
  <2>3. \A h : SavedTo(h) => SavedTo(h)'
    BY <2>2 DEF SavedTo
  <2>4. \A h, i : SavedBefore(i, h) => SavedBefore(i, h)'
    BY <1>3, <2>2 DEF SavedBefore
  <2>5. ASSUME NEW h \in Height, ~loadFailed, files'[BlockFile(h)] # Absent
        PROVE  SavedTo(h) /\ KnownTo(h)
    <3>1. CASE e = BlockFile(h)
      <4>1. h \in 1..NetHeight /\ Calls[1] = Save(BlockFile(h))
        <5>1. Calls[1] = Save(e)
          BY <1>0, <1>1, ChainSaveEntity
        <5>2. PICK k \in 1..NetHeight : e = BlockFile(k)
          <6>1. (\E t \in Tx : e = TxFile(t)) \/ (\E k \in 1..NetHeight : e = BlockFile(k))
            BY <1>0, <1>1, ChainSaveEntity
          <6>2. QED
            BY <3>1, <6>1, FilesDiffer
        <5>3. QED
          BY <3>1, <5>1, <5>2, FilesDiffer
      <4>2. QED
        BY <1>8, <2>5, <4>1
    <3>2. CASE e # BlockFile(h)
      BY <1>1, <1>10, <2>5, <3>2, EntityMembers DEF ChainInv
    <3>3. QED
      BY <3>1, <3>2
  <2>6. QED
    BY <1>2, <1>3, <2>1, <2>3, <2>4, <2>5 DEF ChainInv
<1>18. DurableInv'
  BY <1>2, <1>10, <1>12, EntityMembers DEF DurableInv
<1>19. QED
  BY <1>13, <1>14, <1>15, <1>16, <1>17, <1>18

\* A call returns.  If it leaves each transaction's file as it was, or fills it with what
\* the wallet knows, or removes it when it is off the list, the disk still has what the
\* list, the blocks and the calls to come rest on.
LEMMA CallReturns ==
    ASSUME IInv, running, Calls # <<>>, Calls[1] # RescanCall,
           Calls' = Tail(Calls), todo'["peers"] = todo["peers"], todo' \in [Actor -> Seq(ChainCall \cup PeersCall)],
           UNCHANGED <<running, known, listed, blocks, orphans, next, loadFailed>>,
           \A t \in Tx : \/ files'[TxFile(t)] \in {files[TxFile(t)], known[t]}
                         \/ t \notin listed /\ known[t] = Unconfirmed,
           \A t \in Tx : Calls[1] = Save(TxFile(t)) => files'[TxFile(t)] = known[t],
           \A h \in Height : files'[BlockFile(h)] # Absent =>
              files[BlockFile(h)] # Absent \/ Calls[1] = Save(BlockFile(h))
    PROVE  CallsInv' /\ DiskInv' /\ ChainInv'
<1> USE DEF IInv
<1>1. Calls \in Seq(ChainCall)
  BY DEF CallsInv
<1>2. /\ Len(Calls) \in Nat \ {0} /\ Calls' \in Seq(ChainCall) /\ Len(Calls') = Len(Calls) - 1
      /\ \A i \in 1..Len(Calls') : Calls'[i] = Calls[i + 1]
  <2> HIDE DEF Calls
  <2>1. QED
    BY <1>1, TailCalls
<1>3. \A i \in 1..Len(Calls') : i + 1 \in 1..Len(Calls) /\ i + 1 # 1
  BY <1>2
<1>4. \A j \in 1..Len(Calls) : j # 1 => j - 1 \in 1..Len(Calls') /\ Calls'[j - 1] = Calls[j]
  BY <1>2
<1>5. CallsInv'
  <2>1. \A i \in 1..Len(Calls), t \in Tx :
          /\ Calls[i] = Save(TxFile(t)) => known[t] # Absent
          /\ Calls[i] = RemoveFile(TxFile(t)) => t \notin listed /\ known[t] = Unconfirmed
    BY DEF CallsInv
  <2>2. \A i \in 1..Len(Calls) : Calls[i] = RescanCall => i = 1
    BY DEF CallsInv
  <2>3. \A i \in 1..Len(Calls'), t \in Tx :
          /\ Calls'[i] = Save(TxFile(t)) => known'[t] # Absent
          /\ Calls'[i] = RemoveFile(TxFile(t)) => t \notin listed' /\ known'[t] = Unconfirmed
    BY <1>2, <1>3, <2>1
  <2>4. \A i \in 1..Len(Calls') : Calls'[i] # RescanCall
    BY <1>2, <1>3, <2>2
  <2>5. todo["peers"] \in Seq(PeersCall)
    BY DEF CallsInv
  <2>6. QED
    BY <1>2, <2>3, <2>4, <2>5 DEF CallsInv
<1>6. \A h : KnownTo(h)' = KnownTo(h)
  BY DEF KnownTo
<1>7. DiskInv'
  <2> SUFFICES ASSUME NEW t \in Tx, t \in listed \/ known[t] \in 1..NetHeight
               PROVE  files'[TxFile(t)] = known[t] \/ OnItsWay(t)'
    BY DEF DiskInv
  <2>1. Unconfirmed \notin 1..NetHeight
    BY PersistenceAssumption
  <2>2. CASE files'[TxFile(t)] = files[TxFile(t)] /\ files[TxFile(t)] # known[t]
    <3>1. PICK j \in 1..Len(Calls) : Calls[j] \in {Save(TxFile(t)), RescanCall}
      BY <2>2 DEF DiskInv, OnItsWay
    <3>2. CASE j = 1
      BY <3>1, <3>2
    <3>3. CASE j # 1
      BY <1>4, <3>1, <3>3 DEF OnItsWay
    <3>4. QED
      BY <3>2, <3>3
  <2>3. QED
    BY <2>1, <2>2
<1>8. ASSUME NEW h \in Height, NEW t \in Tx, TxHeight[t] <= h, KnownTo(h),
             files[TxFile(t)] \in {TxHeight[t], Torn}
      PROVE  files'[TxFile(t)] \in {TxHeight[t], Torn}
  <2>1. known[t] = TxHeight[t]
    BY <1>8 DEF KnownTo
  <2>2. known[t] # Unconfirmed
    BY <1>8, <2>1, PersistenceAssumption DEF Height
  <2>3. QED
    BY <1>8, <2>1, <2>2
<1>9. \A h \in Height : KnownTo(h) /\ SavedTo(h) => SavedTo(h)'
  BY <1>8 DEF SavedTo
<1>10. ASSUME NEW h \in Height, ~loadFailed, Calls[1] = Save(BlockFile(h))
       PROVE  KnownTo(h) /\ SavedTo(h)
  <2>1. 1 \in 1..Len(Calls) /\ 1..(1 - 1) = {}
    BY <1>2
  <2>2. KnownTo(h) /\ SavedBefore(1, h)
    BY <1>10, <2>1 DEF ChainInv
  <2>3. QED
    BY <2>1, <2>2 DEF SavedBefore, SavedTo
<1>11. ASSUME NEW h \in Height, ~loadFailed, files'[BlockFile(h)] # Absent
       PROVE  KnownTo(h) /\ SavedTo(h)'
  <2>1. CASE files[BlockFile(h)] # Absent
    BY <1>9, <1>11, <2>1 DEF ChainInv
  <2>2. CASE Calls[1] = Save(BlockFile(h))
    BY <1>9, <1>10, <1>11, <2>2
  <2>3. QED
    BY <1>11, <2>1, <2>2
<1>12. ASSUME NEW h \in Height, NEW i \in 1..Len(Calls'), ~loadFailed, Calls'[i] = Save(BlockFile(h))
       PROVE  KnownTo(h) /\ SavedBefore(i, h)'
  <2>1. i + 1 \in 1..Len(Calls) /\ Calls[i + 1] = Save(BlockFile(h))
    BY <1>2, <1>3, <1>12
  <2>2. KnownTo(h) /\ SavedBefore(i + 1, h)
    BY <1>12, <2>1 DEF ChainInv
  <2>3. ASSUME NEW t \in Tx, TxHeight[t] <= h
        PROVE  \/ files'[TxFile(t)] \in {TxHeight[t], Torn}
               \/ \E j \in 1..(i - 1) : Calls'[j] \in {Save(TxFile(t)), RescanCall}
    <3>1. CASE files[TxFile(t)] \in {TxHeight[t], Torn}
      BY <1>8, <2>2, <2>3, <3>1
    <3>2. CASE \E j \in 1..((i + 1) - 1) : Calls[j] \in {Save(TxFile(t)), RescanCall}
      <4>1. PICK j \in 1..((i + 1) - 1) : Calls[j] \in {Save(TxFile(t)), RescanCall}
        BY <3>2
      <4>2. CASE j = 1
        <5>1. files'[TxFile(t)] = known[t]
          BY <4>1, <4>2
        <5>2. QED
          BY <2>2, <2>3, <5>1 DEF KnownTo
      <4>3. CASE j # 1
        <5>1. j \in 1..Len(Calls) /\ j - 1 \in 1..(i - 1)
          BY <1>2, <4>3
        <5>2. QED
          BY <1>4, <4>1, <4>3, <5>1
      <4>4. QED
        BY <4>2, <4>3
    <3>3. QED
      BY <2>2, <2>3, <3>1, <3>2 DEF SavedBefore
  <2>4. QED
    BY <2>2, <2>3 DEF SavedBefore
<1>13. ChainInv'
  BY <1>6, <1>11, <1>12 DEF ChainInv
<1>14. QED
  BY <1>5, <1>7, <1>13

\* fclose: the file has what the wallet knows, or the block.
LEMMA ChainSaveCloses ==
    ASSUME IInv, SaveCloses("chain")
    PROVE  IInv'
<1> USE DEF IInv
<1>1. /\ running /\ Calls \in Seq(ChainCall) /\ Calls # <<>>
      /\ Len(Calls) \in Nat \ {0} /\ Head(Calls) = Calls[1] /\ Calls[1] \in ChainCall
      /\ Calls[1].op = "save"
  BY FirstCall DEF SaveCloses
<1>0. PICK e : e = Calls[1].entity
  OBVIOUS
<1>2. /\ files' = [files EXCEPT ![e] = open["chain"]]
      /\ open' = [open EXCEPT !["chain"] = Closed]
      /\ todo' = [todo EXCEPT !["chain"] = Tail(@)]
      /\ durable' = IF e[1] = "blocks" /\ Transition(e[2]) /\ e[2] > durable
                    THEN e[2] ELSE durable
      /\ UNCHANGED <<running, known, listed, lastBlock, blocks, orphans, estimatedHeight,
                     connected, next, loadFailed>>
      /\ open["chain"] # Closed
  BY <1>0, <1>1 DEF SaveCloses, Returns, Calls, walletVars, chainVars, historyVars
<1>3. /\ todo \in [Actor -> Seq(ChainCall \cup PeersCall)]
      /\ files \in [Entity -> Height \cup {Unconfirmed, Absent, Torn}] /\ open \in [Actor -> Int]
  BY DEF FilesInv, OpenInv, CallsInv
<1>4. Calls' = Tail(Calls) /\ todo'["peers"] = todo["peers"]
  BY <1>2, <1>3 DEF Calls, Actor
<1>5. todo' \in [Actor -> Seq(ChainCall \cup PeersCall)]
  <2>1. Tail(Calls) \in Seq(ChainCall)
    <3> HIDE DEF Calls
    <3>1. QED
      BY <1>1, TailCalls
  <2>2. Tail(Calls) \in Seq(ChainCall \cup PeersCall)
    BY <2>1
  <2>3. QED
    BY <1>2, <1>3, <2>2 DEF Calls
<1>6. Calls[1] = Save(e)
  BY <1>0, <1>1, ChainSaveEntity
<1>7. (\E t \in Tx : e = TxFile(t)) \/ (\E h \in 1..NetHeight : e = BlockFile(h))
  BY <1>0, <1>1, ChainSaveEntity
<1>8. open["chain"] = Written(e) /\ files[e] = Torn
  BY <1>0, <1>1, <1>2 DEF OpenInv, OpenAt, Actor, Calls
<1>9. Torn # Absent /\ 0 \in Height /\ 1..NetHeight \subseteq Height
  BY PersistenceAssumption DEF Torn, Absent, Height
<1>10. e \in Entity
  BY <1>7, <1>9, EntityMembers
<1>11. \A f \in Entity : files'[f] = IF f = e THEN Written(e) ELSE files[f]
  BY <1>2, <1>3, <1>8, <1>10
<1>12. \A t \in Tx : Written(TxFile(t)) = known[t]
  BY DEF Written, TxFile
<1>13. \A h : Written(BlockFile(h)) = 0
  BY DEF Written, BlockFile
<1>14. 1 \in 1..Len(Calls)
  BY <1>1
<1>15. \A t \in Tx : e = TxFile(t) => known[t] # Absent
  BY <1>6, <1>14 DEF CallsInv
<1>16. FilesInv'
  <2>1. BlockFile(0) # e
    BY <1>7, FilesDiffer
  <2>2. \A t \in Tx : known[t] \in 1..NetHeight \cup {Unconfirmed, Absent}
    BY DEF MemoryInv
  <2>3. Written(e) \in Height \cup {Unconfirmed, Absent, Torn}
    BY <1>7, <1>9, <1>12, <1>13, <2>2
  <2>4. files' \in [Entity -> Height \cup {Unconfirmed, Absent, Torn}]
    BY <1>2, <1>3, <1>8, <2>3
  <2>5. \A t \in Tx : files'[TxFile(t)] \in {files[TxFile(t)], known[t]}
    BY <1>11, <1>12, EntityMembers
  <2>6. QED
    BY <1>9, <1>11, <2>1, <2>2, <2>4, <2>5, EntityMembers DEF FilesInv
<1>17. StoppedInv' /\ MemoryInv'
  BY <1>1, <1>2 DEF StoppedInv, MemoryInv
<1>18. CallsInv' /\ DiskInv' /\ ChainInv'
  <2>1. Calls[1] # RescanCall
    BY <1>1, CallParts
  <2>2. \A t \in Tx : files'[TxFile(t)] \in {files[TxFile(t)], known[t]}
    BY <1>11, <1>12, EntityMembers
  <2>3. ASSUME NEW t \in Tx, Calls[1] = Save(TxFile(t))
        PROVE  files'[TxFile(t)] = known[t]
    <3>1. e = TxFile(t)
      BY <1>0, <2>3, CallParts
    <3>2. QED
      BY <1>11, <1>12, <3>1, EntityMembers
  <2>4. ASSUME NEW h \in Height, files'[BlockFile(h)] # Absent
        PROVE  files[BlockFile(h)] # Absent \/ Calls[1] = Save(BlockFile(h))
    BY <1>6, <1>11, <2>4, EntityMembers
  <2>5. QED
    BY <1>1, <1>2, <1>4, <1>5, <2>1, <2>2, <2>3, <2>4, CallReturns
<1>19. OpenInv'
  <2>1. open' \in [Actor -> Int] /\ open'["chain"] = Closed /\ open'["peers"] = open["peers"]
    BY <1>2, <1>3 DEF Actor, Closed
  <2>2. \A p \in Peer : e # PeerFile(p)
    BY <1>7, FilesDiffer
  <2>3. \A p \in Peer : files'[PeerFile(p)] = files[PeerFile(p)]
    BY <1>11, <2>2, EntityMembers
  <2>4. OpenAt("peers")'
    BY <1>2, <1>4, <2>1, <2>3, PeersStayOpen
  <2>5. OpenAt("chain")'
    BY <2>1 DEF OpenAt
  <2>6. QED
    BY <2>1, <2>4, <2>5 DEF OpenInv, Actor
<1>20. \A h \in Height : files[BlockFile(h)] # Absent => files'[BlockFile(h)] # Absent
  BY <1>11, <1>13, EntityMembers DEF Absent
<1>21. DurableInv'
  <2>1. CASE durable' = durable
    BY <1>20, <2>1 DEF DurableInv
  <2>2. CASE durable' # durable
    <3>1. e[1] = "blocks" /\ Transition(e[2]) /\ durable' = e[2]
      BY <1>2, <2>2
    <3>2. PICK h \in 1..NetHeight : e = BlockFile(h)
      BY <1>7, <3>1 DEF TxFile
    <3>3. e[2] = h
      BY <3>2 DEF BlockFile
    <3>4. files'[BlockFile(h)] # Absent
      BY <1>10, <1>11, <1>13, <3>2 DEF Absent
    <3>5. QED
      BY <1>9, <3>1, <3>3, <3>4 DEF DurableInv
  <2>3. QED
    BY <2>1, <2>2
<1>22. QED
  BY <1>16, <1>17, <1>18, <1>19, <1>21

\* A save that fails leaves its file; what was to come after waits behind the rescan.
LEMMA ChainSaveFails ==
    ASSUME IInv, SaveFails("chain")
    PROVE  IInv'
<1> USE DEF IInv
<1>1. /\ running /\ Calls \in Seq(ChainCall) /\ Calls # <<>>
      /\ Len(Calls) \in Nat \ {0} /\ Calls[1] \in ChainCall
      /\ Calls[1].op = "save"
  BY FirstCall DEF SaveFails
<1>2. /\ open' = [open EXCEPT !["chain"] = Closed]
      /\ todo' = [todo EXCEPT !["chain"] = <<RescanCall>> \o Tail(@)]
      /\ UNCHANGED <<files, running, known, listed, lastBlock, blocks, orphans, estimatedHeight,
                     connected, next, loadFailed, durable>>
  BY DEF SaveFails, FileClosed, walletVars, chainVars, historyVars
<1>3. todo \in [Actor -> Seq(ChainCall \cup PeersCall)] /\ open \in [Actor -> Int]
  BY DEF OpenInv, CallsInv
<1>4. Calls' = <<RescanCall>> \o Tail(Calls) /\ todo'["peers"] = todo["peers"]
  BY <1>2, <1>3 DEF Calls, Actor
<1>5. RescanCall \in ChainCall
  BY DEF ChainCall
<1>6. /\ Calls' \in Seq(ChainCall) /\ Len(Calls') = Len(Calls)
      /\ \A i \in 1..Len(Calls) : Calls'[i] = IF i = 1 THEN RescanCall ELSE Calls[i]
  <2> HIDE DEF Calls
  <2>1. QED
    BY <1>1, <1>4, <1>5, TailCalls
<1>7. 1 \in 1..Len(Calls') /\ Calls'[1] = RescanCall
  BY <1>1, <1>6
<1>8. FilesInv' /\ StoppedInv' /\ MemoryInv' /\ DurableInv'
  BY <1>1, <1>2 DEF FilesInv, StoppedInv, MemoryInv, DurableInv
<1>9. CallsInv'
  <2>1. todo' \in [Actor -> Seq(ChainCall \cup PeersCall)]
    <3>1. Calls' \in Seq(ChainCall \cup PeersCall)
      BY <1>6
    <3>2. QED
      BY <1>2, <1>3, <3>1 DEF Calls, Actor
  <2>2. \A i \in 1..Len(Calls), t \in Tx :
          /\ Calls[i] = Save(TxFile(t)) => known[t] # Absent
          /\ Calls[i] = RemoveFile(TxFile(t)) => t \notin listed /\ known[t] = Unconfirmed
    BY DEF CallsInv
  <2>3. \A i \in 1..Len(Calls) : Calls[i] = RescanCall => i = 1
    BY DEF CallsInv
  <2>4. \A i \in 1..Len(Calls'), t \in Tx :
          /\ Calls'[i] = Save(TxFile(t)) => known'[t] # Absent
          /\ Calls'[i] = RemoveFile(TxFile(t)) => t \notin listed' /\ known'[t] = Unconfirmed
    BY <1>2, <1>6, <2>2, CallsDiffer
  <2>5. \A i \in 1..Len(Calls') : Calls'[i] = RescanCall => i = 1
    BY <1>6, <2>3
  <2>6. todo["peers"] \in Seq(PeersCall)
    BY DEF CallsInv
  <2>7. QED
    BY <1>4, <1>6, <2>1, <2>4, <2>5, <2>6 DEF CallsInv
<1>10. OpenInv'
  <2>1. open' \in [Actor -> Int] /\ open'["chain"] = Closed /\ open'["peers"] = open["peers"]
    BY <1>2, <1>3 DEF Actor, Closed
  <2>2. OpenAt("peers")'
    BY <1>2, <1>4, <2>1, PeersStayOpen
  <2>3. OpenAt("chain")'
    BY <2>1 DEF OpenAt
  <2>4. QED
    BY <2>1, <2>2, <2>3 DEF OpenInv, Actor
<1>11. DiskInv'
  BY <1>7 DEF DiskInv, OnItsWay
<1>12. ChainInv'
  <2>1. \A h : KnownTo(h)' = KnownTo(h) /\ SavedTo(h)' = SavedTo(h)
    BY <1>2 DEF KnownTo, SavedTo
  <2>2. ASSUME NEW h \in Height, NEW i \in 1..Len(Calls'), ~loadFailed, Calls'[i] = Save(BlockFile(h))
        PROVE  KnownTo(h) /\ SavedBefore(i, h)'
    <3>1. i # 1 /\ i \in 1..Len(Calls) /\ Calls[i] = Save(BlockFile(h))
      BY <1>6, <1>7, <2>2, CallsDiffer
    <3>2. 1 \in 1..(i - 1)
      BY <3>1
    <3>3. KnownTo(h)
      BY <2>2, <3>1 DEF ChainInv
    <3>4. QED
      BY <1>7, <3>2, <3>3 DEF SavedBefore
  <2>3. QED
    BY <1>2, <2>1, <2>2 DEF ChainInv
<1>13. QED
  BY <1>8, <1>9, <1>10, <1>11, <1>12

\* remove() of a transaction that is off the list; clear removes nothing.
LEMMA ChainRemoves ==
    ASSUME IInv, Removes("chain")
    PROVE  IInv'
<1> USE DEF IInv
<1>1. \/ Ready("chain", "remove") /\ files' = [files EXCEPT ![Head(Calls).entity] = Absent]
      \/ Ready("chain", "clear") /\ files' = files
  BY DEF Removes, Cleared, Calls
<1>2. /\ running /\ Calls \in Seq(ChainCall) /\ Calls # <<>>
      /\ Len(Calls) \in Nat \ {0} /\ Head(Calls) = Calls[1] /\ Calls[1] \in ChainCall
      /\ Calls[1].op \in {"remove", "clear"}
  BY <1>1, FirstCall
<1>3. /\ todo' = [todo EXCEPT !["chain"] = Tail(@)]
      /\ UNCHANGED <<running, open, known, listed, lastBlock, blocks, orphans, estimatedHeight,
                     connected, next, loadFailed, durable>>
  BY DEF Removes, Returns, walletVars, chainVars, historyVars
<1>4. /\ todo \in [Actor -> Seq(ChainCall \cup PeersCall)]
      /\ files \in [Entity -> Height \cup {Unconfirmed, Absent, Torn}]
  BY DEF FilesInv, CallsInv
<1>5. Calls' = Tail(Calls) /\ todo'["peers"] = todo["peers"]
  BY <1>3, <1>4 DEF Calls, Actor
<1>6. todo' \in [Actor -> Seq(ChainCall \cup PeersCall)]
  <2>1. Tail(Calls) \in Seq(ChainCall)
    <3> HIDE DEF Calls
    <3>1. QED
      BY <1>2, TailCalls
  <2>2. Tail(Calls) \in Seq(ChainCall \cup PeersCall)
    BY <2>1
  <2>3. QED
    BY <1>3, <1>4, <2>2 DEF Calls
<1>7. open["chain"] = Closed
  <2>1. ~Ready("chain", "save")
    BY <1>2 DEF Ready, Calls
  <2>2. QED
    BY <2>1 DEF OpenInv, OpenAt, Actor
<1>8. 1 \in 1..Len(Calls)
  BY <1>2
<1>9. \/ files' = files
      \/ \E t \in Tx : /\ files' = [files EXCEPT ![TxFile(t)] = Absent]
                       /\ t \notin listed /\ known[t] = Unconfirmed
  <2>1. CASE Ready("chain", "remove") /\ files' = [files EXCEPT ![Head(Calls).entity] = Absent]
    <3>1. Calls[1].op = "remove"
      BY <2>1, FirstCall
    <3>2. PICK t \in Tx : Calls[1] = RemoveFile(TxFile(t))
      BY <1>2, <3>1, ChainCallKinds
    <3>3. Head(Calls).entity = TxFile(t)
      BY <1>2, <3>2, CallParts
    <3>4. t \notin listed /\ known[t] = Unconfirmed
      BY <1>8, <3>2 DEF CallsInv
    <3>5. QED
      BY <2>1, <3>3, <3>4
  <2>2. QED
    BY <1>1, <2>1
<1>10. /\ \A h \in Height : files'[BlockFile(h)] = files[BlockFile(h)]
       /\ \A p \in Peer : files'[PeerFile(p)] = files[PeerFile(p)]
       /\ \A t \in Tx : \/ files'[TxFile(t)] = files[TxFile(t)]
                        \/ t \notin listed /\ known[t] = Unconfirmed
       /\ \A t \in Tx : files'[TxFile(t)] \in {files[TxFile(t)], Absent}
       /\ files' \in [Entity -> Height \cup {Unconfirmed, Absent, Torn}]
  <2>1. CASE files' = files
    BY <1>4, <2>1
  <2>2. ASSUME NEW t \in Tx, files' = [files EXCEPT ![TxFile(t)] = Absent],
               t \notin listed /\ known[t] = Unconfirmed
        PROVE  <1>10!:
    <3>1. \A f \in Entity : files'[f] = IF f = TxFile(t) THEN Absent ELSE files[f]
      BY <1>4, <2>2, EntityMembers
    <3>2. files' \in [Entity -> Height \cup {Unconfirmed, Absent, Torn}]
      BY <1>4, <2>2
    <3>3. \A u \in Tx : TxFile(u) = TxFile(t) => u = t
      BY FilesDiffer
    <3>4. \A h \in Height : files'[BlockFile(h)] = files[BlockFile(h)]
      BY <3>1, FilesDiffer, EntityMembers
    <3>5. \A p \in Peer : files'[PeerFile(p)] = files[PeerFile(p)]
      BY <3>1, FilesDiffer, EntityMembers
    <3>6. QED
      BY <2>2, <3>1, <3>2, <3>3, <3>4, <3>5, EntityMembers
  <2>3. QED
    BY <1>9, <2>1, <2>2
<1>11. 0 \in Height
  BY PersistenceAssumption DEF Height
<1>12. FilesInv'
  BY <1>10, <1>11 DEF FilesInv
<1>13. StoppedInv' /\ MemoryInv' /\ DurableInv'
  BY <1>2, <1>3, <1>10 DEF StoppedInv, MemoryInv, DurableInv
<1>14. OpenInv'
  <2>1. OpenAt("peers")'
    BY <1>3, <1>5, <1>10, PeersStayOpen
  <2>2. OpenAt("chain")'
    BY <1>3, <1>7 DEF OpenAt
  <2>3. QED
    BY <1>3, <2>1, <2>2 DEF OpenInv, Actor
<1>15. CallsInv' /\ DiskInv' /\ ChainInv'
  <2>1. Calls[1] # RescanCall /\ \A t \in Tx : Calls[1] # Save(TxFile(t))
    BY <1>2, CallParts
  <2>2. QED
    BY <1>2, <1>3, <1>5, <1>6, <1>10, <2>1, CallReturns
<1>16. QED
  BY <1>12, <1>13, <1>14, <1>15

-----------------------------------------------------------------------------
(* Steps that touch neither the handlers' calls nor the files of transactions and blocks. *)

LEMMA ChainUntouched ==
    ASSUME IInv, running, running' = running,
           todo' \in [Actor -> Seq(ChainCall \cup PeersCall)],
           todo'["chain"] = todo["chain"], todo'["peers"] \in Seq(PeersCall),
           files' \in [Entity -> Height \cup {Unconfirmed, Absent, Torn}],
           \A t \in Tx : files'[TxFile(t)] = files[TxFile(t)],
           \A h \in Height : files'[BlockFile(h)] = files[BlockFile(h)],
           open' \in [Actor -> Int], open'["chain"] = open["chain"], OpenAt("peers")',
           UNCHANGED <<known, listed, blocks, loadFailed, durable>>,
           next' \subseteq next, orphans' \subseteq orphans \cup next,
           lastBlock' \in {lastBlock, 0}, connected' \in BOOLEAN,
           estimatedHeight' \in Nat, estimatedHeight' >= estimatedHeight,
           connected' => connected \/ estimatedHeight' >= 2 * BLOCK_DIFFICULTY_INTERVAL
    PROVE  IInv'
<1> USE DEF IInv
<1>1. Calls' = Calls
  BY DEF Calls
<1>2. 0 \in Height
  BY PersistenceAssumption DEF Height
<1>3. FilesInv' /\ DurableInv' /\ StoppedInv'
  BY <1>2 DEF FilesInv, DurableInv, StoppedInv
<1>4. MemoryInv'
  <2>1. connected' \/ next' # {} => estimatedHeight' >= 2 * BLOCK_DIFFICULTY_INTERVAL
    BY PersistenceAssumption DEF MemoryInv
  <2>2. QED
    BY <2>1 DEF MemoryInv
<1>5. CallsInv'
  BY <1>1 DEF CallsInv
<1>6. OpenInv'
  <2>1. OpenAt("chain")'
    BY ChainStaysOpen
  <2>2. QED
    BY <2>1 DEF OpenInv, Actor
<1>7. DiskInv'
  BY <1>1 DEF DiskInv, OnItsWay
<1>8. ChainInv'
  <2>1. \A h : KnownTo(h)' = KnownTo(h) /\ SavedTo(h)' = SavedTo(h)
    BY DEF KnownTo, SavedTo
  <2>2. \A h, i : SavedBefore(i, h)' = SavedBefore(i, h)
    BY <1>1 DEF SavedBefore
  <2>3. QED
    BY <1>1, <2>1, <2>2 DEF ChainInv
<1>9. QED
  BY <1>3, <1>4, <1>5, <1>6, <1>7, <1>8

\* The peers' actor reads and writes files of its own only.
LEMMA PeersFirstCall ==
    ASSUME IInv, NEW op, Ready("peers", op)
    PROVE  /\ running /\ todo["peers"] \in Seq(PeersCall) /\ todo["peers"] # <<>>
           /\ Head(todo["peers"]) \in PeersCall /\ Head(todo["peers"]).op = op
           /\ Tail(todo["peers"]) \in Seq(PeersCall)
           /\ <<RescanCall>> \o Tail(todo["peers"]) \in Seq(PeersCall)
<1>1. todo["peers"] \in Seq(PeersCall)
  BY DEF IInv, CallsInv
<1>2. running /\ todo["peers"] # <<>> /\ Head(todo["peers"]).op = op
  BY DEF Ready, Idle
<1>3. RescanCall \in PeersCall
  BY DEF PeersCall
<1>4. QED
  BY <1>1, <1>2, <1>3, TailCalls

\* new calls of the peers' actor
LEMMA PeersTodo ==
    ASSUME IInv, NEW s \in Seq(PeersCall), todo' = [todo EXCEPT !["peers"] = s]
    PROVE  /\ todo' \in [Actor -> Seq(ChainCall \cup PeersCall)]
           /\ todo'["chain"] = todo["chain"] /\ todo'["peers"] = s
<1>1. todo \in [Actor -> Seq(ChainCall \cup PeersCall)]
  BY DEF IInv, CallsInv
<1>2. s \in Seq(ChainCall \cup PeersCall)
  OBVIOUS
<1>3. QED
  BY <1>1, <1>2 DEF Actor

\* a new content of a peer's file
LEMMA PeersFile ==
    ASSUME IInv, NEW p \in Peer, NEW v \in {0, Torn}, files' = [files EXCEPT ![PeerFile(p)] = v]
    PROVE  /\ files' \in [Entity -> Height \cup {Unconfirmed, Absent, Torn}]
           /\ files'[PeerFile(p)] = v
           /\ \A t \in Tx : files'[TxFile(t)] = files[TxFile(t)]
           /\ \A h \in Height : files'[BlockFile(h)] = files[BlockFile(h)]
<1>1. files \in [Entity -> Height \cup {Unconfirmed, Absent, Torn}]
  BY DEF IInv, FilesInv
<1>2. 0 \in Height
  BY PersistenceAssumption DEF Height
<1>3. \A f \in Entity : files'[f] = IF f = PeerFile(p) THEN v ELSE files[f]
  BY <1>1, EntityMembers
<1>4. files' \in [Entity -> Height \cup {Unconfirmed, Absent, Torn}]
  BY <1>1, <1>2
<1>5. \A t \in Tx : files'[TxFile(t)] = files[TxFile(t)]
  BY <1>3, EntityMembers, FilesDiffer
<1>6. \A h \in Height : files'[BlockFile(h)] = files[BlockFile(h)]
  BY <1>3, EntityMembers, FilesDiffer
<1>7. QED
  BY <1>3, <1>4, <1>5, <1>6, EntityMembers

LEMMA PeersFileStep ==
    ASSUME IInv, FileStep("peers")
    PROVE  IInv'
<1>1. /\ todo \in [Actor -> Seq(ChainCall \cup PeersCall)] /\ todo["peers"] \in Seq(PeersCall)
      /\ files \in [Entity -> Height \cup {Unconfirmed, Absent, Torn}]
      /\ open \in [Actor -> Int]
  BY DEF IInv, CallsInv, FilesInv, OpenInv
<1>2. connected \in BOOLEAN /\ estimatedHeight \in Nat
  BY DEF IInv, MemoryInv
<1>3. CASE SaveOpens("peers")
  <2>1. running /\ Head(todo["peers"]) \in PeersCall /\ Head(todo["peers"]).op = "save"
    BY <1>3, PeersFirstCall DEF SaveOpens
  <2>2. PICK p \in Peer : Head(todo["peers"]) = Save(PeerFile(p))
    BY <2>1, PeersCallKinds
  <2>3. Head(todo["peers"]).entity = PeerFile(p)
    BY <2>2, CallParts
  <2>4. Written(PeerFile(p)) = 0
    BY DEF Written, PeerFile
  <2>5. /\ files' = [files EXCEPT ![PeerFile(p)] = Torn]
        /\ open' = [open EXCEPT !["peers"] = 0]
        /\ UNCHANGED <<running, todo, known, listed, lastBlock, blocks, orphans, estimatedHeight,
                       connected, next, loadFailed, durable>>
    BY <1>3, <2>3, <2>4 DEF SaveOpens, walletVars, chainVars, historyVars
  <2>6. open' \in [Actor -> Int] /\ open'["peers"] = 0 /\ open'["chain"] = open["chain"]
    BY <1>1, <2>5 DEF Actor
  <2>7. Written(Head(todo["peers"]).entity)' = 0
    BY <2>3, <2>5 DEF Written, PeerFile
  <2>8. Ready("peers", "save")'
    BY <1>3, <2>5 DEF SaveOpens, Ready, Idle
  <2>9. files'[PeerFile(p)] = Torn
    BY <2>5, PeersFile
  <2>10. OpenAt("peers")'
    BY <2>3, <2>5, <2>6, <2>7, <2>8, <2>9 DEF OpenAt
  <2>11. /\ files' \in [Entity -> Height \cup {Unconfirmed, Absent, Torn}]
         /\ \A t \in Tx : files'[TxFile(t)] = files[TxFile(t)]
         /\ \A h \in Height : files'[BlockFile(h)] = files[BlockFile(h)]
    BY <2>5, PeersFile
  <2>12. QED
    BY <1>1, <1>2, <2>1, <2>5, <2>6, <2>10, <2>11, ChainUntouched
<1>4. CASE SaveCloses("peers")
  <2>1. /\ running /\ Head(todo["peers"]) \in PeersCall /\ Head(todo["peers"]).op = "save"
        /\ Tail(todo["peers"]) \in Seq(PeersCall)
    BY <1>4, PeersFirstCall DEF SaveCloses
  <2>2. PICK p \in Peer : Head(todo["peers"]) = Save(PeerFile(p))
    BY <2>1, PeersCallKinds
  <2>3. Head(todo["peers"]).entity = PeerFile(p)
    BY <2>2, CallParts
  <2>4. open["peers"] = 0
    <3>1. open["peers"] = Written(Head(todo["peers"]).entity)
      BY <1>4 DEF SaveCloses, IInv, OpenInv, OpenAt, Actor
    <3>2. QED
      BY <2>3, <3>1 DEF Written, PeerFile
  <2>5. /\ files' = [files EXCEPT ![PeerFile(p)] = 0]
        /\ open' = [open EXCEPT !["peers"] = Closed]
        /\ todo' = [todo EXCEPT !["peers"] = Tail(todo["peers"])]
        /\ UNCHANGED <<running, known, listed, lastBlock, blocks, orphans, estimatedHeight,
                       connected, next, loadFailed>>
    BY <1>4, <2>3, <2>4 DEF SaveCloses, Returns, walletVars, chainVars
  <2>6. durable' = durable
    BY <1>4, <2>3 DEF SaveCloses, PeerFile
  <2>7. open' \in [Actor -> Int] /\ open'["peers"] = Closed /\ open'["chain"] = open["chain"]
    BY <1>1, <2>5 DEF Actor, Closed
  <2>8. OpenAt("peers")'
    BY <2>7 DEF OpenAt
  <2>9. /\ files' \in [Entity -> Height \cup {Unconfirmed, Absent, Torn}]
        /\ \A t \in Tx : files'[TxFile(t)] = files[TxFile(t)]
        /\ \A h \in Height : files'[BlockFile(h)] = files[BlockFile(h)]
    BY <2>5, PeersFile
  <2>10. /\ todo' \in [Actor -> Seq(ChainCall \cup PeersCall)]
         /\ todo'["chain"] = todo["chain"] /\ todo'["peers"] \in Seq(PeersCall)
    BY <2>1, <2>5, PeersTodo
  <2>11. QED
    BY <1>2, <2>1, <2>5, <2>6, <2>7, <2>8, <2>9, <2>10, ChainUntouched
<1>5. CASE SaveFails("peers")
  <2>1. running /\ <<RescanCall>> \o Tail(todo["peers"]) \in Seq(PeersCall)
    BY <1>5, PeersFirstCall DEF SaveFails
  <2>2. /\ open' = [open EXCEPT !["peers"] = Closed]
        /\ todo' = [todo EXCEPT !["peers"] = <<RescanCall>> \o Tail(todo["peers"])]
        /\ UNCHANGED <<files, running, known, listed, lastBlock, blocks, orphans, estimatedHeight,
                       connected, next, loadFailed, durable>>
    BY <1>5 DEF SaveFails, FileClosed, walletVars, chainVars, historyVars
  <2>3. open' \in [Actor -> Int] /\ open'["peers"] = Closed /\ open'["chain"] = open["chain"]
    BY <1>1, <2>2 DEF Actor, Closed
  <2>4. OpenAt("peers")'
    BY <2>3 DEF OpenAt
  <2>5. /\ todo' \in [Actor -> Seq(ChainCall \cup PeersCall)]
        /\ todo'["chain"] = todo["chain"] /\ todo'["peers"] \in Seq(PeersCall)
    BY <2>1, <2>2, PeersTodo
  <2>6. QED
    BY <1>1, <1>2, <2>1, <2>2, <2>3, <2>4, <2>5, ChainUntouched
<1>6. CASE HandlerRescans("peers")
  <2>1. /\ running /\ Tail(todo["peers"]) \in Seq(PeersCall) /\ Head(todo["peers"]).op = "rescan"
    BY <1>6, PeersFirstCall DEF HandlerRescans
  <2>2. /\ todo' = [todo EXCEPT !["peers"] = Tail(todo["peers"])]
        /\ UNCHANGED <<files, running, open, known, listed, blocks, orphans, estimatedHeight,
                       connected, next, loadFailed, durable>>
        /\ lastBlock' \in {lastBlock, 0}
    BY <1>6 DEF HandlerRescans, Returns, RescanEffect, walletVars, historyVars
  <2>3. open["peers"] = Closed
    <3>1. ~Ready("peers", "save")
      BY <2>1 DEF Ready
    <3>2. QED
      BY <3>1 DEF IInv, OpenInv, OpenAt, Actor
  <2>4. OpenAt("peers")'
    BY <2>2, <2>3 DEF OpenAt
  <2>5. /\ todo' \in [Actor -> Seq(ChainCall \cup PeersCall)]
        /\ todo'["chain"] = todo["chain"] /\ todo'["peers"] \in Seq(PeersCall)
    BY <2>1, <2>2, PeersTodo
  <2>6. QED
    BY <1>1, <1>2, <2>1, <2>2, <2>4, <2>5, ChainUntouched
<1>7. CASE Removes("peers")
  <2>1. Ready("peers", "clear") /\ files' = files
    <3>1. ~Ready("peers", "remove")
      BY PeersFirstCall, PeersCallKinds
    <3>2. QED
      BY <1>7, <3>1 DEF Removes, Cleared
  <2>2. /\ running /\ Tail(todo["peers"]) \in Seq(PeersCall) /\ Head(todo["peers"]).op = "clear"
    BY <2>1, PeersFirstCall
  <2>3. /\ todo' = [todo EXCEPT !["peers"] = Tail(todo["peers"])]
        /\ UNCHANGED <<running, open, known, listed, lastBlock, blocks, orphans, estimatedHeight,
                       connected, next, loadFailed, durable>>
    BY <1>7 DEF Removes, Returns, walletVars, chainVars, historyVars
  <2>4. open["peers"] = Closed
    <3>1. ~Ready("peers", "save")
      BY <2>2 DEF Ready
    <3>2. QED
      BY <3>1 DEF IInv, OpenInv, OpenAt, Actor
  <2>5. OpenAt("peers")'
    BY <2>3, <2>4 DEF OpenAt
  <2>6. /\ todo' \in [Actor -> Seq(ChainCall \cup PeersCall)]
        /\ todo'["chain"] = todo["chain"] /\ todo'["peers"] \in Seq(PeersCall)
    BY <2>2, <2>3, PeersTodo
  <2>7. QED
    BY <1>1, <1>2, <2>1, <2>2, <2>3, <2>5, <2>6, ChainUntouched
<1>8. QED
  BY <1>3, <1>4, <1>5, <1>6, <1>7 DEF FileStep

LEMMA ChainFileStep ==
    ASSUME IInv, FileStep("chain")
    PROVE  IInv'
<1>1. ~HandlerRescans("chain")
  BY DEF HandlerRescans, Ready, Unlocked
<1>2. QED
  BY <1>1, ChainSaveOpens, ChainSaveCloses, ChainSaveFails, ChainRemoves DEF FileStep

\* The peers come and go, and the application rescans.
LEMMA PeersComeAndGo ==
    ASSUME IInv,
           PeerConnected \/ PeerDisconnected \/ Rescan \/ \E p \in Peer : RelayedPeers(p)
    PROVE  IInv'
<1>1. /\ todo \in [Actor -> Seq(ChainCall \cup PeersCall)] /\ todo["peers"] \in Seq(PeersCall)
      /\ files \in [Entity -> Height \cup {Unconfirmed, Absent, Torn}]
      /\ open \in [Actor -> Int]
  BY DEF IInv, CallsInv, FilesInv, OpenInv
<1>2. connected \in BOOLEAN /\ estimatedHeight \in Nat
  BY DEF IInv, MemoryInv
<1>3. /\ running /\ todo["chain"] = <<>>
      /\ UNCHANGED <<files, running, open, known, listed, blocks, orphans, next, loadFailed, durable>>
  BY DEF PeerConnected, PeerDisconnected, Rescan, RelayedPeers, Unlocked, Idle, walletVars,
         chainVars, historyVars
<1>4. CASE todo' = todo
  <2>1. OpenAt("peers")'
    BY <1>3, <1>4, PeersStayOpen
  <2>2. lastBlock' \in {lastBlock, 0}
    BY DEF PeerConnected, PeerDisconnected, Rescan, RelayedPeers, RescanEffect, chainVars
  <2>3. connected' \in BOOLEAN
    BY <1>2 DEF PeerConnected, PeerDisconnected, Rescan, RelayedPeers, chainVars
  <2>4. CASE PeerConnected
    <3>1. PICK n \in PeerLastBlock :
             estimatedHeight' = IF n > estimatedHeight THEN n ELSE estimatedHeight
      BY <2>4 DEF PeerConnected
    <3>2. n \in Nat /\ n >= 2 * BLOCK_DIFFICULTY_INTERVAL
      BY PersistenceAssumption
    <3>3. /\ estimatedHeight' \in Nat /\ estimatedHeight' >= estimatedHeight
          /\ estimatedHeight' >= 2 * BLOCK_DIFFICULTY_INTERVAL
      BY <1>2, <3>1, <3>2, PersistenceAssumption
    <3>4. QED
      BY <1>1, <1>3, <1>4, <2>1, <2>2, <2>3, <3>3, ChainUntouched
  <2>5. CASE ~PeerConnected
    <3>1. estimatedHeight' = estimatedHeight /\ (connected' => connected)
      BY <2>5 DEF PeerDisconnected, Rescan, RelayedPeers, chainVars
    <3>2. estimatedHeight' \in Nat /\ estimatedHeight' >= estimatedHeight
      BY <1>2, <3>1
    <3>3. QED
      BY <1>1, <1>3, <1>4, <2>1, <2>2, <2>3, <3>1, <3>2, ChainUntouched
  <2>6. QED
    BY <2>4, <2>5
<1>5. CASE todo' # todo
  <2>1. /\ todo["peers"] = <<>>
        /\ lastBlock' = lastBlock /\ estimatedHeight' = estimatedHeight
        /\ connected' \in BOOLEAN /\ (connected' => connected)
    BY <1>2, <1>5 DEF PeerConnected, PeerDisconnected, Rescan, RelayedPeers, Idle, chainVars
  <2>2. \E s \in Seq(PeersCall) : todo' = [todo EXCEPT !["peers"] = s]
    <3>1. Clear("peers") \in PeersCall /\ \A p \in Peer : Save(PeerFile(p)) \in PeersCall
      BY DEF PeersCall
    <3>2. <<Clear("peers")>> \in Seq(PeersCall)
      BY <3>1
    <3>3. \A p \in Peer : <<Clear("peers"), Save(PeerFile(p))>> \in Seq(PeersCall)
      BY <3>1
    <3>4. CASE PeerDisconnected
      BY <1>5, <3>2, <3>4 DEF PeerDisconnected
    <3>5. CASE \E p \in Peer : RelayedPeers(p)
      BY <3>3, <3>5 DEF RelayedPeers
    <3>6. QED
      BY <1>5, <3>4, <3>5 DEF PeerConnected, Rescan
  <2>3. /\ todo' \in [Actor -> Seq(ChainCall \cup PeersCall)]
        /\ todo'["chain"] = todo["chain"] /\ todo'["peers"] \in Seq(PeersCall)
    BY <2>2, PeersTodo
  <2>4. open["peers"] = Closed
    BY <2>1, IdleClosed DEF Actor
  <2>5. OpenAt("peers")'
    BY <1>3, <2>4 DEF OpenAt
  <2>6. QED
    BY <1>1, <1>2, <1>3, <2>1, <2>3, <2>5, ChainUntouched
<1>6. QED
  BY <1>4, <1>5

-----------------------------------------------------------------------------
(* The handlers under manager->lock, which make their calls when they are done. *)

\* A handler that takes the lock finds no call under way, and its calls are c.
LEMMA ChainIssues ==
    ASSUME IInv, Unlocked, NEW c \in Seq(ChainCall), todo' = [todo EXCEPT !["chain"] = c],
           UNCHANGED <<files, running, open>>
    PROVE  /\ running /\ running' /\ Calls = <<>> /\ Calls' = c
           /\ todo' \in [Actor -> Seq(ChainCall \cup PeersCall)]
           /\ todo'["peers"] \in Seq(PeersCall)
           /\ \A t : ~OnItsWay(t)
           /\ FilesInv' /\ StoppedInv' /\ OpenInv'
<1>1. running /\ running' /\ Calls = <<>>
  BY DEF Unlocked, Idle, Calls
<1>2. todo \in [Actor -> Seq(ChainCall \cup PeersCall)] /\ todo["peers"] \in Seq(PeersCall)
  BY DEF IInv, CallsInv
<1>3. c \in Seq(ChainCall \cup PeersCall)
  OBVIOUS
<1>4. /\ todo' \in [Actor -> Seq(ChainCall \cup PeersCall)]
      /\ todo'["chain"] = c /\ todo'["peers"] = todo["peers"]
  BY <1>2, <1>3 DEF Actor
<1>5. \A t : ~OnItsWay(t)
  <2>1. 1..Len(Calls) = {}
    BY <1>1
  <2>2. QED
    BY <2>1 DEF OnItsWay
<1>6. FilesInv' /\ StoppedInv'
  BY <1>1 DEF IInv, FilesInv, StoppedInv
<1>7. OpenInv'
  <2>1. open["chain"] = Closed
    BY <1>1, IdleClosed DEF Actor, Calls
  <2>2. OpenAt("chain")'
    BY <2>1 DEF OpenAt
  <2>3. OpenAt("peers")'
    BY <1>4, PeersStayOpen
  <2>4. QED
    BY <2>2, <2>3 DEF IInv, OpenInv, Actor
<1>8. QED
  BY <1>1, <1>2, <1>4, <1>5, <1>6, <1>7 DEF Calls

\* A transaction that is relayed is above every block that has come or is on disk.
LEMMA RelayedTxKeeps ==
    ASSUME IInv, NEW t \in Tx, RelayedTx(t)
    PROVE  IInv'
<1> USE DEF IInv
<1>0. PICK c : c = <<Save(TxFile(t))>>
  OBVIOUS
<1>1. c \in Seq(ChainCall) /\ Len(c) = 1 /\ c[1] = Save(TxFile(t))
  BY <1>0 DEF ChainCall
<1>2. /\ Unlocked /\ known[t] = Absent
      /\ known' = [known EXCEPT ![t] = Unconfirmed] /\ listed' = listed \cup {t}
      /\ todo' = [todo EXCEPT !["chain"] = c]
      /\ UNCHANGED <<files, running, open, lastBlock, blocks, orphans, estimatedHeight, connected,
                     next, loadFailed, durable>>
  BY <1>0 DEF RelayedTx, TxAdded, chainVars, historyVars
<1>3. /\ running /\ running' /\ Calls = <<>> /\ Calls' = c
      /\ todo' \in [Actor -> Seq(ChainCall \cup PeersCall)]
      /\ todo'["peers"] \in Seq(PeersCall)
      /\ \A x : ~OnItsWay(x)
      /\ FilesInv' /\ StoppedInv' /\ OpenInv'
  BY <1>1, <1>2, ChainIssues
<1>13. Len(Calls') = 1 /\ Calls'[1] = Save(TxFile(t))
  BY <1>1, <1>3, Zenon
<1>4. known \in [Tx -> 1..NetHeight \cup {Unconfirmed, Absent}]
  BY DEF MemoryInv
<1>5. Unconfirmed # Absent /\ Unconfirmed \notin 1..NetHeight
  BY PersistenceAssumption DEF Absent
<1>6. /\ known' \in [Tx -> 1..NetHeight \cup {Unconfirmed, Absent}]
      /\ \A x \in Tx : known'[x] = IF x = t THEN Unconfirmed ELSE known[x]
  BY <1>2, <1>4
<1>7. MemoryInv'
  BY <1>2, <1>5, <1>6 DEF MemoryInv
<1>8. CallsInv'
  <2>1. \A i \in 1..Len(Calls') : Calls'[i] = Save(TxFile(t))
    BY <1>13
  <2>2. \A i \in 1..Len(Calls'), x \in Tx :
          /\ Calls'[i] = Save(TxFile(x)) => known'[x] # Absent
          /\ Calls'[i] = RemoveFile(TxFile(x)) => x \notin listed' /\ known'[x] = Unconfirmed
    BY <1>5, <1>6, <2>1, CallsDiffer
  <2>3. \A i \in 1..Len(Calls') : Calls'[i] # RescanCall
    BY <2>1, CallsDiffer
  <2>4. QED
    BY <1>1, <1>3, <2>2, <2>3 DEF CallsInv
<1>9. DiskInv'
  <2>1. OnItsWay(t)'
    <3>1. 1 \in 1..Len(Calls') /\ Calls'[1] = Save(TxFile(t))
      BY <1>13
    <3>2. QED
      BY <3>1 DEF OnItsWay
  <2>2. ASSUME NEW x \in Tx, x # t, x \in listed' \/ known'[x] \in 1..NetHeight
        PROVE  files'[TxFile(x)] = known'[x]
    BY <1>2, <1>3, <1>6, <2>2 DEF DiskInv
  <2>3. QED
    BY <2>1, <2>2 DEF DiskInv
<1>10. \A h : KnownTo(h) => KnownTo(h)'
  <2> SUFFICES ASSUME NEW h, KnownTo(h), NEW x \in Tx, TxHeight[x] <= h
               PROVE  known'[x] = TxHeight[x]
    BY DEF KnownTo
  <2>1. known[x] = TxHeight[x]
    BY DEF KnownTo
  <2>2. TxHeight[x] # Absent
    BY PersistenceAssumption DEF Absent
  <2>3. QED
    BY <1>2, <1>6, <2>1, <2>2
<1>11. ChainInv'
  <2>1. \A h : SavedTo(h)' = SavedTo(h)
    BY <1>2 DEF SavedTo
  <2>2. \A i \in 1..Len(Calls'), h \in Height : Calls'[i] # Save(BlockFile(h))
    BY <1>13, CallsDiffer
  <2>3. QED
    BY <1>2, <1>3, <1>10, <2>1, <2>2 DEF ChainInv
<1>12. DurableInv'
  BY <1>2 DEF DurableInv
<1>14. QED
  BY <1>3, <1>7, <1>8, <1>9, <1>11, <1>12

\* the saves BRWalletUpdateTransactions has its callback make
LEMMA TxUpdatedCalls ==
    ASSUME NEW T \in SUBSET Tx, NEW u \in TxUpdated(T)
    PROVE  /\ u \in Seq(ChainCall)
           /\ \A i \in 1..Len(u) : \E t \in T : u[i] = Save(TxFile(t))
           /\ \A t \in T : \E i \in 1..Len(u) : u[i] = Save(TxFile(t))
<1>1. IsFiniteSet(T)
  BY PersistenceAssumption, FS_Subset
<1>2. PICK s \in SetToSeqs(T) : u = [i \in DOMAIN s |-> Save(TxFile(s[i]))]
  BY DEF TxUpdated
<1>3. s \in Seq(T) /\ \A t \in T : \E i \in 1..Len(s) : s[i] = t
  BY <1>1, SetToSeqsProperties
<1>4. DOMAIN s = 1..Len(s) /\ Len(s) \in Nat
  BY <1>3
<1>5. \A i \in 1..Len(s) : s[i] \in T /\ u[i] = Save(TxFile(s[i])) /\ u[i] \in ChainCall
  BY <1>2, <1>3, <1>4 DEF ChainCall
<1>6. u \in Seq(ChainCall) /\ Len(u) = Len(s)
  BY <1>2, <1>4, <1>5
<1>7. QED
  BY <1>3, <1>5, <1>6

\* What a block adds to memory and to the calls, given that the wallet knows its
\* transactions afterwards.
LEMMA BlockStep ==
    ASSUME IInv, Unlocked, NEW h \in 1..NetHeight,
           NEW u \in TxUpdated(Confirms(h)), NEW b \in Seq(ChainCall),
           \A i \in 1..Len(b) : b[i] = Clear("blocks") \/ \E k \in 1..h : b[i] = Save(BlockFile(k)),
           UpdateTransactions(h, u \o b),
           UNCHANGED <<files, running, open, listed, connected, loadFailed, durable>>,
           ~loadFailed => KnownTo(h)',
           blocks' \subseteq blocks \cup {h}, lastBlock' \in blocks', 0 \in blocks',
           orphans' \subseteq orphans, next' \subseteq next \cup orphans,
           estimatedHeight' \in Nat, estimatedHeight' >= 2 * BLOCK_DIFFICULTY_INTERVAL
    PROVE  IInv'
<1> USE DEF IInv
<1>1. Confirms(h) \in SUBSET Tx
  BY DEF Confirms
<1>2. /\ u \in Seq(ChainCall)
      /\ \A i \in 1..Len(u) : \E t \in Confirms(h) : u[i] = Save(TxFile(t))
      /\ \A t \in Confirms(h) : \E i \in 1..Len(u) : u[i] = Save(TxFile(t))
  BY <1>1, TxUpdatedCalls
<1> DEFINE c == u \o b
<1>3. /\ c \in Seq(ChainCall) /\ Len(c) = Len(u) + Len(b) /\ Len(u) \in Nat /\ Len(b) \in Nat
      /\ \A i \in 1..Len(u) : c[i] = u[i]
      /\ \A i \in 1..Len(c) : i \notin 1..Len(u) => i - Len(u) \in 1..Len(b) /\ c[i] = b[i - Len(u)]
  BY <1>2
<1>4. /\ known' = [t \in Tx |-> IF t \in Confirms(h) THEN h ELSE known[t]]
      /\ todo' = [todo EXCEPT !["chain"] = c]
  BY DEF UpdateTransactions
<1> HIDE DEF c
<1>5. /\ running /\ running' /\ Calls = <<>> /\ Calls' = c
      /\ todo' \in [Actor -> Seq(ChainCall \cup PeersCall)]
      /\ todo'["peers"] \in Seq(PeersCall)
      /\ \A x : ~OnItsWay(x)
      /\ FilesInv' /\ StoppedInv' /\ OpenInv'
  BY <1>3, <1>4, ChainIssues
<1>6. known \in [Tx -> 1..NetHeight \cup {Unconfirmed, Absent}]
  BY DEF MemoryInv
<1>7. known' \in [Tx -> 1..NetHeight \cup {Unconfirmed, Absent}]
  BY <1>4, <1>6
<1>8. h # Absent /\ h \in Height /\ h # 0
  BY PersistenceAssumption DEF Absent, Height
<1>9. \A t \in Tx : known'[t] = IF t \in Confirms(h) THEN h ELSE known[t]
  BY <1>4
<1>10. \A i \in 1..Len(c) :
          \/ i \in 1..Len(u) /\ \E t \in Confirms(h) : c[i] = Save(TxFile(t))
          \/ i \notin 1..Len(u) /\ c[i] = Clear("blocks")
          \/ i \notin 1..Len(u) /\ \E k \in 1..h : c[i] = Save(BlockFile(k))
  BY <1>2, <1>3
<1>11. MemoryInv'
  <2>1. listed' \subseteq {t \in Tx : known'[t] # Absent}
    BY <1>8, <1>9 DEF MemoryInv
  <2>2. blocks' \subseteq Height /\ orphans' \subseteq Height \ {0} /\ next' \subseteq Height \ {0}
    BY <1>8 DEF MemoryInv
  <2>3. running' \in BOOLEAN /\ connected' \in BOOLEAN /\ loadFailed' \in BOOLEAN
    BY DEF MemoryInv
  <2>4. QED
    BY <1>7, <2>1, <2>2, <2>3 DEF MemoryInv
<1>12. CallsInv'
  <2>1. \A i \in 1..Len(Calls'), x \in Tx : Calls'[i] # RemoveFile(TxFile(x))
    BY <1>5, <1>10, CallsDiffer
  <2>2. ASSUME NEW i \in 1..Len(Calls'), NEW x \in Tx, Calls'[i] = Save(TxFile(x))
        PROVE  known'[x] # Absent
    <3>1. PICK t \in Confirms(h) : c[i] = Save(TxFile(t))
      BY <1>5, <1>10, <2>2, CallsDiffer
    <3>2. x = t
      BY <1>5, <2>2, <3>1, CallsDiffer
    <3>3. QED
      BY <1>8, <1>9, <3>2
  <2>3. \A i \in 1..Len(Calls') : Calls'[i] # RescanCall
    BY <1>5, <1>10, CallsDiffer
  <2>4. QED
    BY <1>3, <1>5, <2>1, <2>2, <2>3 DEF CallsInv
<1>13. \A t \in Confirms(h) : \E i \in 1..Len(u) : i \in 1..Len(c) /\ c[i] = Save(TxFile(t))
  BY <1>2, <1>3
<1>14. DiskInv'
  <2>1. \A t \in Confirms(h) : OnItsWay(t)'
    BY <1>5, <1>13 DEF OnItsWay
  <2>2. ASSUME NEW x \in Tx, x \notin Confirms(h), x \in listed' \/ known'[x] \in 1..NetHeight
        PROVE  files'[TxFile(x)] = known'[x]
    BY <1>5, <1>9, <2>2 DEF DiskInv
  <2>3. QED
    BY <2>1, <2>2 DEF DiskInv
<1>15. \A k : KnownTo(k) => KnownTo(k)'
  BY <1>9 DEF KnownTo, Confirms
<1>16. ASSUME NEW k \in Height, NEW i \in 1..Len(Calls'), ~loadFailed, Calls'[i] = Save(BlockFile(k))
       PROVE  KnownTo(k)' /\ SavedBefore(i, k)'
  <2>1. i \notin 1..Len(u) /\ i \in 1..Len(c) /\ \E j \in 1..h : c[i] = Save(BlockFile(j))
    BY <1>5, <1>10, <1>16, CallsDiffer
  <2>2. k \in 1..h
    BY <1>5, <1>16, <2>1, CallsDiffer
  <2>3. \A t \in Tx : TxHeight[t] \in Nat
    BY PersistenceAssumption
  <2>4. \A t \in Tx : TxHeight[t] <= k => TxHeight[t] <= h
    BY <2>2, <2>3
  <2>5. KnownTo(k)'
    BY <1>16, <2>4 DEF KnownTo
  <2>6. ASSUME NEW t \in Tx, TxHeight[t] <= k
        PROVE  \/ files'[TxFile(t)] \in {TxHeight[t], Torn}
               \/ \E j \in 1..(i - 1) : Calls'[j] \in {Save(TxFile(t)), RescanCall}
    <3>1. CASE t \in Confirms(h)
      <4>1. PICK j \in 1..Len(u) : c[j] = Save(TxFile(t))
        BY <1>13, <3>1
      <4>2. j \in 1..(i - 1)
        BY <1>3, <2>1
      <4>3. QED
        BY <1>5, <4>1, <4>2
    <3>2. CASE t \notin Confirms(h)
      <4>1. known[t] = TxHeight[t]
        BY <1>9, <2>5, <2>6, <3>2 DEF KnownTo
      <4>2. TxHeight[t] \in 1..NetHeight
        BY <2>2, <2>6, PersistenceAssumption
      <4>3. files[TxFile(t)] = known[t]
        BY <1>5, <4>1, <4>2 DEF DiskInv
      <4>4. QED
        BY <4>1, <4>3
    <3>3. QED
      BY <3>1, <3>2
  <2>7. QED
    BY <2>5, <2>6 DEF SavedBefore
<1>17. ChainInv'
  <2>1. \A k : SavedTo(k)' = SavedTo(k)
    BY DEF SavedTo
  <2>2. ~loadFailed => \A k \in blocks' \cup orphans' \cup next' : KnownTo(k)'
    BY <1>15 DEF ChainInv
  <2>3. QED
    BY <1>5, <1>15, <1>16, <2>1, <2>2 DEF ChainInv
<1>18. DurableInv'
  BY DEF DurableInv
<1>19. QED
  BY <1>5, <1>11, <1>12, <1>14, <1>17, <1>18

\* A new timestamp is saved once more; the transaction is known, and stays unconfirmed.
LEMMA TxRestampedKeeps ==
    ASSUME IInv, NEW t \in Tx, TxRestamped(t)
    PROVE  IInv'
<1> USE DEF IInv
<1>1. PICK u \in TxUpdated({t}) : todo' = [todo EXCEPT !["chain"] = u]
  BY DEF TxRestamped
<1>2. /\ Unlocked /\ known[t] = Unconfirmed
      /\ UNCHANGED <<files, running, open, known, listed, lastBlock, blocks, orphans,
                     estimatedHeight, connected, next, loadFailed, durable>>
  BY DEF TxRestamped, walletVars, chainVars, historyVars
<1>3. u \in Seq(ChainCall) /\ \A i \in 1..Len(u) : u[i] = Save(TxFile(t))
  <2>1. {t} \in SUBSET Tx
    OBVIOUS
  <2>2. QED
    BY <2>1, TxUpdatedCalls
<1>4. /\ running /\ running' /\ Calls = <<>> /\ Calls' = u
      /\ todo' \in [Actor -> Seq(ChainCall \cup PeersCall)]
      /\ todo'["peers"] \in Seq(PeersCall)
      /\ \A x : ~OnItsWay(x)
      /\ FilesInv' /\ StoppedInv' /\ OpenInv'
  BY <1>1, <1>2, <1>3, ChainIssues
<1>5. \A i \in 1..Len(Calls') : Calls'[i] = Save(TxFile(t))
  BY <1>3, <1>4, Zenon
<1>6. MemoryInv' /\ DurableInv'
  BY <1>2 DEF MemoryInv, DurableInv
<1>7. CallsInv'
  <2>1. Unconfirmed # Absent
    BY PersistenceAssumption DEF Absent
  <2>2. \A i \in 1..Len(Calls'), x \in Tx :
          /\ Calls'[i] = Save(TxFile(x)) => known'[x] # Absent
          /\ Calls'[i] = RemoveFile(TxFile(x)) => x \notin listed' /\ known'[x] = Unconfirmed
    BY <1>2, <1>5, <2>1, CallsDiffer
  <2>3. \A i \in 1..Len(Calls') : Calls'[i] # RescanCall
    BY <1>5, CallsDiffer
  <2>4. QED
    BY <1>3, <1>4, <2>2, <2>3 DEF CallsInv
<1>8. DiskInv'
  BY <1>2, <1>4 DEF DiskInv
<1>9. ChainInv'
  <2>1. \A h : SavedTo(h)' = SavedTo(h) /\ KnownTo(h)' = KnownTo(h)
    BY <1>2 DEF SavedTo, KnownTo
  <2>2. \A i \in 1..Len(Calls'), h \in Height : Calls'[i] # Save(BlockFile(h))
    BY <1>5, CallsDiffer
  <2>3. QED
    BY <1>2, <1>4, <2>1, <2>2 DEF ChainInv
<1>10. QED
  BY <1>4, <1>6, <1>7, <1>8, <1>9

\* What is taken off the list is unconfirmed: no block rests on its file.
LEMMA TxRemovedKeeps ==
    ASSUME IInv, NEW t \in Tx, TxRemoved(t)
    PROVE  IInv'
<1> USE DEF IInv
<1>1. PICK c : c = <<RemoveFile(TxFile(t))>>
  OBVIOUS
<1>2. c \in Seq(ChainCall) /\ Len(c) = 1 /\ c[1] = RemoveFile(TxFile(t))
  BY <1>1 DEF ChainCall
<1>3. /\ Unlocked /\ known[t] = Unconfirmed /\ listed' = listed \ {t}
      /\ todo' = [todo EXCEPT !["chain"] = c]
      /\ UNCHANGED <<files, running, open, known, lastBlock, blocks, orphans,
                     estimatedHeight, connected, next, loadFailed, durable>>
  BY <1>1 DEF TxRemoved, TxDeleted, chainVars, historyVars
<1>4. /\ running /\ running' /\ Calls = <<>> /\ Calls' = c
      /\ todo' \in [Actor -> Seq(ChainCall \cup PeersCall)]
      /\ todo'["peers"] \in Seq(PeersCall)
      /\ \A x : ~OnItsWay(x)
      /\ FilesInv' /\ StoppedInv' /\ OpenInv'
  BY <1>2, <1>3, ChainIssues
<1>5. Len(Calls') = 1 /\ Calls'[1] = RemoveFile(TxFile(t))
  BY <1>2, <1>4, Zenon
<1>6. \A i \in 1..Len(Calls') : Calls'[i] = RemoveFile(TxFile(t))
  BY <1>5
<1>7. MemoryInv' /\ DurableInv'
  BY <1>3 DEF MemoryInv, DurableInv
<1>8. CallsInv'
  <2>1. \A i \in 1..Len(Calls'), x \in Tx :
          /\ Calls'[i] = Save(TxFile(x)) => known'[x] # Absent
          /\ Calls'[i] = RemoveFile(TxFile(x)) => x \notin listed' /\ known'[x] = Unconfirmed
    BY <1>3, <1>6, CallsDiffer
  <2>2. \A i \in 1..Len(Calls') : Calls'[i] # RescanCall
    BY <1>6, CallsDiffer
  <2>3. QED
    BY <1>2, <1>4, <2>1, <2>2 DEF CallsInv
<1>9. DiskInv'
  BY <1>3, <1>4 DEF DiskInv
<1>10. ChainInv'
  <2>1. \A h : SavedTo(h)' = SavedTo(h) /\ KnownTo(h)' = KnownTo(h)
    BY <1>3 DEF SavedTo, KnownTo
  <2>2. \A i \in 1..Len(Calls'), h \in Height : Calls'[i] # Save(BlockFile(h))
    BY <1>6, CallsDiffer
  <2>3. QED
    BY <1>3, <1>4, <2>1, <2>2 DEF ChainInv
<1>11. QED
  BY <1>4, <1>7, <1>8, <1>9, <1>10

\* The window of blocks to save lies above the checkpoint.
LEMMA SaveBlocksHeights ==
    ASSUME NEW h \in 1..NetHeight, estimatedHeight \in Nat,
           estimatedHeight >= 2 * BLOCK_DIFFICULTY_INTERVAL
    PROVE  /\ Len(SaveBlocks(h)) \in Nat /\ DOMAIN SaveBlocks(h) = 1..Len(SaveBlocks(h))
           /\ \A i \in 1..Len(SaveBlocks(h)) : SaveBlocks(h)[i] \in 1..h
<1> DEFINE n == SaveCount(h)
           S == {k \in (h - n + 1)..h : \A i \in k..h : i \in blocks \cup {h}}
           W == {k \in S : \E i \in S : i <= k /\ Transition(i)}
<1> USE PersistenceAssumption
<1>1. h % BLOCK_DIFFICULTY_INTERVAL \in 0..(BLOCK_DIFFICULTY_INTERVAL - 1)
  OBVIOUS
<1>2. n \in Nat /\ n <= h
  <2>1. CASE h = estimatedHeight
    <3>1. n = (h % BLOCK_DIFFICULTY_INTERVAL) + BLOCK_DIFFICULTY_INTERVAL + 1
      BY <2>1 DEF SaveCount
    <3>2. PICK m \in 0..(BLOCK_DIFFICULTY_INTERVAL - 1) : n = m + BLOCK_DIFFICULTY_INTERVAL + 1
      BY <1>1, <3>1
    <3> HIDE DEF n
    <3>3. QED
      BY <2>1, <3>2
  <2>2. CASE h # estimatedHeight
    <3>1. n \in {0, 1}
      BY <2>2 DEF SaveCount
    <3>2. QED
      BY <3>1
  <2>3. QED
    BY <2>1, <2>2
<1> HIDE DEF n
<1>3. IsFiniteSet((h - n + 1)..h) /\ Cardinality((h - n + 1)..h) = n
  <2>1. h - n + 1 \in Int /\ h \in Int
    BY <1>2
  <2>2. QED
    BY <1>2, <2>1, FS_Interval
<1>4. W \subseteq (h - n + 1)..h
  OBVIOUS
<1> HIDE DEF W
<1>5. IsFiniteSet(W) /\ Cardinality(W) <= n /\ Cardinality(W) \in Nat
  BY <1>3, <1>4, FS_Subset, FS_CardinalityType
<1>6. SaveBlocks(h) = [i \in 1..Cardinality(W) |-> h + 1 - i]
  BY DEF SaveBlocks, W, n
<1>7. PICK c \in Nat : c = Cardinality(W)
  BY <1>5
<1>8. SaveBlocks(h) = [i \in 1..c |-> h + 1 - i] /\ c <= h
  BY <1>2, <1>5, <1>6, <1>7
<1>9. \A i \in 1..c : SaveBlocks(h)[i] \in 1..h
  BY <1>8
<1>10. Len(SaveBlocks(h)) = c /\ DOMAIN SaveBlocks(h) = 1..c
  BY <1>8
<1>11. QED
  BY <1>9, <1>10

LEMMA BlockCallsKinds ==
    ASSUME NEW h \in 1..NetHeight, estimatedHeight \in Nat,
           estimatedHeight >= 2 * BLOCK_DIFFICULTY_INTERVAL
    PROVE  /\ BlockCalls(h) \in Seq(ChainCall)
           /\ \A i \in 1..Len(BlockCalls(h)) :
                 \/ BlockCalls(h)[i] = Clear("blocks")
                 \/ \E k \in 1..h : BlockCalls(h)[i] = Save(BlockFile(k))
<1>1. PICK W : W = SaveBlocks(h)
  OBVIOUS
<1>2. Len(W) \in Nat /\ DOMAIN W = 1..Len(W) /\ \A i \in 1..Len(W) : W[i] \in 1..h
  BY <1>1, SaveBlocksHeights
<1>3. PICK a : a = IF Len(W) > 1 THEN <<Clear("blocks")>> ELSE <<>>
  OBVIOUS
<1>4. PICK s : s = [i \in DOMAIN W |-> Save(BlockFile(W[i]))]
  OBVIOUS
<1>5. BlockCalls(h) = a \o s
  BY <1>1, <1>3, <1>4 DEF BlockCalls
<1>6. Clear("blocks") \in ChainCall /\ \A k \in 1..h : Save(BlockFile(k)) \in ChainCall
  BY PersistenceAssumption DEF ChainCall
<1>7. a \in Seq(ChainCall) /\ Len(a) \in {0, 1} /\ \A i \in 1..Len(a) : a[i] = Clear("blocks")
  <2>1. CASE a = <<>>
    BY <2>1
  <2>2. CASE a = <<Clear("blocks")>>
    BY <1>6, <2>2
  <2>3. QED
    BY <1>3, <2>1, <2>2
<1>8. \A i \in 1..Len(W) : s[i] = Save(BlockFile(W[i])) /\ s[i] \in ChainCall
  BY <1>2, <1>4, <1>6
<1>9. s \in Seq(ChainCall) /\ Len(s) = Len(W)
  BY <1>2, <1>4, <1>8
<1>10. /\ a \o s \in Seq(ChainCall) /\ Len(a \o s) = Len(a) + Len(s)
       /\ \A i \in 1..(Len(a) + Len(s)) :
            \/ i \in 1..Len(a) /\ (a \o s)[i] = a[i]
            \/ i - Len(a) \in 1..Len(s) /\ (a \o s)[i] = s[i - Len(a)]
  BY <1>7, <1>9
<1>11. \A i \in 1..Len(s) : \E k \in 1..h : s[i] = Save(BlockFile(k))
  BY <1>2, <1>8, <1>9
<1>12. QED
  BY <1>5, <1>7, <1>10, <1>11

\* The block after lastBlock, whose transactions the wallet knows.
LEMMA ExtendKeeps ==
    ASSUME IInv, Unlocked, NEW h \in 1..NetHeight, NEW N \in SUBSET next, Extend(h, N),
           h = lastBlock + 1, connected \/ next # {},
           ~loadFailed => \A t \in Tx : TxHeight[t] = h => known[t] # Absent,
           UNCHANGED <<files, running, open, listed, connected, loadFailed, durable>>
    PROVE  IInv'
<1> USE DEF IInv
<1>1. PICK u \in TxUpdated(Confirms(h)) : UpdateTransactions(h, u \o BlockCalls(h))
  BY DEF Extend, BlockThenSaves
<1>2. /\ lastBlock' = h /\ blocks' = blocks \cup {h}
      /\ estimatedHeight' = IF h > estimatedHeight THEN h ELSE estimatedHeight
      /\ orphans' = orphans \ {h + 1} /\ next' = N \cup ({h + 1} \cap orphans)
  BY DEF Extend
<1>3. estimatedHeight \in Nat /\ estimatedHeight >= 2 * BLOCK_DIFFICULTY_INTERVAL
  BY DEF MemoryInv
<1>4. estimatedHeight' \in Nat /\ estimatedHeight' >= 2 * BLOCK_DIFFICULTY_INTERVAL
  BY <1>2, <1>3, PersistenceAssumption
<1>5. ASSUME ~loadFailed
      PROVE  KnownTo(h)'
  <2>1. KnownTo(lastBlock) /\ lastBlock \in Int
    BY <1>5, PersistenceAssumption DEF ChainInv, MemoryInv, Height
  <2>2. \A t \in Tx : known'[t] = IF t \in Confirms(h) THEN h ELSE known[t]
    BY <1>1 DEF UpdateTransactions
  <2>3. ASSUME NEW t \in Tx, TxHeight[t] <= h
        PROVE  known'[t] = TxHeight[t]
    <3>1. TxHeight[t] \in Nat
      BY PersistenceAssumption
    <3>2. CASE TxHeight[t] = h
      BY <1>5, <2>2, <3>2 DEF Confirms
    <3>3. CASE TxHeight[t] # h
      <4>1. TxHeight[t] <= lastBlock
        BY <2>1, <2>3, <3>1, <3>3
      <4>2. QED
        BY <2>1, <2>2, <3>3, <4>1 DEF KnownTo, Confirms
    <3>4. QED
      BY <3>2, <3>3
  <2>4. QED
    BY <2>3 DEF KnownTo
<1>6. lastBlock' \in blocks' /\ 0 \in blocks'
  BY <1>2 DEF MemoryInv
<1>7. /\ BlockCalls(h) \in Seq(ChainCall)
      /\ \A i \in 1..Len(BlockCalls(h)) :
            \/ BlockCalls(h)[i] = Clear("blocks")
            \/ \E k \in 1..h : BlockCalls(h)[i] = Save(BlockFile(k))
  BY <1>3, BlockCallsKinds
<1>8. PICK b \in Seq(ChainCall) :
         /\ UpdateTransactions(h, u \o b)
         /\ \A i \in 1..Len(b) : b[i] = Clear("blocks") \/ \E k \in 1..h : b[i] = Save(BlockFile(k))
  BY <1>1, <1>7, Zenon
<1>9. /\ blocks' \subseteq blocks \cup {h} /\ orphans' \subseteq orphans
      /\ next' \subseteq next \cup orphans
  BY <1>2
<1>10. QED
  BY <1>4, <1>5, <1>6, <1>8, <1>9, BlockStep

LEMMA RelayedBlockKeeps ==
    ASSUME IInv, RelayedBlock
    PROVE  IInv'
<1>1. lastBlock \in Nat
  BY PersistenceAssumption DEF IInv, MemoryInv, Height
<1>2. PICK h : h = lastBlock + 1
  OBVIOUS
<1>3. h \in 1..NetHeight
  BY <1>1, <1>2, PersistenceAssumption DEF RelayedBlock
<1>4. /\ Unlocked /\ connected /\ Extend(h, next)
      /\ \A t \in Tx : TxHeight[t] = h => known[t] # Absent
      /\ UNCHANGED <<files, running, open, listed, connected, loadFailed, durable>>
  BY <1>2 DEF RelayedBlock, historyVars
<1>5. QED
  BY <1>2, <1>3, <1>4, ExtendKeeps

LEMMA NextBlockKeeps ==
    ASSUME IInv, NEW h \in Height, NextBlock(h)
    PROVE  IInv'
<1>1. /\ Unlocked /\ h \in next
      /\ UNCHANGED <<files, running, open, listed, connected, loadFailed, durable>>
  BY DEF NextBlock, historyVars
<1>2. h \in 1..NetHeight
  BY <1>1, PersistenceAssumption DEF IInv, MemoryInv, Height
<1>3. ~loadFailed => KnownTo(h)
  BY <1>1 DEF IInv, ChainInv
<1>4. CASE h = lastBlock + 1 /\ Extend(h, next \ {h})
  <2>1. ~loadFailed => \A t \in Tx : TxHeight[t] = h => known[t] # Absent
    BY <1>2, <1>3 DEF KnownTo, Absent
  <2>2. next \ {h} \in SUBSET next
    OBVIOUS
  <2>3. QED
    BY <1>1, <1>2, <1>4, <2>1, <2>2, ExtendKeeps
<1>5. CASE /\ h # lastBlock + 1 /\ h \in blocks
           /\ \E u \in TxUpdated(Confirms(h)) : UpdateTransactions(h, u)
           /\ next' = next \ {h}
           /\ UNCHANGED <<lastBlock, blocks, orphans, estimatedHeight>>
  <2>1. PICK u \in TxUpdated(Confirms(h)) : UpdateTransactions(h, u)
    BY <1>5
  <2>2. u \in Seq(ChainCall)
    <3>1. Confirms(h) \in SUBSET Tx
      BY DEF Confirms
    <3>2. QED
      BY <3>1, TxUpdatedCalls
  <2>3. u \o <<>> = u
    BY <2>2
  <2>4. PICK b : b = <<>>
    OBVIOUS
  <2>5. UpdateTransactions(h, u \o b)
    BY <2>1, <2>3, <2>4
  <2>6. \A i \in 1..Len(b) : b[i] = Clear("blocks") \/ \E k \in 1..h : b[i] = Save(BlockFile(k))
    BY <2>4
  <2>11. b \in Seq(ChainCall)
    BY <2>4
  <2>7. ~loadFailed => KnownTo(h)'
    BY <1>3, <2>1 DEF KnownTo, Confirms, UpdateTransactions
  <2>8. estimatedHeight' \in Nat /\ estimatedHeight' >= 2 * BLOCK_DIFFICULTY_INTERVAL
    BY <1>1, <1>5 DEF IInv, MemoryInv
  <2>9. /\ blocks' \subseteq blocks \cup {h} /\ lastBlock' \in blocks' /\ 0 \in blocks'
        /\ orphans' \subseteq orphans /\ next' \subseteq next \cup orphans
    BY <1>5 DEF IInv, MemoryInv
  <2>10. QED
    BY <1>1, <1>2, <2>5, <2>6, <2>7, <2>8, <2>9, <2>11, BlockStep
<1>6. CASE /\ orphans' = orphans \cup {h} /\ next' = next \ {h}
           /\ UNCHANGED <<known, todo, lastBlock, blocks, estimatedHeight>>
  <2>1. OpenAt("peers")'
    BY <1>1, <1>6, PeersStayOpen
  <2>2. /\ todo \in [Actor -> Seq(ChainCall \cup PeersCall)] /\ todo["peers"] \in Seq(PeersCall)
        /\ files \in [Entity -> Height \cup {Unconfirmed, Absent, Torn}]
        /\ open \in [Actor -> Int]
    BY DEF IInv, CallsInv, FilesInv, OpenInv
  <2>3. connected \in BOOLEAN /\ estimatedHeight \in Nat
    BY DEF IInv, MemoryInv
  <2>4. running
    BY <1>1 DEF Unlocked
  <2>5. next' \subseteq next /\ orphans' \subseteq orphans \cup next
    BY <1>1, <1>6
  <2>6. estimatedHeight' \in Nat /\ estimatedHeight' >= estimatedHeight
    BY <1>6, <2>3
  <2>7. QED
    BY <1>1, <1>6, <2>1, <2>2, <2>3, <2>4, <2>5, <2>6, ChainUntouched
<1>7. QED
  BY <1>4, <1>5, <1>6 DEF NextBlock

-----------------------------------------------------------------------------
(* Crash and restart. *)

\* Nothing is in memory: no call, no open file, no transaction, no block.
LEMMA EmptyMemory ==
    ASSUME FilesInv', DurableInv',
           todo' = [a \in Actor |-> <<>>], open' = [a \in Actor |-> Closed],
           known' = [t \in Tx |-> Absent], listed' = {},
           lastBlock' = 0, blocks' = {0}, orphans' = {}, estimatedHeight' \in Nat,
           connected' = FALSE, next' = {}, running' \in BOOLEAN, loadFailed' \in BOOLEAN,
           running' => loadFailed',
           ~loadFailed' => \A h \in Height : files'[BlockFile(h)] # Absent => SavedTo(h)'
    PROVE  IInv'
<1>1. todo' \in [Actor -> Seq(ChainCall \cup PeersCall)] /\ Calls' = <<>> /\ todo'["peers"] = <<>>
  BY DEF Actor, Calls
<1>2. open' \in [Actor -> Int] /\ open'["chain"] = Closed /\ open'["peers"] = Closed
  BY DEF Actor, Closed
<1>3. \A t \in Tx : known'[t] = Absent
  OBVIOUS
<1>4. Absent \notin 1..NetHeight /\ 0 \in Height
  BY PersistenceAssumption DEF Absent, Height
<1>5. StoppedInv'
  BY <1>1, <1>2, <1>3 DEF StoppedInv
<1>6. MemoryInv'
  <2>1. known' \in [Tx -> 1..NetHeight \cup {Unconfirmed, Absent}]
    OBVIOUS
  <2>2. ~connected' /\ connected' \in BOOLEAN
    OBVIOUS
  <2>3. QED
    BY <1>4, <2>1, <2>2 DEF MemoryInv
<1>7. CallsInv'
  <2>0. <<>> \in Seq(ChainCall) /\ <<>> \in Seq(PeersCall) /\ 1..Len(<<>>) = {}
    OBVIOUS
  <2>1. 1..Len(Calls') = {} /\ Calls' \in Seq(ChainCall) /\ todo'["peers"] \in Seq(PeersCall)
    BY <1>1, <2>0, Zenon
  <2>2. QED
    BY <1>1, <2>1 DEF CallsInv
<1>8. OpenInv'
  BY <1>2 DEF OpenInv, OpenAt, Actor
<1>9. DiskInv'
  BY <1>3, <1>4 DEF DiskInv
<1>10. ChainInv'
  <2>1. 1..Len(Calls') = {}
    BY <1>1
  <2>2. KnownTo(0)'
    <3>1. \A t \in Tx : ~(TxHeight[t] <= 0)
      BY PersistenceAssumption
    <3>2. QED
      BY <3>1 DEF KnownTo
  <2>3. QED
    BY <2>1, <2>2 DEF ChainInv
<1>11. QED
  BY <1>5, <1>6, <1>7, <1>8, <1>9, <1>10 DEF IInv

LEMMA CrashKeeps ==
    ASSUME IInv, Crash
    PROVE  IInv'
<1>1. /\ todo' = [a \in Actor |-> <<>>] /\ open' = [a \in Actor |-> Closed]
      /\ known' = [t \in Tx |-> Absent] /\ listed' = {}
      /\ lastBlock' = 0 /\ blocks' = {0} /\ orphans' = {} /\ estimatedHeight' = 0
      /\ connected' = FALSE /\ next' = {} /\ running' = FALSE
      /\ UNCHANGED <<files, loadFailed, durable>>
  BY DEF Crash, historyVars
<1>2. FilesInv' /\ DurableInv' /\ loadFailed' \in BOOLEAN
  BY <1>1 DEF IInv, FilesInv, DurableInv, MemoryInv
<1>3. \A h : SavedTo(h)' = SavedTo(h)
  BY <1>1 DEF SavedTo
<1>4. ~loadFailed' => \A h \in Height : files'[BlockFile(h)] # Absent => SavedTo(h)'
  BY <1>1, <1>3 DEF IInv, ChainInv
<1>5. running' \in BOOLEAN /\ (running' => loadFailed') /\ estimatedHeight' \in Nat
  BY <1>1
<1>6. QED
  BY <1>1, <1>2, <1>4, <1>5, EmptyMemory

\* The blocks that BRPeerManagerNew follows: from the highest transition on disk, which
\* is no lower than any transition saved.
LEMMA FollowedHeights ==
    ASSUME IInv
    PROVE  /\ Followed \subseteq LoadedBlocks \cup {0} /\ Followed \subseteq Height
           /\ Max(Followed) \in Followed /\ Max(Followed) >= durable
           /\ 0 \notin LoadedBlocks
<1>1. NetHeight \in Nat /\ Height = 0..NetHeight
  BY PersistenceAssumption DEF Height
<1>2. PICK T : T = {0} \cup {h \in LoadedBlocks : Transition(h)}
  OBVIOUS
<1>3. LoadedBlocks \subseteq Height
  BY DEF LoadedBlocks
<1>4. T \in SUBSET Nat /\ T # {} /\ (\A y \in T : y <= NetHeight) /\ T \subseteq LoadedBlocks \cup {0}
  <2>1. \A y \in T : y = 0 \/ y \in LoadedBlocks
    BY <1>2
  <2>2. \A y \in T : y \in Nat /\ y <= NetHeight
    <3> SUFFICES ASSUME NEW y \in T PROVE y \in Nat /\ y <= NetHeight
      OBVIOUS
    <3>1. y \in 0..NetHeight
      <4>1. CASE y = 0
        BY <1>1, <4>1
      <4>2. CASE y \in LoadedBlocks
        BY <1>1, <1>3, <4>2, Zenon
      <4>3. QED
        BY <2>1, <4>1, <4>2
    <3>2. QED
      BY <1>1, <3>1
  <2>3. 0 \in T
    BY <1>2
  <2>4. QED
    BY <2>1, <2>2, <2>3
<1>5. Max(T) \in T /\ \A y \in T : y <= Max(T)
  BY <1>1, <1>4, MaxProperties
<1>6. PICK m : m = Max(T)
  OBVIOUS
<1>7. m \in T /\ (\A y \in T : y <= m) /\ LastTransition = m
  BY <1>2, <1>5, <1>6 DEF LastTransition
<1>8. m \in Nat /\ m <= NetHeight /\ m \in LoadedBlocks \cup {0}
  BY <1>4, <1>7
<1>9. PICK F : F = Followed
  OBVIOUS
<1>10. F = {h \in m..NetHeight : \A i \in m..h : i \in LoadedBlocks \cup {0}}
  BY <1>7, <1>9 DEF Followed
<1>11. m \in F
  <2>1. m \in m..NetHeight /\ \A i \in m..m : i = m
    BY <1>1, <1>8
  <2>2. QED
    BY <1>8, <1>10, <2>1
<1>12. F \in SUBSET Nat /\ F # {} /\ \A y \in F : y <= NetHeight
  BY <1>1, <1>8, <1>10, <1>11
<1>13. Max(F) \in F /\ \A y \in F : y <= Max(F)
  BY <1>1, <1>12, MaxProperties
<1>14. F \subseteq LoadedBlocks \cup {0}
  <2>1. ASSUME NEW h \in F PROVE h \in LoadedBlocks \cup {0}
    <3>1. h \in m..h
      BY <1>1, <1>8, <1>10
    <3>2. QED
      BY <1>10, <3>1
  <2>2. QED
    BY <2>1
<1>15. F \subseteq Height
  BY <1>1, <1>12
<1>16. durable \in Height /\ durable \in T
  BY <1>2 DEF IInv, DurableInv, LoadedBlocks
<1>17. Max(F) >= durable
  <2>1. PICK x : x = Max(F)
    OBVIOUS
  <2>2. x \in Nat /\ m <= x /\ durable <= m /\ durable \in Nat
    <3>1. m <= x /\ x \in F
      BY <1>11, <1>13, <2>1
    <3>2. durable <= m
      BY <1>7, <1>16
    <3>3. durable \in Nat
      BY <1>1, <1>16
    <3>4. QED
      BY <1>12, <3>1, <3>2, <3>3
  <2>3. x >= durable
    BY <1>8, <2>2
  <2>4. QED
    BY <2>1, <2>3
<1>18. 0 \notin LoadedBlocks
  BY DEF LoadedBlocks, IInv, FilesInv
<1>19. QED
  BY <1>9, <1>13, <1>14, <1>15, <1>17, <1>18

LEMMA StartKeeps ==
    ASSUME IInv, Start
    PROVE  IInv'
<1> USE DEF IInv
<1>1. ~running /\ UNCHANGED <<files, todo, open, estimatedHeight, connected, next, durable>>
  BY DEF Start
<1>2. /\ Calls = <<>> /\ todo["peers"] = <<>>
      /\ open["chain"] = Closed /\ open["peers"] = Closed
      /\ \A t \in Tx : known[t] = Absent
      /\ listed = {} /\ orphans = {} /\ next = {} /\ blocks = {0} /\ lastBlock = 0
      /\ ~connected
  BY <1>1 DEF StoppedInv
<1>3. FilesInv' /\ DurableInv'
  BY <1>1 DEF FilesInv, DurableInv
<1>4. /\ connected \in BOOLEAN /\ estimatedHeight \in Nat /\ loadFailed \in BOOLEAN
      /\ known \in [Tx -> 1..NetHeight \cup {Unconfirmed, Absent}]
  BY DEF MemoryInv
<1>5. /\ todo \in [Actor -> Seq(ChainCall \cup PeersCall)] /\ open \in [Actor -> Int]
      /\ files \in [Entity -> Height \cup {Unconfirmed, Absent, Torn}]
  BY DEF CallsInv, OpenInv, FilesInv
<1>6. CASE Readable(Entity)
  <2>1. /\ running' = TRUE /\ loadFailed' = loadFailed
        /\ known' = [t \in Tx |-> files[TxFile(t)]]
        /\ listed' = {t \in Tx : files[TxFile(t)] # Absent}
        /\ lastBlock' = Max(Followed)
        /\ blocks' = {0} \cup Followed
        /\ orphans' = LoadedBlocks \ Followed
    BY <1>6 DEF Start
  <2>2. /\ Followed \subseteq LoadedBlocks \cup {0} /\ Followed \subseteq Height
        /\ Max(Followed) \in Followed /\ 0 \notin LoadedBlocks
    BY FollowedHeights
  <2>3. \A t \in Tx : files[TxFile(t)] # Torn
    BY <1>6, EntityMembers DEF Readable
  <2>4. \A t \in Tx : known'[t] = files[TxFile(t)] /\ known'[t] \in 1..NetHeight \cup {Unconfirmed, Absent}
    BY <2>1, <2>3 DEF FilesInv
  <2>5. known' \in [Tx -> 1..NetHeight \cup {Unconfirmed, Absent}]
    BY <2>1, <2>4
  <2>6. LoadedBlocks \subseteq Height /\ 0 \in Height
    BY PersistenceAssumption DEF LoadedBlocks, Height
  <2>7. Calls' = Calls /\ 1..Len(Calls') = {}
    BY <1>1, <1>2 DEF Calls
  <2>8. StoppedInv' /\ CallsInv' /\ OpenInv'
    <3>1. StoppedInv'
      BY <2>1 DEF StoppedInv
    <3>2. CallsInv'
      BY <1>1, <1>5, <2>7 DEF CallsInv
    <3>3. OpenInv'
      BY <1>1, <1>2, <1>5 DEF OpenInv, OpenAt, Actor
    <3>4. QED
      BY <3>1, <3>2, <3>3
  <2>9. MemoryInv'
    <3>1. running' \in BOOLEAN /\ loadFailed' \in BOOLEAN /\ connected' \in BOOLEAN
      BY <1>1, <1>4, <2>1
    <3>2. /\ lastBlock' \in blocks' /\ blocks' \subseteq Height /\ 0 \in blocks'
          /\ orphans' \subseteq Height \ {0} /\ next' = {} /\ ~connected'
      BY <1>1, <1>2, <2>1, <2>2, <2>6
    <3>3. listed' \subseteq {t \in Tx : known'[t] # Absent}
      BY <2>1, <2>4
    <3>4. estimatedHeight' \in Nat
      BY <1>1, <1>4
    <3>5. QED
      BY <2>5, <3>1, <3>2, <3>3, <3>4 DEF MemoryInv
  <2>10. DiskInv'
    BY <1>1, <2>4 DEF DiskInv
  <2>11. ChainInv'
    <3>1. \A h : SavedTo(h)' = SavedTo(h)
      BY <1>1 DEF SavedTo
    <3>2. \A h : SavedTo(h) => KnownTo(h)'
      BY <2>3, <2>4 DEF SavedTo, KnownTo
    <3>3. KnownTo(0)'
      <4>1. \A t \in Tx : ~(TxHeight[t] <= 0)
        BY PersistenceAssumption
      <4>2. QED
        BY <4>1 DEF KnownTo
    <3>4. ~loadFailed => \A h \in LoadedBlocks : SavedTo(h) /\ KnownTo(h)'
      BY <3>2 DEF ChainInv, LoadedBlocks
    <3>5. \A h \in blocks' \cup orphans' \cup next' : h = 0 \/ h \in LoadedBlocks
      BY <1>1, <1>2, <2>1, <2>2
    <3>6. ~loadFailed => \A h \in blocks' \cup orphans' \cup next' : KnownTo(h)'
      BY <3>3, <3>4, <3>5
    <3>7. ~loadFailed => \A h \in Height : files'[BlockFile(h)] # Absent =>
             SavedTo(h)' /\ KnownTo(h)'
      BY <1>1, <3>1, <3>4 DEF LoadedBlocks
    <3>8. QED
      BY <2>1, <2>7, <3>6, <3>7 DEF ChainInv
  <2>12. QED
    BY <1>3, <2>8, <2>9, <2>10, <2>11
<1>7. CASE ~Readable(Entity)
  <2>1. /\ loadFailed' = TRUE /\ running' \in BOOLEAN
        /\ UNCHANGED <<known, listed, lastBlock, blocks, orphans>>
    <3>1. loadFailed' = TRUE /\ UNCHANGED <<known, listed, lastBlock, blocks, orphans>>
      BY <1>7 DEF Start, walletVars
    <3>2. running' = TRUE \/ running' = running
      BY <1>7 DEF Start
    <3>3. running \in BOOLEAN
      BY DEF MemoryInv
    <3>4. QED
      BY <3>1, <3>2, <3>3
  <2>2. todo' = [a \in Actor |-> <<>>]
    BY <1>1, <1>2, <1>5 DEF Actor, Calls
  <2>3. open' = [a \in Actor |-> Closed]
    BY <1>1, <1>2, <1>5 DEF Actor
  <2>4. known' = [t \in Tx |-> Absent]
    BY <1>2, <1>4, <2>1
  <2>5. connected' = FALSE
    BY <1>1, <1>2, <1>4
  <2>6. loadFailed' /\ loadFailed' \in BOOLEAN
    BY <2>1
  <2>7. /\ listed' = {} /\ lastBlock' = 0 /\ blocks' = {0} /\ orphans' = {}
        /\ next' = {} /\ estimatedHeight' \in Nat
    BY <1>1, <1>2, <1>4, <2>1
  <2>8. QED
    BY <1>3, <2>1, <2>2, <2>3, <2>4, <2>5, <2>6, <2>7, EmptyMemory
<1>8. QED
  BY <1>6, <1>7

-----------------------------------------------------------------------------
(* The theorems. *)

LEMMA InitInvariant ==
    ASSUME Init
    PROVE  IInv
<1>1. /\ files = [e \in Entity |-> Absent] /\ running = FALSE
      /\ todo = [a \in Actor |-> <<>>] /\ open = [a \in Actor |-> Closed]
      /\ known = [t \in Tx |-> Absent] /\ listed = {}
      /\ lastBlock = 0 /\ blocks = {0} /\ orphans = {}
      /\ estimatedHeight = 0 /\ connected = FALSE /\ next = {}
      /\ loadFailed = FALSE /\ durable = 0
  BY DEF Init
<1>2. 0 \in Height /\ Absent \notin 1..NetHeight
  BY PersistenceAssumption DEF Absent, Height
<1>3. FilesInv
  BY <1>1, <1>2, EntityMembers DEF FilesInv
<1>4. DurableInv
  BY <1>1, <1>2 DEF DurableInv
<1>5. todo \in [Actor -> Seq(ChainCall \cup PeersCall)] /\ Calls = <<>> /\ todo["peers"] = <<>>
  BY <1>1 DEF Actor, Calls
<1>6. open \in [Actor -> Int] /\ open["chain"] = Closed /\ open["peers"] = Closed
  BY <1>1 DEF Actor, Closed
<1>7. \A t \in Tx : known[t] = Absent
  BY <1>1
<1>8. StoppedInv
  BY <1>1, <1>5, <1>6, <1>7 DEF StoppedInv
<1>9. MemoryInv
  <2>1. running \in BOOLEAN /\ connected \in BOOLEAN /\ loadFailed \in BOOLEAN /\ ~connected
    BY <1>1
  <2>2. known \in [Tx -> 1..NetHeight \cup {Unconfirmed, Absent}] /\ estimatedHeight \in Nat
    BY <1>1
  <2>3. lastBlock \in blocks /\ blocks \subseteq Height /\ 0 \in blocks
    BY <1>1, <1>2
  <2>4. listed = {} /\ orphans = {} /\ next = {}
    BY <1>1
  <2>5. QED
    BY <2>1, <2>2, <2>3, <2>4 DEF MemoryInv
<1>10. 1..Len(Calls) = {} /\ Calls \in Seq(ChainCall) /\ todo["peers"] \in Seq(PeersCall)
  BY <1>5
<1>11. CallsInv
  BY <1>5, <1>10 DEF CallsInv
<1>12. OpenInv
  BY <1>6 DEF OpenInv, OpenAt, Actor
<1>13. DiskInv
  BY <1>2, <1>7, <1>1 DEF DiskInv
<1>14. ChainInv
  <2>1. \A h \in Height : files[BlockFile(h)] = Absent
    BY <1>1, EntityMembers
  <2>2. KnownTo(0)
    <3>1. \A t \in Tx : ~(TxHeight[t] <= 0)
      BY PersistenceAssumption
    <3>2. QED
      BY <3>1 DEF KnownTo
  <2>3. blocks \cup orphans \cup next = {0}
    BY <1>1
  <2>4. QED
    BY <1>10, <2>1, <2>2, <2>3 DEF ChainInv
<1>15. QED
  BY <1>3, <1>4, <1>8, <1>9, <1>11, <1>12, <1>13, <1>14 DEF IInv

LEMMA NextInvariant ==
    ASSUME IInv, [Next]_vars
    PROVE  IInv'
<1>1. CASE UNCHANGED vars
  BY <1>1 DEF vars, walletVars, chainVars, historyVars, IInv, FilesInv, StoppedInv, MemoryInv,
              CallsInv, OpenInv, OpenAt, Ready, Idle, Written, DiskInv, OnItsWay, ChainInv, KnownTo,
              SavedTo, SavedBefore, DurableInv, Calls
<1>2. CASE \E a \in Actor : FileStep(a)
  BY <1>2, ChainFileStep, PeersFileStep DEF Actor
<1>3. CASE \E t \in Tx : RelayedTx(t) \/ TxRestamped(t) \/ TxRemoved(t)
  BY <1>3, RelayedTxKeeps, TxRestampedKeeps, TxRemovedKeeps
<1>4. CASE RelayedBlock
  BY <1>4, RelayedBlockKeeps
<1>5. CASE \E h \in Height : NextBlock(h)
  BY <1>5, NextBlockKeeps
<1>6. CASE PeerConnected \/ PeerDisconnected \/ Rescan \/ \E p \in Peer : RelayedPeers(p)
  BY <1>6, PeersComeAndGo
<1>7. CASE Crash
  BY <1>7, CrashKeeps
<1>8. CASE Start
  BY <1>8, StartKeeps
<1>9. QED
  BY <1>1, <1>2, <1>3, <1>4, <1>5, <1>6, <1>7, <1>8 DEF Next

\* The invariant holds in every reachable state, whatever crashes and fails.
THEOREM PersistenceInvariance == Spec => []IInv
<1>1. Init => IInv
  BY InitInvariant
<1>2. IInv /\ [Next]_vars => IInv'
  BY NextInvariant
<1>3. QED
  BY <1>1, <1>2, PTL DEF Spec

\* Each variable keeps its type, and what an actor holds open is the torn file of its
\* first call (BRFileService.c, fileServiceSave).
THEOREM PersistenceTyped == Spec => []TypeOK
<1>1. IInv => TypeOK
  <2> SUFFICES ASSUME IInv PROVE TypeOK
    OBVIOUS
  <2> USE DEF IInv
  <2>1. \A e \in Entity : files[e] \in Height \cup {Unconfirmed, Absent, Torn}
    BY DEF FilesInv
  <2>2. ChainCall \cup PeersCall \subseteq Call
    <3>1. 1..NetHeight \subseteq Height
      BY PersistenceAssumption DEF Height
    <3>2. \A e \in Entity : Save(e) \in Call /\ RemoveFile(e) \in Call
      BY DEF Call, Save, RemoveFile
    <3>3. QED
      BY <3>1, <3>2, EntityMembers DEF ChainCall, PeersCall, Call
  <2>3. ASSUME NEW a \in Actor
        PROVE  Range(todo[a]) \subseteq Call
    <3>1. todo[a] \in Seq(ChainCall \cup PeersCall)
      BY DEF CallsInv
    <3>2. QED
      BY <2>2, <3>1 DEF Range
  <2>4. \A a \in Actor : open[a] # Closed => Ready(a, "save") /\ files[Head(todo[a]).entity] = Torn
    BY DEF OpenInv, OpenAt
  <2>5. QED
    BY <2>1, <2>3, <2>4 DEF TypeOK, MemoryInv, DurableInv
<1>2. QED
  BY <1>1, PersistenceInvariance, PTL

\* A running wallet whose loads succeeded knows every transaction up to lastBlock
\* (_peerRelayedBlock: BRWalletUpdateTransactions before saveBlocks).
THEOREM WalletMissesNothing == Spec => []NothingMissed
<1>1. IInv => NothingMissed
  BY DEF IInv, MemoryInv, ChainInv, KnownTo, NothingMissed
<1>2. QED
  BY <1>1, PersistenceInvariance, PTL

\* What the wallet lists is on disk as the wallet knows it, or on its way, or behind a
\* save that failed (_BRWalletManagerTxAdded, TxUpdated, TxDeleted).
THEOREM ListIsOnDisk == Spec => []ListedOnDisk
<1>1. IInv => ListedOnDisk
  <2> SUFFICES ASSUME IInv, NEW t \in listed
               PROVE  \/ files[TxFile(t)] = known[t]
                      \/ \E i \in DOMAIN todo["chain"] : todo["chain"][i] = Save(TxFile(t))
                      \/ \E i \in DOMAIN todo["chain"] : todo["chain"][i] = RescanCall
    BY DEF ListedOnDisk
  <2>1. t \in Tx
    BY DEF IInv, MemoryInv
  <2>2. DOMAIN Calls = 1..Len(Calls)
    BY DEF IInv, CallsInv
  <2>3. files[TxFile(t)] = known[t] \/ OnItsWay(t)
    BY <2>1 DEF IInv, DiskInv
  <2>4. QED
    BY <2>2, <2>3 DEF OnItsWay, Calls
<1>2. QED
  BY <1>1, PersistenceInvariance, PTL

\* A start that can read its files resumes at or above the last transition saved
\* (BRPeerManagerNew), whatever was being written when the process died.
THEOREM StartResumes == Spec => StartNotBehind
<1>1. IInv /\ [Next]_vars => [~running /\ running' /\ Readable(Entity) => lastBlock' >= durable]_vars
  <2> SUFFICES ASSUME IInv, Next, ~running, running', Readable(Entity)
               PROVE  lastBlock' >= durable
    BY DEF vars
  <2>1. CASE Start
    <3>1. lastBlock' = Max(Followed)
      BY <2>1 DEF Start
    <3>2. QED
      BY <3>1, FollowedHeights
  <2>2. CASE ~Start
    BY <2>2 DEF Next, FileStep, SaveOpens, SaveCloses, SaveFails, HandlerRescans, Removes, Ready,
                Unlocked, RelayedTx, TxRestamped, TxRemoved, RelayedBlock, NextBlock, PeerConnected,
                PeerDisconnected, Rescan, RelayedPeers, Crash
  <2>3. QED
    BY <2>1, <2>2
<1>2. QED
  BY <1>1, PersistenceInvariance, PTL DEF Spec, StartNotBehind

=============================================================================
