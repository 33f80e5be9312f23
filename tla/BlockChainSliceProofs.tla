----------------------- MODULE BlockChainSliceProofs ------------------------
(***************************************************************************)
(* The chain of the slice is linked, the transactions of its blocks are    *)
(* known and pending transactions are asked for, for every tree of blocks  *)
(* and any number of transactions.                                         *)
(*                                                                         *)
(* The handlers are functions from the struct to the struct, and several   *)
(* of them are loops.  So the invariant is a set of structs, Good, and for *)
(* each function there is a lemma that its result is in the set again; a   *)
(* loop stays in the set when each of its rounds does.                     *)
(***************************************************************************)
EXTENDS BlockChainSlice, BasicLemmas

\* The blocks K are the chain of s: from the head to the tail, one for each
\* number, linked by their next pointers, and kept.  X are blocks that are
\* neither chained nor orphans.
Links(s, K, X) ==
    /\ K \subseteq s.blocks \ s.orphans
    /\ s.orphans \subseteq s.blocks
    /\ X \cap (K \cup s.orphans) = {}
    /\ s.chain \in K /\ s.chainTail \in K
    /\ \A b \in K : s.next[b] = IF b = s.chainTail THEN NoBlock ELSE Parent[b]
    /\ \A b \in K : b # s.chainTail => Parent[b] \in K
    /\ \A b \in K : Number[s.chainTail] <= Number[b] /\ Number[b] <= Number[s.chain]
    /\ \A b, c \in K : Number[b] = Number[c] => b = c
    /\ \A n \in Number[s.chainTail]..Number[s.chain] : \E b \in K : Number[b] = n

\* The transactions of a block whose body has come are held in the block until
\* it is complete and valid, and known from then on.
Knows(s) ==
    \A b \in Block : s.request[b]["bodies"] = "complete" =>
        \A t \in TxOf[b] : \/ s.transactions[t] # NoStatus
                           \/ t \in s.held[b] /\ ~(b \in s.valid /\ Complete(s, b))

\* A transaction whose status is not final is pending, or will be when the
\* events q are handled.
Waits(s, q) ==
    \A t \in Tx :
        s.transactions[t] # NoStatus /\ ~Final(s.transactions[t]) =>
            \/ t \in s.pendingTransactions
            \/ \E i \in DOMAIN q : q[i][1] = t /\ ~Final(q[i][2])

\* The structs the handlers keep to, while no assertion failed
Good(q, X) == {s \in BCS : ~s.failed /\ (\E K \in SUBSET Block : Links(s, K, X))
                                     /\ Knows(s) /\ Waits(s, q)}

-----------------------------------------------------------------------------
(* Paths. *)

\* w follows the pointers p from b
Follows(w, p, b) ==
    /\ w \in [0..Cardinality(Block) -> Block \cup {NoBlock}]
    /\ w[0] = b
    /\ \A i \in 1..Cardinality(Block) :
         w[i] = IF w[i - 1] = NoBlock THEN NoBlock ELSE p[w[i - 1]]

LEMMA BlockCount == Cardinality(Block) \in Nat
BY SliceAssumption, FS_CardinalityType

\* Path follows the pointers.
LEMMA PathFollows ==
    ASSUME NEW p \in [Block -> Block \cup {NoBlock}], NEW b \in Block \cup {NoBlock}
    PROVE  Follows(Path(p, b), p, b)
<1>1. PICK n : n = Cardinality(Block)
  OBVIOUS
<1>2. n \in Nat
  BY <1>1, BlockCount
<1>3. PICK S : S = Block \cup {NoBlock}
  OBVIOUS
<1>4. PICK step : step = [i \in 1..n |-> [c \in S |-> IF c = NoBlock THEN NoBlock ELSE p[c]]]
  OBVIOUS
<1>5. PICK f : Iterates(f, step, b, n)
  <2>1. n \in 0..n
    BY <1>2
  <2> QED
    BY <1>2, <2>1, IterationExists
<1>6. \A i \in 0..n : f[i] \in S
  <2>1. f[0] \in S
    BY <1>2, <1>3, <1>5 DEF Iterates
  <2>2. ASSUME NEW i \in 1..n, f[i - 1] \in S PROVE f[i] \in S
    <3>1. f[i] = step[i][f[i - 1]]
      BY <1>2, <1>5 DEF Iterates
    <3> QED
      BY <1>3, <1>4, <2>2, <3>1
  <2> QED
    BY <1>2, <2>1, <2>2, IterationStays
<1>7. f = [i \in 0..n |-> IF i = 0 THEN b
                          ELSE IF f[i - 1] = NoBlock THEN NoBlock ELSE p[f[i - 1]]]
  <2>1. \A i \in 0..n : f[i] = IF i = 0 THEN b
                               ELSE IF f[i - 1] = NoBlock THEN NoBlock ELSE p[f[i - 1]]
    <3> TAKE i \in 0..n
    <3>1. CASE i = 0
      BY <1>2, <1>5, <3>1 DEF Iterates
    <3>2. CASE i # 0
      <4>1. f[i] = step[i][f[i - 1]]
        BY <1>2, <1>5, <3>2 DEF Iterates
      <4>2. f[i - 1] \in S /\ i \in 1..n
        BY <1>2, <1>6, <3>2
      <4> QED
        BY <1>4, <3>2, <4>1, <4>2
    <3> QED
      BY <3>1, <3>2
  <2>2. f = [i \in 0..n |-> f[i]]
    BY <1>5 DEF Iterates
  <2> QED
    BY <2>1, <2>2
<1>8. PICK w : w = CHOOSE g : g = [i \in 0..n |-> IF i = 0 THEN b
                          ELSE IF g[i - 1] = NoBlock THEN NoBlock ELSE p[g[i - 1]]]
  OBVIOUS
<1>9. w = [i \in 0..n |-> IF i = 0 THEN b
                          ELSE IF w[i - 1] = NoBlock THEN NoBlock ELSE p[w[i - 1]]]
  BY <1>7, <1>8
<1>10. Path(p, b) = w
  BY <1>1, <1>8 DEF Path
<1>11. w[0] = b
  BY <1>2, <1>9
<1>12. \A i \in 1..n : w[i] = IF w[i - 1] = NoBlock THEN NoBlock ELSE p[w[i - 1]]
  BY <1>2, <1>9
<1>13. \A i \in 0..n : w[i] \in S
  <2>1. w[0] \in S
    BY <1>3, <1>11
  <2>2. \A i \in 1..n : w[i - 1] \in S => w[i] \in S
    BY <1>3, <1>12
  <2> QED
    BY <1>2, <2>1, <2>2, IterationStays
<1>14. w \in [0..n -> S]
  BY <1>9, <1>13
<1> QED
  BY <1>1, <1>3, <1>10, <1>11, <1>12, <1>14 DEF Follows
-----------------------------------------------------------------------------
(* The chain. *)

\* The chain has at most as many blocks as there are.
LEMMA ChainLength ==
    ASSUME NEW s \in BCS, NEW K \in SUBSET Block, NEW X, Links(s, K, X)
    PROVE  /\ Number[s.chain] \in Nat /\ Number[s.chainTail] \in Nat
           /\ Number[s.chainTail] <= Number[s.chain]
           /\ Number[s.chain] - Number[s.chainTail] < Cardinality(Block)
<1>1. \A b \in K : Number[b] \in Nat
  BY SliceAssumption
<1>2. s.chain \in K /\ s.chainTail \in K
  BY DEF Links
<1>3. PICK lo : lo = Number[s.chainTail]
  OBVIOUS
<1>4. PICK hi : hi = Number[s.chain]
  OBVIOUS
<1>5. lo \in Nat /\ hi \in Nat /\ lo <= hi
  BY <1>1, <1>2, <1>3, <1>4 DEF Links
<1>6. \A n \in lo..hi : \E b \in K : Number[b] = n
  BY <1>3, <1>4 DEF Links
<1>7. PICK e : e = [i \in 1..(hi - lo + 1) |-> CHOOSE b \in K : Number[b] = lo + i - 1]
  OBVIOUS
<1>8. \A i \in 1..(hi - lo + 1) : e[i] \in K /\ Number[e[i]] = lo + i - 1
  <2> TAKE i \in 1..(hi - lo + 1)
  <2>1. lo + i - 1 \in lo..hi
    BY <1>5
  <2>2. \E b \in K : Number[b] = lo + i - 1
    BY <1>6, <2>1
  <2> QED
    BY <1>7, <2>2
<1>9. e \in Seq(K) /\ Len(e) = hi - lo + 1
  <2>1. hi - lo + 1 \in Nat
    BY <1>5
  <2> QED
    BY <1>7, <1>8, <2>1
<1>10. \A i, j \in 1..Len(e) : e[i] = e[j] => i = j
  BY <1>5, <1>8, <1>9
<1>11. Cardinality({e[i] : i \in 1..Len(e)}) = hi - lo + 1
  BY <1>9, <1>10, LengthOfDistinct
<1>12. {e[i] : i \in 1..Len(e)} \in SUBSET Block
  BY <1>8, <1>9
<1>13. IsFiniteSet(Block)
  BY SliceAssumption
<1>14. Cardinality({e[i] : i \in 1..Len(e)}) <= Cardinality(Block)
  BY <1>12, <1>13, FS_Subset
<1> QED
  BY <1>3, <1>4, <1>5, <1>11, <1>14, BlockCount

\* From the head, the walk goes down one number at a time to the tail, and ends.
Descends(s, K) ==
    \A i \in 0..Cardinality(Block) :
        IF i <= Number[s.chain] - Number[s.chainTail]
        THEN Walk(s)[i] \in K /\ Number[Walk(s)[i]] = Number[s.chain] - i
        ELSE Walk(s)[i] = NoBlock

LEMMA WalkDescends ==
    ASSUME NEW s \in BCS, NEW K \in SUBSET Block, NEW X, Links(s, K, X)
    PROVE  Descends(s, K)
<1>1. PICK w : w = Walk(s)
  OBVIOUS
<1>2. s.next \in [Block -> Block \cup {NoBlock}] /\ s.chain \in Block \cup {NoBlock}
  BY DEF BCS
<1>3. Follows(w, s.next, s.chain)
  BY <1>1, <1>2, PathFollows DEF Walk
<1>4. PICK n : n = Cardinality(Block)
  OBVIOUS
<1>5. n \in Nat
  BY <1>4, BlockCount
<1>6. PICK hi : hi = Number[s.chain]
  OBVIOUS
<1>7. PICK m : m = hi - Number[s.chainTail]
  OBVIOUS
<1>8. hi \in Nat /\ m \in Nat /\ m < n /\ Number[s.chainTail] = hi - m /\ Number[s.chainTail] \in Nat
  BY <1>4, <1>6, <1>7, ChainLength
<1>9. PICK T : T = {i \in 0..n : IF i <= m THEN w[i] \in K /\ Number[w[i]] = hi - i
                                 ELSE w[i] = NoBlock}
  OBVIOUS
<1>10. 0 \in T
  BY <1>3, <1>5, <1>6, <1>8, <1>9 DEF Follows, Links
<1>11. ASSUME NEW i \in 1..n, i - 1 \in T PROVE i \in T
  <2>1. w[i] = IF w[i - 1] = NoBlock THEN NoBlock ELSE s.next[w[i - 1]]
    BY <1>3, <1>4 DEF Follows
  <2>2. CASE i <= m
    <3>1. w[i - 1] \in K /\ Number[w[i - 1]] = hi - (i - 1)
      BY <1>8, <1>9, <1>11, <2>2
    <3>2. w[i - 1] \in Block /\ w[i - 1] # NoBlock
      BY <3>1, SliceAssumption
    <3>3. w[i - 1] # s.chainTail
      BY <1>8, <2>2, <3>1
    <3>4. w[i] = Parent[w[i - 1]] /\ w[i] \in K
      BY <2>1, <3>1, <3>2, <3>3 DEF Links
    <3>5. Number[w[i - 1]] = Number[w[i]] + 1 /\ Number[w[i]] \in Nat
      BY <3>2, <3>4, SliceAssumption
    <3>6. Number[w[i]] = hi - i
      BY <1>8, <3>1, <3>5
    <3> QED
      BY <1>9, <2>2, <3>4, <3>6
  <2>3. CASE i = m + 1
    <3>1. w[i - 1] \in K /\ Number[w[i - 1]] = hi - m
      BY <1>8, <1>9, <1>11, <2>3
    <3>2. w[i - 1] = s.chainTail
      BY <1>8, <3>1 DEF Links
    <3>3. w[i] = NoBlock
      BY <2>1, <3>1, <3>2 DEF Links
    <3> QED
      BY <1>8, <1>9, <2>3, <3>3
  <2>4. CASE i > m + 1
    <3>1. w[i - 1] = NoBlock
      BY <1>8, <1>9, <1>11, <2>4
    <3> QED
      BY <1>8, <1>9, <2>1, <2>4, <3>1
  <2> QED
    BY <1>8, <2>2, <2>3, <2>4
<1>12. \A i \in 0..n : i \in T
  BY <1>5, <1>10, <1>11, CountUp
<1> QED
  BY <1>1, <1>4, <1>6, <1>7, <1>9, <1>12 DEF Descends

\* The blocks of the walk are the chain, and each is at its number's place.
LEMMA ChainedIsChain ==
    ASSUME NEW s \in BCS, NEW K \in SUBSET Block, NEW X, Links(s, K, X)
    PROVE  Chained(s) = K
<1>1. Descends(s, K)
  BY WalkDescends
<1>2. \A b \in K : Number[b] \in Nat /\ b # NoBlock
  BY SliceAssumption
<1>3. ASSUME NEW b \in Chained(s) PROVE b \in K
  BY <1>1, <1>3 DEF Chained, Descends
<1>4. ASSUME NEW b \in K PROVE b \in Chained(s)
  <2>1. PICK i : i = Number[s.chain] - Number[b]
    OBVIOUS
  <2>2. Number[s.chainTail] <= Number[b] /\ Number[b] <= Number[s.chain]
    BY DEF Links
  <2>3. i \in 0..Cardinality(Block) /\ i <= Number[s.chain] - Number[s.chainTail]
    BY <1>2, <2>1, <2>2, ChainLength, BlockCount
  <2>4. Walk(s)[i] \in K /\ Number[Walk(s)[i]] = Number[s.chain] - i
    BY <1>1, <2>3 DEF Descends
  <2>5. Number[Walk(s)[i]] = Number[b]
    BY <1>2, <2>1, <2>4, ChainLength
  <2>6. Walk(s)[i] = b
    BY <2>4, <2>5 DEF Links
  <2> QED
    BY <1>2, <2>3, <2>6 DEF Chained
<1> QED
  BY <1>3, <1>4

\* The walk is made of blocks.
LEMMA WalkType ==
    ASSUME NEW s \in BCS
    PROVE  /\ \A i \in 0..Cardinality(Block) : Walk(s)[i] \in Block \cup {NoBlock}
           /\ Walk(s)[0] = s.chain
           /\ Chained(s) \in SUBSET Block
<1>1. s.next \in [Block -> Block \cup {NoBlock}] /\ s.chain \in Block \cup {NoBlock}
  BY DEF BCS
<1>2. Follows(Walk(s), s.next, s.chain)
  BY <1>1, PathFollows DEF Walk
<1> QED
  BY <1>2 DEF Follows, Chained
-----------------------------------------------------------------------------
(* What the parts of the invariant need. *)

\* The chain of a struct with other orphans, requests, transactions...
LEMMA LinksKept ==
    ASSUME NEW s \in BCS, NEW t \in BCS, NEW K \in SUBSET Block, NEW X, NEW Y, Links(s, K, X),
           t.chain = s.chain, t.chainTail = s.chainTail, t.next = s.next,
           K \subseteq t.blocks, t.orphans \subseteq s.orphans, t.orphans \subseteq t.blocks,
           Y \subseteq X
    PROVE  Links(t, K, Y)
BY DEF Links

\* Nothing is lost of what was known, and the blocks are as they were.
LEMMA KnowsKept ==
    ASSUME NEW s \in BCS, NEW t \in BCS, Knows(s),
           t.request = s.request, t.held = s.held, t.valid = s.valid,
           \A x \in Tx : s.transactions[x] # NoStatus => t.transactions[x] # NoStatus
    PROVE  Knows(t)
<1>1. \A b \in Block : Complete(t, b) <=> Complete(s, b)
  BY DEF Complete
<1>2. \A b \in Block : TxOf[b] \subseteq Tx
  BY SliceAssumption
<1> QED
  BY <1>1, <1>2 DEF Knows

LEMMA WaitsKept ==
    ASSUME NEW s \in BCS, NEW t \in BCS, NEW q, Waits(s, q),
           \A x \in Tx : \/ t.transactions[x] = s.transactions[x]
                         \/ Final(t.transactions[x]),
           s.pendingTransactions \subseteq t.pendingTransactions
    PROVE  Waits(t, q)
BY Zenon DEF Waits

LEMMA GoodHas ==
    ASSUME NEW q, NEW X, NEW s \in Good(q, X)
    PROVE  /\ s \in BCS /\ ~s.failed /\ Knows(s) /\ Waits(s, q)
           /\ \E K \in SUBSET Block : Links(s, K, X)
BY Zenon DEF Good

LEMMA GoodIs ==
    ASSUME NEW q, NEW X, NEW s \in BCS, ~s.failed, NEW K \in SUBSET Block, Links(s, K, X),
           Knows(s), Waits(s, q)
    PROVE  s \in Good(q, X)
BY Zenon DEF Good

\* A struct with nothing else changed than what does not matter here
LEMMA GoodKept ==
    ASSUME NEW q, NEW X, NEW Y, Y \subseteq X, NEW s \in Good(q, X), NEW t \in BCS,
           t.blocks = s.blocks, t.orphans \subseteq s.orphans,
           t.chain = s.chain, t.chainTail = s.chainTail, t.next = s.next,
           t.request = s.request, t.held = s.held, t.valid = s.valid,
           t.transactions = s.transactions,
           s.pendingTransactions \subseteq t.pendingTransactions, t.failed = s.failed
    PROVE  t \in Good(q, Y)
<1>1. s \in BCS /\ ~s.failed /\ Knows(s) /\ Waits(s, q)
  BY GoodHas
<1>2. PICK K \in SUBSET Block : Links(s, K, X)
  BY GoodHas
<1>3. Links(t, K, Y)
  <2>1. K \subseteq t.blocks /\ t.orphans \subseteq t.blocks
    BY <1>2 DEF Links
  <2> QED
    BY <1>1, <1>2, <2>1, LinksKept
<1>4. Knows(t)
  BY <1>1, KnowsKept
<1>5. Waits(t, q)
  BY <1>1, WaitsKept
<1> QED
  BY <1>1, <1>3, <1>4, <1>5, GoodIs

-----------------------------------------------------------------------------
(* Chaining orphans. *)

\* A block on the head becomes the head.
LEMMA LinkOne ==
    ASSUME NEW s \in BCS, NEW t \in BCS, NEW K \in SUBSET Block, NEW X, NEW Y, Links(s, K, X),
           NEW b \in Block, b \in s.blocks, b \notin K, Parent[b] = s.chain,
           Y \subseteq X, b \notin Y,
           t.blocks = s.blocks, t.orphans = s.orphans \ {b}, t.chain = b,
           t.chainTail = s.chainTail, t.next = [s.next EXCEPT ![b] = s.chain]
    PROVE  Links(t, K \cup {b}, Y)
<1>1. s.chain \in K /\ s.chainTail \in K /\ s.chain # NoBlock /\ b # s.chainTail
  BY SliceAssumption DEF Links
<1>2. PICK hi : hi = Number[s.chain]
  OBVIOUS
<1>3. PICK lo : lo = Number[s.chainTail]
  OBVIOUS
<1>4. hi \in Nat /\ lo \in Nat /\ lo <= hi /\ Number[b] = hi + 1
  BY <1>1, <1>2, <1>3, ChainLength, SliceAssumption
<1>5. s.next \in [Block -> Block \cup {NoBlock}]
  BY DEF BCS
<1>6. \A c \in K : Number[c] \in Nat /\ lo <= Number[c] /\ Number[c] <= hi
  BY <1>2, <1>3, SliceAssumption DEF Links
<1>7. K \cup {b} \subseteq t.blocks \ t.orphans /\ t.orphans \subseteq t.blocks
  BY DEF Links
<1>8. Y \cap ((K \cup {b}) \cup t.orphans) = {}
  BY DEF Links
<1>9. ASSUME NEW c \in K \cup {b}
      PROVE  t.next[c] = IF c = t.chainTail THEN NoBlock ELSE Parent[c]
  <2>1. CASE c = b
    BY <1>1, <1>5, <2>1
  <2>2. CASE c # b
    BY <1>5, <2>2 DEF Links
  <2> QED
    BY <2>1, <2>2
<1>10. \A c \in K \cup {b} : c # t.chainTail => Parent[c] \in K \cup {b}
  BY <1>1 DEF Links
<1>11. \A c \in K \cup {b} : Number[t.chainTail] <= Number[c] /\ Number[c] <= Number[t.chain]
  BY <1>3, <1>4, <1>6
<1>12. \A c, d \in K \cup {b} : Number[c] = Number[d] => c = d
  <2> TAKE c, d \in K \cup {b}
  <2>1. c \in K /\ d \in K => (Number[c] = Number[d] => c = d)
    BY DEF Links
  <2>2. c \in K /\ d = b => Number[c] # Number[d]
    BY <1>4, <1>6
  <2>3. d \in K /\ c = b => Number[c] # Number[d]
    BY <1>4, <1>6
  <2> QED
    BY <2>1, <2>2, <2>3
<1>13. \A n \in Number[t.chainTail]..Number[t.chain] : \E c \in K \cup {b} : Number[c] = n
  <2> TAKE n \in Number[t.chainTail]..Number[t.chain]
  <2>1. n \in lo..hi \/ n = hi + 1
    BY <1>3, <1>4
  <2>2. CASE n \in lo..hi
    BY <1>2, <1>3, <2>2 DEF Links
  <2>3. CASE n = hi + 1
    BY <1>4, <2>3
  <2> QED
    BY <2>1, <2>2, <2>3
<1>14. t.chain \in K \cup {b} /\ t.chainTail \in K \cup {b}
  BY <1>1
<1> QED
  BY <1>7, <1>8, <1>9, <1>10, <1>11, <1>12, <1>13, <1>14, Zenon DEF Links

\* One round of bcsChainOrphans.
LEMMA ChainOneOrphanGood ==
    ASSUME NEW q, NEW X, NEW s \in Good(q, X)
    PROVE  ChainOneOrphan(s) \in Good(q, X) /\ ChainOneOrphan(s).blocks = s.blocks
<1>1. s \in BCS /\ ~s.failed /\ Knows(s) /\ Waits(s, q)
  BY GoodHas
<1>2. PICK K \in SUBSET Block : Links(s, K, X)
  BY GoodHas
<1>3. PICK children : children = {o \in s.orphans : Parent[o] = s.chain}
  OBVIOUS
<1>4. CASE children = {}
  <2>1. ChainOneOrphan(s) = s
    BY <1>3, <1>4 DEF ChainOneOrphan
  <2> QED
    BY <2>1
<1>5. CASE children # {}
  <2>1. children \in SUBSET Block
    BY <1>1, <1>3 DEF BCS
  <2>2. IsFiniteSet(children)
    BY <2>1, SliceAssumption, FS_Subset
  <2>3. \A o \in children : Preference[o] \in Nat
    BY <2>1, SliceAssumption
  <2>4. \E o \in children : \A c \in children : Preference[c] <= Preference[o]
    BY <1>5, <2>2, <2>3, GreatestOfFinite
  <2>5. PICK b : b = CHOOSE o \in children : \A c \in children : Preference[c] <= Preference[o]
    OBVIOUS
  <2>6. b \in children
    BY <2>4, <2>5
  <2>7. PICK t : t = [ExtendChain(s, b) EXCEPT !.orphans = @ \ {b}]
    OBVIOUS
  <2>8. ChainOneOrphan(s) = t
    BY <1>3, <1>5, <2>5, <2>7 DEF ChainOneOrphan
  <2>9. b \in Block /\ b \in s.orphans /\ Parent[b] = s.chain
    BY <1>3, <2>1, <2>6
  <2>10. /\ t \in BCS
         /\ t.next = [s.next EXCEPT ![b] = s.chain] /\ t.chain = b
         /\ t.blocks = s.blocks /\ t.orphans = s.orphans \ {b} /\ t.chainTail = s.chainTail
         /\ t.request = s.request /\ t.held = s.held /\ t.valid = s.valid
         /\ t.transactions = s.transactions
         /\ t.pendingTransactions = s.pendingTransactions /\ t.failed = s.failed
    BY <1>1, <2>7, <2>9 DEF ExtendChain, BCS
  <2>11. b \in s.blocks /\ b \notin K /\ b \notin X
    BY <1>2, <2>9 DEF Links
  <2>12. Links(t, K \cup {b}, X)
    BY <1>1, <1>2, <2>9, <2>10, <2>11, LinkOne
  <2>13. K \cup {b} \in SUBSET Block
    BY <2>9
  <2>14. Knows(t)
    BY <1>1, <2>10, KnowsKept
  <2>15. Waits(t, q)
    BY <1>1, <2>10, WaitsKept
  <2> QED
    BY <1>1, <2>8, <2>10, <2>12, <2>13, <2>14, <2>15, GoodIs
<1> QED
  BY <1>4, <1>5

\* bcsChainOrphans: the loop
LEMMA ChainOrphansGood ==
    ASSUME NEW q, NEW X, NEW s \in Good(q, X)
    PROVE  ChainOrphans(s) \in Good(q, X) /\ ChainOrphans(s).blocks = s.blocks
<1>1. PICK S : S = {t \in Good(q, X) : t.blocks = s.blocks}
  OBVIOUS
<1>2. PICK n : n = Cardinality(s.orphans)
  OBVIOUS
<1>3. n \in Nat
  <2>0. s \in BCS
    BY GoodHas
  <2>1. s.orphans \in SUBSET Block
    BY <2>0 DEF BCS
  <2>2. IsFiniteSet(s.orphans)
    BY <2>1, SliceAssumption, FS_Subset
  <2> QED
    BY <1>2, <2>2, FS_CardinalityType
<1>4. \A t \in S : ChainOneOrphan(t) \in S
  BY <1>1, ChainOneOrphanGood
<1>5. PICK step : step = [i \in 1..n |-> [t \in S |-> ChainOneOrphan(t)]]
  OBVIOUS
<1>6. PICK f : Iterates(f, step, s, n)
  <2>1. n \in 0..n
    BY <1>3
  <2> QED
    BY <1>3, <2>1, IterationExists
<1>7. \A i \in 0..n : f[i] \in S
  <2>1. f[0] \in S
    BY <1>1, <1>3, <1>6 DEF Iterates
  <2>2. ASSUME NEW i \in 1..n, f[i - 1] \in S PROVE f[i] \in S
    <3>1. f[i] = step[i][f[i - 1]]
      BY <1>3, <1>6 DEF Iterates
    <3> QED
      BY <1>4, <1>5, <2>2, <3>1
  <2> QED
    BY <1>3, <2>1, <2>2, IterationStays
<1>8. f = [i \in 0..n |-> IF i = 0 THEN s ELSE ChainOneOrphan(f[i - 1])]
  <2>1. \A i \in 0..n : f[i] = IF i = 0 THEN s ELSE ChainOneOrphan(f[i - 1])
    <3> TAKE i \in 0..n
    <3>1. CASE i = 0
      BY <1>3, <1>6, <3>1 DEF Iterates
    <3>2. CASE i # 0
      <4>1. f[i] = step[i][f[i - 1]]
        BY <1>3, <1>6, <3>2 DEF Iterates
      <4>2. f[i - 1] \in S /\ i \in 1..n
        BY <1>3, <1>7, <3>2
      <4> QED
        BY <1>5, <3>2, <4>1, <4>2
    <3> QED
      BY <3>1, <3>2
  <2>2. f = [i \in 0..n |-> f[i]]
    BY <1>6 DEF Iterates
  <2> QED
    BY <2>1, <2>2
<1>9. PICK r : r = CHOOSE g : g = [i \in 0..n |-> IF i = 0 THEN s ELSE ChainOneOrphan(g[i - 1])]
  OBVIOUS
<1>10. r = [i \in 0..n |-> IF i = 0 THEN s ELSE ChainOneOrphan(r[i - 1])]
  BY <1>8, <1>9
<1>11. ChainOrphans(s) = r[n]
  BY <1>2, <1>9 DEF ChainOrphans
<1>12. r[0] \in S
  BY <1>1, <1>3, <1>10
<1>13. \A i \in 1..n : r[i - 1] \in S => r[i] \in S
  BY <1>3, <1>4, <1>10
<1>14. \A i \in 0..n : r[i] \in S
  BY <1>3, <1>12, <1>13, IterationStays
<1>15. n \in 0..n
  BY <1>3
<1> QED
  BY <1>1, <1>11, <1>14, <1>15
\* bcsPurgeOrphans
LEMMA PurgeOrphansGood ==
    ASSUME NEW q, NEW X, NEW s \in Good(q, X)
    PROVE  PurgeOrphans(s) \in Good(q, X) /\ PurgeOrphans(s).blocks = s.blocks
<1>1. s \in BCS
  BY GoodHas
<1>2. PICK old : old = {o \in s.orphans : ~ /\ Number[s.chain] > OrphanAge
                                            /\ Number[o] < Number[s.chain] - OrphanAge
                                            /\ Complete(s, o)}
  OBVIOUS
<1>3. PICK t : t = [s EXCEPT !.orphans = old]
  OBVIOUS
<1>4. PurgeOrphans(s) = t
  BY <1>1, <1>2, <1>3 DEF PurgeOrphans, BCS
<1>5. old \in SUBSET s.orphans
  BY <1>2
<1>6. /\ t \in BCS /\ t.blocks = s.blocks /\ t.orphans = old
      /\ t.chain = s.chain /\ t.chainTail = s.chainTail /\ t.next = s.next
      /\ t.request = s.request /\ t.held = s.held /\ t.valid = s.valid
      /\ t.transactions = s.transactions
      /\ t.pendingTransactions = s.pendingTransactions /\ t.failed = s.failed
  BY <1>1, <1>3, <1>5 DEF BCS
<1> QED
  BY <1>4, <1>5, <1>6, GoodKept

\* bcsPendOrphanedTransactionsAndLogs
LEMMA PendOrphanedGood ==
    ASSUME NEW q, NEW X, NEW s \in Good(q, X)
    PROVE  PendOrphaned(s) \in Good(q, X)
<1>1. s \in BCS
  BY GoodHas
<1>2. PICK new : new = {t \in Tx : s.transactions[t].block \in s.orphans}
  OBVIOUS
<1>3. PICK t : t = [s EXCEPT !.pendingTransactions = @ \cup new]
  OBVIOUS
<1>4. PendOrphaned(s) = t
  BY <1>1, <1>2, <1>3 DEF PendOrphaned, BCS
<1>5. new \in SUBSET Tx
  BY <1>2
<1>6. /\ t \in BCS /\ t.blocks = s.blocks /\ t.orphans = s.orphans
      /\ t.chain = s.chain /\ t.chainTail = s.chainTail /\ t.next = s.next
      /\ t.request = s.request /\ t.held = s.held /\ t.valid = s.valid
      /\ t.transactions = s.transactions
      /\ t.pendingTransactions = s.pendingTransactions \cup new /\ t.failed = s.failed
  BY <1>1, <1>3, <1>5 DEF BCS
<1> QED
  BY <1>4, <1>6, GoodKept

-----------------------------------------------------------------------------
(* Reclaiming blocks. *)

Reclaimed(t, s, old) ==
    /\ t \in BCS
    /\ t.next = [b \in Block |-> IF b \in old THEN NoBlock ELSE s.next[b]]
    /\ t.request = [b \in Block |-> IF b \in old THEN NothingAsked ELSE s.request[b]]
    /\ t.held = [b \in Block |-> IF b \in old THEN {} ELSE s.held[b]]
    /\ t.blocks = s.blocks \ old /\ t.orphans = s.orphans \ old
    /\ t.valid = s.valid \ old
    /\ t.chain = s.chain /\ t.chainTail = s.chainTail
    /\ t.transactions = s.transactions
    /\ t.pendingTransactions = s.pendingTransactions /\ t.failed = s.failed

LEMMA ReclaimBlocksFields ==
    ASSUME NEW s \in BCS, NEW old \in SUBSET Block
    PROVE  Reclaimed(ReclaimBlocks(s, old), s, old)
BY DEF Reclaimed, ReclaimBlocks, BCS, NothingAsked, Kind

\* Of the blocks that are freed nothing is asked for any more.
LEMMA ReclaimBlocksKnows ==
    ASSUME NEW s \in BCS, NEW old \in SUBSET Block, NEW t, Reclaimed(t, s, old), Knows(s)
    PROVE  Knows(t)
<1>1. \A b \in Block \ old : t.request[b] = s.request[b] /\ t.held[b] = s.held[b]
  BY DEF Reclaimed
<1>2. \A b \in Block \ old : Complete(t, b) <=> Complete(s, b)
  BY <1>1 DEF Complete
<1>3. \A b \in Block \ old : b \in t.valid <=> b \in s.valid
  BY DEF Reclaimed
<1>4. \A b \in old : t.request[b]["bodies"] = "not needed"
  <2>1. \A b \in old : t.request[b] = NothingAsked
    BY DEF Reclaimed
  <2>2. NothingAsked["bodies"] = "not needed"
    BY DEF NothingAsked, Kind
  <2> QED
    BY <2>1, <2>2
<1>5. t.transactions = s.transactions
  BY DEF Reclaimed
<1>6. ASSUME NEW b \in Block, t.request[b]["bodies"] = "complete", NEW x \in TxOf[b]
      PROVE  \/ t.transactions[x] # NoStatus
             \/ x \in t.held[b] /\ ~(b \in t.valid /\ Complete(t, b))
  <2>1. b \notin old
    BY <1>4, <1>6
  <2>2. s.request[b]["bodies"] = "complete"
    BY <1>1, <1>6, <2>1
  <2> QED
    BY <1>1, <1>2, <1>3, <1>5, <2>1, <2>2 DEF Knows
<1> QED
  BY <1>6 DEF Knows

\* Blocks that are not on the chain can be freed.
LEMMA ReclaimBlocksGood ==
    ASSUME NEW q, NEW X, NEW s \in BCS, ~s.failed, Knows(s), Waits(s, q),
           NEW K \in SUBSET Block, Links(s, K, X),
           NEW old \in SUBSET Block, old \cap K = {}
    PROVE  ReclaimBlocks(s, old) \in Good(q, X)
<1>1. PICK t : t = ReclaimBlocks(s, old)
  OBVIOUS
<1>8. Reclaimed(t, s, old)
  BY <1>1, ReclaimBlocksFields
<1>2. /\ t \in BCS
      /\ t.next = [b \in Block |-> IF b \in old THEN NoBlock ELSE s.next[b]]
      /\ t.blocks = s.blocks \ old /\ t.orphans = s.orphans \ old
      /\ t.chain = s.chain /\ t.chainTail = s.chainTail
      /\ t.transactions = s.transactions
      /\ t.pendingTransactions = s.pendingTransactions /\ t.failed = s.failed
  BY <1>8 DEF Reclaimed
<1>3. \A b \in K : t.next[b] = s.next[b]
  BY <1>2
<1>4. K \subseteq t.blocks \ t.orphans /\ t.orphans \subseteq t.blocks
      /\ X \cap (K \cup t.orphans) = {}
  BY <1>2 DEF Links
<1>5. Links(t, K, X)
  BY <1>2, <1>3, <1>4 DEF Links
<1>6. Knows(t)
  BY <1>8, ReclaimBlocksKnows
<1>7. Waits(t, q)
  BY <1>2, WaitsKept
<1> QED
  BY <1>1, <1>2, <1>5, <1>6, <1>7, GoodIs

-----------------------------------------------------------------------------
(* The transactions of a block. *)

\* As Knows, except that the transactions of b may still be held.
KnowsBut(s, b) ==
    \A c \in Block : s.request[c]["bodies"] = "complete" =>
        \A t \in TxOf[c] : \/ s.transactions[t] # NoStatus
                           \/ t \in s.held[c] /\ (c = b \/ ~(c \in s.valid /\ Complete(s, c)))

LEMMA ExtendTransactionsGood ==
    ASSUME NEW q, NEW X, NEW s \in BCS, ~s.failed, NEW K \in SUBSET Block, Links(s, K, X),
           Waits(s, q), NEW b \in Block, KnowsBut(s, b)
    PROVE  ExtendTransactions(s, b) \in Good(q, X)
<1>1. CASE ~Complete(s, b) \/ b \notin s.valid
  <2>1. Knows(s)
    BY <1>1, Zenon DEF Knows, KnowsBut
  <2>2. ExtendTransactions(s, b) = s
    BY <1>1 DEF ExtendTransactions
  <2> QED
    BY <2>1, <2>2, GoodIs
<1>2. CASE ~(~Complete(s, b) \/ b \notin s.valid)
  <2>1. PICK t : t = HandleHeld(s, b)
    OBVIOUS
  <2>2. Included(b) \in Status /\ Included(b) # NoStatus /\ Final(Included(b))
    BY DEF Included, Status, NoStatus, Final
  <2>3. /\ t \in BCS
        /\ t.transactions = [x \in Tx |-> IF x \in s.held[b] THEN Included(b)
                                          ELSE s.transactions[x]]
        /\ t.held = [s.held EXCEPT ![b] = {}]
        /\ t.blocks = s.blocks /\ t.orphans = s.orphans /\ t.valid = s.valid
        /\ t.chain = s.chain /\ t.chainTail = s.chainTail /\ t.next = s.next
        /\ t.request = s.request
        /\ t.pendingTransactions = s.pendingTransactions /\ t.failed = s.failed
    BY <2>1, <2>2 DEF HandleHeld, BCS
  <2>4. Links(t, K, X)
    <3>1. K \subseteq t.blocks /\ t.orphans \subseteq t.blocks
      BY <2>3 DEF Links
    <3> QED
      BY <2>3, <3>1, LinksKept
  <2>5. Knows(t)
    <3>1. \A c \in Block : Complete(t, c) <=> Complete(s, c)
      BY <2>3 DEF Complete
    <3>2. s.held \in [Block -> SUBSET Tx]
      BY DEF BCS
    <3> SUFFICES ASSUME NEW c \in Block, t.request[c]["bodies"] = "complete", NEW x \in TxOf[c]
                 PROVE  \/ t.transactions[x] # NoStatus
                        \/ x \in t.held[c] /\ ~(c \in t.valid /\ Complete(t, c))
      BY Zenon DEF Knows
    <3>3. x \in Tx
      BY SliceAssumption
    <3>4. s.transactions[x] # NoStatus => t.transactions[x] # NoStatus
      BY <2>2, <2>3, <3>3
    <3>5. \/ s.transactions[x] # NoStatus
          \/ x \in s.held[c] /\ (c = b \/ ~(c \in s.valid /\ Complete(s, c)))
      BY <2>3 DEF KnowsBut
    <3>6. CASE c = b
      <4>1. x \in s.held[b] => t.transactions[x] # NoStatus
        BY <2>2, <2>3, <3>3
      <4> QED
        BY <3>4, <3>5, <3>6, <4>1
    <3>7. CASE c # b
      <4>1. t.held[c] = s.held[c]
        BY <2>3, <3>2, <3>7
      <4> QED
        BY <2>3, <3>1, <3>4, <3>5, <3>7, <4>1
    <3> QED
      BY <3>6, <3>7
  <2>6. Waits(t, q)
    <3>1. \A x \in Tx : t.transactions[x] = s.transactions[x] \/ Final(t.transactions[x])
      BY <2>2, <2>3
    <3> QED
      BY <2>3, <3>1, WaitsKept
  <2>7. CASE s.chainTail # b /\ s.next[b] = NoBlock /\ b \notin s.orphans
    <3>1. ExtendTransactions(s, b) = ReclaimBlocks(t, {b})
      BY <1>2, <2>1, <2>7 DEF ExtendTransactions
    <3>2. b \notin K
      BY <2>7, SliceAssumption DEF Links
    <3>3. {b} \in SUBSET Block /\ {b} \cap K = {}
      BY <3>2
    <3>4. ~t.failed
      BY <2>3
    <3> QED
      BY <2>3, <2>4, <2>5, <2>6, <3>1, <3>3, <3>4, ReclaimBlocksGood
  <2>8. CASE ~(s.chainTail # b /\ s.next[b] = NoBlock /\ b \notin s.orphans)
    <3>1. ExtendTransactions(s, b) = t
      BY <1>2, <2>1, <2>8 DEF ExtendTransactions
    <3>2. ~t.failed
      BY <2>3
    <3> QED
      BY <2>3, <2>4, <2>5, <2>6, <3>1, <3>2, GoodIs
  <2> QED
    BY <2>7, <2>8
<1> QED
  BY <1>1, <1>2
LEMMA KnowsIsKnowsBut ==
    ASSUME NEW s, NEW b, Knows(s)
    PROVE  KnowsBut(s, b)
BY Zenon DEF Knows, KnowsBut

\* The number of blocks above one is reached by the walk, and before it there
\* are only blocks.
LEMMA AboveProperties ==
    ASSUME NEW s \in BCS, NEW K \in SUBSET Block, NEW X, Links(s, K, X), NEW bottom
    PROVE  /\ Above(s, bottom) \in 0..Cardinality(Block)
           /\ Walk(s)[Above(s, bottom)] \in {NoBlock, bottom}
           /\ \A i \in 0..(Above(s, bottom) - 1) : Walk(s)[i] \in Block
<1>1. PICK S : S = {i \in 0..Cardinality(Block) : Walk(s)[i] \in {NoBlock, bottom}}
  OBVIOUS
<1>2. PICK m : m = Number[s.chain] - Number[s.chainTail]
  OBVIOUS
<1>3. m \in Nat /\ m < Cardinality(Block)
  BY <1>2, ChainLength
<1>4. m + 1 \in 0..Cardinality(Block) /\ ~(m + 1 <= m)
  BY <1>3, BlockCount
<1>5. Walk(s)[m + 1] = NoBlock
  BY <1>2, <1>4, WalkDescends DEF Descends
<1>6. S \in SUBSET Nat /\ S # {}
  BY <1>1, <1>4, <1>5
<1>7. PICK a : a = Min(S)
  OBVIOUS
<1>8. a \in S /\ \A i \in S : a <= i
  BY <1>6, <1>7, MinProperties
<1>9. Above(s, bottom) = a
  BY <1>1, <1>7 DEF Above
<1>10. ASSUME NEW i \in 0..(a - 1) PROVE Walk(s)[i] \in Block
  <2>1. i \in 0..Cardinality(Block) /\ i < a
    BY <1>1, <1>8, BlockCount
  <2>2. i \notin S
    BY <1>1, <1>8, <2>1
  <2> QED
    BY <1>1, <2>1, <2>2, WalkType
<1> QED
  BY <1>1, <1>8, <1>9, <1>10

\* The loop over the blocks above one
LEMMA ExtendTransactionsAboveGood ==
    ASSUME NEW q, NEW X, NEW s \in Good(q, X), NEW bottom
    PROVE  ExtendTransactionsAbove(s, bottom) \in Good(q, X)
<1>1. PICK S : S = Good(q, X)
  OBVIOUS
<1>2. PICK n : n = Above(s, bottom)
  OBVIOUS
<1>3. n \in Nat /\ \A i \in 1..n : Walk(s)[i - 1] \in Block
  <2>1. s \in BCS
    BY GoodHas
  <2>2. PICK K \in SUBSET Block : Links(s, K, X)
    BY GoodHas
  <2>3. n \in 0..Cardinality(Block) /\ \A i \in 0..(n - 1) : Walk(s)[i] \in Block
    BY <1>2, <2>1, <2>2, AboveProperties
  <2> QED
    BY <2>3, BlockCount
<1>4. \A t \in S : \A b \in Block : ExtendTransactions(t, b) \in S
  <2> SUFFICES ASSUME NEW t \in Good(q, X), NEW b \in Block
               PROVE  ExtendTransactions(t, b) \in Good(q, X)
    BY <1>1
  <2>1. t \in BCS /\ ~t.failed /\ Knows(t) /\ Waits(t, q)
    BY GoodHas
  <2>2. PICK K \in SUBSET Block : Links(t, K, X)
    BY GoodHas
  <2>3. KnowsBut(t, b)
    BY <2>1, KnowsIsKnowsBut
  <2> QED
    BY <2>1, <2>2, <2>3, ExtendTransactionsGood
<1>5. PICK step : step = [i \in 1..n |-> [t \in S |-> ExtendTransactions(t, Walk(s)[i - 1])]]
  OBVIOUS
<1>6. PICK f : Iterates(f, step, s, n)
  <2>1. n \in 0..n
    BY <1>3
  <2> QED
    BY <1>3, <2>1, IterationExists
<1>7. \A i \in 0..n : f[i] \in S
  <2>1. f[0] \in S
    BY <1>1, <1>3, <1>6 DEF Iterates
  <2>2. ASSUME NEW i \in 1..n, f[i - 1] \in S PROVE f[i] \in S
    <3>1. f[i] = step[i][f[i - 1]]
      BY <1>3, <1>6 DEF Iterates
    <3> QED
      BY <1>3, <1>4, <1>5, <2>2, <3>1
  <2> QED
    BY <1>3, <2>1, <2>2, IterationStays
<1>8. f = [i \in 0..n |-> IF i = 0 THEN s ELSE ExtendTransactions(f[i - 1], Walk(s)[i - 1])]
  <2>1. \A i \in 0..n : f[i] = IF i = 0 THEN s
                               ELSE ExtendTransactions(f[i - 1], Walk(s)[i - 1])
    <3> TAKE i \in 0..n
    <3>1. CASE i = 0
      BY <1>3, <1>6, <3>1 DEF Iterates
    <3>2. CASE i # 0
      <4>1. f[i] = step[i][f[i - 1]]
        BY <1>3, <1>6, <3>2 DEF Iterates
      <4>2. f[i - 1] \in S /\ i \in 1..n
        BY <1>3, <1>7, <3>2
      <4> QED
        BY <1>5, <3>2, <4>1, <4>2
    <3> QED
      BY <3>1, <3>2
  <2>2. f = [i \in 0..n |-> f[i]]
    BY <1>6 DEF Iterates
  <2> QED
    BY <2>1, <2>2
<1>9. PICK r : r = CHOOSE g :
                     g = [i \in 0..n |-> IF i = 0 THEN s
                                         ELSE ExtendTransactions(g[i - 1], Walk(s)[i - 1])]
  OBVIOUS
<1>10. r = [i \in 0..n |-> IF i = 0 THEN s ELSE ExtendTransactions(r[i - 1], Walk(s)[i - 1])]
  BY <1>8, <1>9
<1>11. ExtendTransactionsAbove(s, bottom) = r[n]
  BY <1>2, <1>9 DEF ExtendTransactionsAbove
<1>12. r[0] \in S
  BY <1>1, <1>3, <1>10
<1>13. \A i \in 1..n : r[i - 1] \in S => r[i] \in S
  BY <1>3, <1>4, <1>10
<1>14. \A i \in 0..n : r[i] \in S
  BY <1>3, <1>12, <1>13, IterationStays
<1>15. n \in 0..n
  BY <1>3
<1> QED
  BY <1>1, <1>11, <1>14, <1>15

\* bcsReclaimAndSaveBlocksIfAppropriate: the tail moves up.
LEMMA ReclaimAndSaveGood ==
    ASSUME NEW q, NEW X, NEW s \in Good(q, X)
    PROVE  ReclaimAndSave(s) \in Good(q, X)
<1>1. s \in BCS /\ ~s.failed /\ Knows(s) /\ Waits(s, q)
  BY GoodHas
<1>2. PICK K \in SUBSET Block : Links(s, K, X)
  BY GoodHas
<1>3. PICK hi : hi = Number[s.chain]
  OBVIOUS
<1>4. PICK lo : lo = Number[s.chainTail]
  OBVIOUS
<1>5. hi \in Nat /\ lo \in Nat /\ lo <= hi /\ SaveCount \in Nat /\ SaveCount > 0
  BY <1>1, <1>2, <1>3, <1>4, ChainLength, SliceAssumption
<1>6. CASE hi - lo < 2 * SaveCount
  <2>1. ReclaimAndSave(s) = s
    BY <1>3, <1>4, <1>6 DEF ReclaimAndSave
  <2> QED
    BY <2>1
<1>7. CASE ~(hi - lo < 2 * SaveCount)
  <2>1. PICK from : from = hi - SaveCount
    OBVIOUS
  <2>2. from \in lo..hi /\ from > lo /\ from < hi /\ from \in Nat
    BY <1>5, <1>7, <2>1
  <2>3. Chained(s) = K
    BY <1>1, <1>2, ChainedIsChain
  <2>4. PICK old : old = {b \in K : Number[b] < from}
    OBVIOUS
  <2>5. PICK tail : tail = CHOOSE b \in K : Number[b] = from
    OBVIOUS
  <2>6. tail \in K /\ Number[tail] = from
    BY <1>2, <1>3, <1>4, <2>2, <2>5 DEF Links
  <2>7. PICK r : r = ReclaimBlocks(s, old)
    OBVIOUS
  <2>8. PICK short : short = [r EXCEPT !.chainTail = tail, !.next[tail] = NoBlock]
    OBVIOUS
  <2>9. PICK t : t = [short EXCEPT !.saved = Chained(short) \ {short.chain}]
    OBVIOUS
  <2>10. ReclaimAndSave(s) = t
    BY <1>3, <1>4, <1>7, <2>1, <2>3, <2>4, <2>5, <2>7, <2>8, <2>9 DEF ReclaimAndSave
  <2>11. old \in SUBSET Block
    BY <2>4
  <2>12. Reclaimed(r, s, old)
    BY <1>1, <2>7, <2>11, ReclaimBlocksFields
  <2>13. r \in BCS /\ tail \in Block
    BY <2>6, <2>12 DEF Reclaimed
  <2>14. /\ short \in BCS /\ short.chainTail = tail
         /\ short.next = [r.next EXCEPT ![tail] = NoBlock]
         /\ short.blocks = r.blocks /\ short.orphans = r.orphans /\ short.chain = r.chain
         /\ short.request = r.request /\ short.held = r.held /\ short.valid = r.valid
         /\ short.transactions = r.transactions
         /\ short.pendingTransactions = r.pendingTransactions /\ short.failed = r.failed
    BY <2>8, <2>13 DEF BCS
  <2>15. Chained(short) \ {short.chain} \in SUBSET Block
    BY <2>14, WalkType
  <2>16. /\ t \in BCS /\ t.chainTail = tail
         /\ t.next = [r.next EXCEPT ![tail] = NoBlock]
         /\ t.blocks = r.blocks /\ t.orphans = r.orphans /\ t.chain = r.chain
         /\ t.request = r.request /\ t.held = r.held /\ t.valid = r.valid
         /\ t.transactions = r.transactions
         /\ t.pendingTransactions = r.pendingTransactions /\ t.failed = r.failed
    BY <2>9, <2>14, <2>15 DEF BCS
  <2>17. PICK L : L = K \ old
    OBVIOUS
  <2>18. \A b \in K : Number[b] \in Nat /\ lo <= Number[b] /\ Number[b] <= hi
    BY <1>2, <1>3, <1>4, SliceAssumption DEF Links
  <2>19. \A b \in L : b \in K /\ from <= Number[b]
    BY <2>2, <2>4, <2>17, <2>18
  <2>20. \A b \in K : from <= Number[b] => b \in L
    BY <2>2, <2>4, <2>17, <2>18
  <2>21. Links(t, L, X)
    <3>1. L \subseteq t.blocks \ t.orphans /\ t.orphans \subseteq t.blocks
          /\ X \cap (L \cup t.orphans) = {}
      BY <1>2, <2>12, <2>16, <2>17 DEF Links, Reclaimed
    <3>2. t.chain \in L /\ t.chainTail \in L /\ t.chain = s.chain
      <4>1. s.chain \in K /\ t.chain = s.chain
        BY <1>2, <2>12, <2>16 DEF Links, Reclaimed
      <4> QED
        BY <1>3, <2>2, <2>6, <2>16, <2>18, <2>20, <4>1
    <3>3. ASSUME NEW b \in L PROVE t.next[b] = IF b = t.chainTail THEN NoBlock ELSE Parent[b]
      <4>1. CASE b = tail
        BY <2>13, <2>16, <4>1 DEF BCS
      <4>2. CASE b # tail
        <5>1. t.next[b] = r.next[b]
          BY <2>13, <2>16, <2>17, <3>3, <4>2 DEF BCS
        <5>2. r.next[b] = s.next[b]
          BY <2>12, <2>17, <3>3 DEF Reclaimed
        <5>3. b # s.chainTail
          BY <1>4, <1>5, <2>2, <2>19, <3>3
        <5>4. s.next[b] = Parent[b]
          BY <1>2, <2>19, <3>3, <5>3 DEF Links
        <5> QED
          BY <2>16, <4>2, <5>1, <5>2, <5>4
      <4> QED
        BY <4>1, <4>2
    <3>4. ASSUME NEW b \in L, b # t.chainTail PROVE Parent[b] \in L
      <4>1. b \in K /\ Number[b] # from
        BY <1>2, <2>6, <2>16, <2>19, <3>4 DEF Links
      <4>2. Number[b] > from
        BY <2>2, <2>18, <2>19, <3>4, <4>1
      <4>3. b # s.chainTail
        BY <1>4, <1>5, <2>2, <4>2
      <4>4. Parent[b] \in K
        BY <1>2, <4>1, <4>3 DEF Links
      <4>5. Number[b] = Number[Parent[b]] + 1 /\ Number[Parent[b]] \in Nat
        BY <4>1, <4>4, SliceAssumption
      <4> QED
        BY <2>2, <2>20, <4>2, <4>4, <4>5
    <3>5. \A b \in L : Number[t.chainTail] <= Number[b] /\ Number[b] <= Number[t.chain]
      BY <1>3, <2>6, <2>16, <2>18, <2>19, <3>2
    <3>6. \A b, c \in L : Number[b] = Number[c] => b = c
      BY <1>2, <2>19 DEF Links
    <3>7. ASSUME NEW n \in Number[t.chainTail]..Number[t.chain]
          PROVE  \E b \in L : Number[b] = n
      <4>1. n \in lo..hi /\ from <= n
        BY <1>3, <1>5, <2>2, <2>6, <2>16, <3>2, <3>7
      <4>2. PICK b \in K : Number[b] = n
        BY <1>2, <1>3, <1>4, <4>1 DEF Links
      <4> QED
        BY <2>20, <4>1, <4>2
    <3> QED
      BY <3>1, <3>2, <3>3, <3>4, <3>5, <3>6, <3>7, Zenon DEF Links
  <2>22. Knows(t)
    <3>1. Knows(r)
      BY <1>1, <2>11, <2>12, ReclaimBlocksKnows
    <3> QED
      BY <2>13, <2>16, <3>1, KnowsKept
  <2>23. Waits(t, q)
    <3>1. t.transactions = s.transactions /\ t.pendingTransactions = s.pendingTransactions
      BY <2>12, <2>16 DEF Reclaimed
    <3> QED
      BY <1>1, <2>16, <3>1, WaitsKept
  <2>24. ~t.failed /\ L \in SUBSET Block
    BY <1>1, <2>12, <2>16, <2>17 DEF Reclaimed
  <2> QED
    BY <2>10, <2>16, <2>21, <2>22, <2>23, <2>24, GoodIs
<1> QED
  BY <1>6, <1>7

\* The end of bcsExtendChainIfPossible
LEMMA ExtendedGood ==
    ASSUME NEW q, NEW X, NEW s \in Good(q, X), NEW parent
    PROVE  Extended(s, parent) \in Good(q, X)
<1>1. PICK a : a = ChainOrphans(s)
  OBVIOUS
<1>2. a \in Good(q, X)
  BY <1>1, ChainOrphansGood
<1>3. PICK p : p = PurgeOrphans(a)
  OBVIOUS
<1>4. p \in Good(q, X)
  BY <1>2, <1>3, PurgeOrphansGood
<1>5. PICK e : e = ExtendTransactionsAbove(p, parent)
  OBVIOUS
<1>6. e \in Good(q, X)
  BY <1>4, <1>5, ExtendTransactionsAboveGood
<1>7. PICK o : o = PendOrphaned(e)
  OBVIOUS
<1>8. o \in Good(q, X)
  BY <1>6, <1>7, PendOrphanedGood
<1>9. ReclaimAndSave(o) \in Good(q, X)
  BY <1>8, ReclaimAndSaveGood
<1> QED
  BY <1>1, <1>3, <1>5, <1>7, <1>9 DEF Extended
-----------------------------------------------------------------------------
(* The chain goes back. *)

\* The first n blocks of the chain become orphans.
LEMMA UnchainedGood ==
    ASSUME NEW q, NEW X, NEW s \in Good(q, X), NEW n \in Nat,
           n <= Number[s.chain] - Number[s.chainTail]
    PROVE  Unchained(s, n) \in Good(q, X) /\ Unchained(s, n).chain = Walk(s)[n]
<1>1. s \in BCS /\ ~s.failed /\ Knows(s) /\ Waits(s, q)
  BY GoodHas
<1>2. PICK K \in SUBSET Block : Links(s, K, X)
  BY GoodHas
<1>3. PICK hi : hi = Number[s.chain]
  OBVIOUS
<1>4. PICK lo : lo = Number[s.chainTail]
  OBVIOUS
<1>5. hi \in Nat /\ lo \in Nat /\ lo <= hi /\ n <= hi - lo /\ hi - lo < Cardinality(Block)
  BY <1>1, <1>2, <1>3, <1>4, ChainLength
<1>6. PICK w : w = Walk(s)
  OBVIOUS
<1>7. \A i \in 0..n : w[i] \in K /\ Number[w[i]] = hi - i
  <2>1. Descends(s, K)
    BY <1>1, <1>2, WalkDescends
  <2>2. \A i \in 0..n : i \in 0..Cardinality(Block) /\ i <= hi - lo
    BY <1>5, BlockCount
  <2> QED
    BY <1>3, <1>4, <1>6, <2>1, <2>2 DEF Descends
<1>8. PICK gone : gone = {w[i] : i \in 0..(n - 1)}
  OBVIOUS
<1>9. \A b \in K : Number[b] \in Nat /\ lo <= Number[b] /\ Number[b] <= hi
  BY <1>2, <1>3, <1>4, SliceAssumption DEF Links
<1>10. \A b \in gone : b \in K /\ Number[b] > hi - n
  BY <1>5, <1>7, <1>8
<1>11. ASSUME NEW b \in K, Number[b] > hi - n PROVE b \in gone
  <2>1. hi - Number[b] \in 0..(n - 1) /\ hi - Number[b] \in 0..n
    BY <1>5, <1>9, <1>11
  <2>2. w[hi - Number[b]] \in K /\ Number[w[hi - Number[b]]] = Number[b]
    BY <1>5, <1>7, <1>9, <2>1
  <2>3. w[hi - Number[b]] = b
    BY <1>2, <2>2 DEF Links
  <2> QED
    BY <1>8, <2>1, <2>3
<1>12. PICK c : c = w[n]
  OBVIOUS
<1>13. c \in K /\ Number[c] = hi - n /\ gone \in SUBSET Block
  BY <1>7, <1>10, <1>12
<1>14. PICK t : t = Unchained(s, n)
  OBVIOUS
<1>16. /\ t \in BCS /\ t.orphans = s.orphans \cup gone
       /\ t.next = [b \in Block |-> IF b \in gone THEN NoBlock ELSE s.next[b]]
       /\ t.chain = c /\ t.chainTail = s.chainTail /\ t.blocks = s.blocks
       /\ t.request = s.request /\ t.held = s.held /\ t.valid = s.valid
       /\ t.transactions = s.transactions
       /\ t.pendingTransactions = s.pendingTransactions /\ t.failed = s.failed
  <2> DEFINE G == {Walk(s)[i] : i \in 0..(n - 1)}
             d == Walk(s)[n]
  <2>1. t = [s EXCEPT !.orphans = @ \cup G,
                      !.next = [b \in Block |-> IF b \in G THEN NoBlock ELSE @[b]],
                      !.chain = d]
    BY <1>14 DEF Unchained
  <2>2. G = gone /\ d = c
    BY <1>6, <1>8, <1>12
  <2> HIDE DEF G, d
  <2> QED
    BY <1>1, <1>13, <2>1, <2>2 DEF BCS
<1>17. PICK L : L = K \ gone
  OBVIOUS
<1>18. \A b \in L : b \in K /\ Number[b] <= hi - n
  BY <1>5, <1>9, <1>11, <1>17
<1>19. \A b \in K : Number[b] <= hi - n => b \in L
  BY <1>5, <1>9, <1>10, <1>17
<1>20. Links(t, L, X)
  <2>1. L \subseteq t.blocks \ t.orphans /\ t.orphans \subseteq t.blocks
        /\ X \cap (L \cup t.orphans) = {}
    BY <1>2, <1>10, <1>16, <1>17 DEF Links
  <2>2. s.chainTail \in K
    BY <1>2 DEF Links
  <2>3. t.chain \in L /\ t.chainTail \in L
    BY <1>4, <1>5, <1>13, <1>16, <1>19, <2>2
  <2>4. \A b \in L : t.next[b] = s.next[b]
    BY <1>16, <1>17
  <2>5. \A b \in L : t.next[b] = IF b = t.chainTail THEN NoBlock ELSE Parent[b]
    BY <1>2, <1>16, <1>18, <2>4 DEF Links
  <2>6. ASSUME NEW b \in L, b # t.chainTail PROVE Parent[b] \in L
    <3>1. b \in K /\ Parent[b] \in K
      BY <1>2, <1>16, <1>18, <2>6 DEF Links
    <3>2. Number[b] = Number[Parent[b]] + 1 /\ Number[Parent[b]] \in Nat
      BY <3>1, SliceAssumption
    <3> QED
      BY <1>5, <1>18, <1>19, <2>6, <3>1, <3>2
  <2>7. \A b \in L : Number[t.chainTail] <= Number[b] /\ Number[b] <= Number[t.chain]
    BY <1>4, <1>9, <1>13, <1>16, <1>18
  <2>8. \A b, d \in L : Number[b] = Number[d] => b = d
    BY <1>2, <1>18 DEF Links
  <2>9. ASSUME NEW m \in Number[t.chainTail]..Number[t.chain]
        PROVE  \E b \in L : Number[b] = m
    <3>1. m \in lo..hi /\ m <= hi - n
      BY <1>4, <1>5, <1>13, <1>16, <2>9
    <3>2. PICK b \in K : Number[b] = m
      BY <1>2, <1>3, <1>4, <3>1 DEF Links
    <3> QED
      BY <1>19, <3>1, <3>2
  <2> QED
    BY <2>1, <2>3, <2>5, <2>6, <2>7, <2>8, <2>9, Zenon DEF Links
<1>21. Knows(t)
  BY <1>1, <1>16, KnowsKept
<1>22. Waits(t, q)
  BY <1>1, <1>16, WaitsKept
<1>23. L \in SUBSET Block /\ ~t.failed
  BY <1>1, <1>16, <1>17
<1>24. t \in Good(q, X)
  BY <1>16, <1>20, <1>21, <1>22, <1>23, GoodIs
<1> QED
  BY <1>6, <1>12, <1>14, <1>16, <1>24

\* bcsUnwindChain stops at the tail.
LEMMA UnwindChainGood ==
    ASSUME NEW q, NEW X, NEW s \in Good(q, X), NEW depth, NEW headNumber
    PROVE  UnwindChain(s, depth, headNumber) \in Good(q, X)
<1>1. s \in BCS
  BY GoodHas
<1>2. PICK K \in SUBSET Block : Links(s, K, X)
  BY GoodHas
<1>3. PICK S : S = {i \in 0..Cardinality(Block) :
                      \/ i = depth
                      \/ Walk(s)[i] \in {NoBlock, s.chainTail}
                      \/ Number[Walk(s)[i]] < headNumber - depth}
  OBVIOUS
<1>4. PICK m : m = Number[s.chain] - Number[s.chainTail]
  OBVIOUS
<1>5. m \in Nat /\ m < Cardinality(Block) /\ Number[s.chain] \in Nat /\ Number[s.chainTail] \in Nat
  BY <1>1, <1>2, <1>4, ChainLength
<1>6. m \in 0..Cardinality(Block) /\ m <= m
  BY <1>5, BlockCount
<1>7. Walk(s)[m] \in K /\ Number[Walk(s)[m]] = Number[s.chain] - m
  BY <1>1, <1>2, <1>4, <1>6, WalkDescends DEF Descends
<1>8. Walk(s)[m] = s.chainTail
  BY <1>2, <1>4, <1>5, <1>7 DEF Links
<1>9. m \in S
  BY <1>3, <1>6, <1>8
<1>10. S \in SUBSET Nat /\ S # {}
  BY <1>3, <1>9
<1>11. PICK n : n = Min(S)
  OBVIOUS
<1>12. n \in Nat /\ n <= m
  BY <1>9, <1>10, <1>11, MinProperties
<1>13. CASE depth > headNumber
  <2>1. UnwindChain(s, depth, headNumber) = s
    BY <1>13 DEF UnwindChain
  <2> QED
    BY <2>1
<1>14. CASE ~(depth > headNumber)
  <2>1. PICK u : u = Unchained(s, n)
    OBVIOUS
  <2>2. u \in Good(q, X)
    BY <1>4, <1>12, <2>1, UnchainedGood
  <2>3. UnwindChain(s, depth, headNumber) = PendOrphaned(u)
    BY <1>3, <1>11, <1>14, <2>1 DEF UnwindChain
  <2> QED
    BY <2>2, <2>3, PendOrphanedGood
<1> QED
  BY <1>13, <1>14

-----------------------------------------------------------------------------
(* Headers. *)

\* bcsSyncRange and bcsSyncStart
LEMMA SyncRangeGood ==
    ASSUME NEW q, NEW X, NEW s \in Good(q, X), NEW from \in Nat, NEW to \in Nat
    PROVE  SyncRange(s, from, to) \in Good(q, X)
<1>1. s \in BCS
  BY GoodHas
<1>2. CASE s.sync \notin {Idle, Cut} \/ to <= from
  <2>1. SyncRange(s, from, to) = s
    BY <1>2 DEF SyncRange
  <2> QED
    BY <2>1
<1>3. CASE ~(s.sync \notin {Idle, Cut} \/ to <= from)
  <2>1. PICK feed : feed = [tail |-> from, head |-> to, last |-> from, from |-> from]
    OBVIOUS
  <2>2. feed \in Feed!Feed
    BY <2>1 DEF Feed!Feed
  <2>3. PICK t : t = [s EXCEPT !.sync = feed]
    OBVIOUS
  <2>4. SyncRange(s, from, to) = t
    BY <1>3, <2>1, <2>3 DEF SyncRange
  <2>5. /\ t \in BCS /\ t.blocks = s.blocks /\ t.orphans = s.orphans
        /\ t.chain = s.chain /\ t.chainTail = s.chainTail /\ t.next = s.next
        /\ t.request = s.request /\ t.held = s.held /\ t.valid = s.valid
        /\ t.transactions = s.transactions
        /\ t.pendingTransactions = s.pendingTransactions /\ t.failed = s.failed
    BY <1>1, <2>2, <2>3 DEF BCS
  <2> QED
    BY <2>4, <2>5, GoodKept
<1> QED
  BY <1>2, <1>3

\* A block that is kept, and neither chained nor an orphan, becomes an orphan.
LEMMA MakeOrphanGood ==
    ASSUME NEW q, NEW b \in Block, NEW s \in Good(q, {b}), b \in s.blocks
    PROVE  MakeOrphan(s, b) \in Good(q, {}) /\ b \in MakeOrphan(s, b).orphans
<1>1. s \in BCS /\ ~s.failed /\ Knows(s) /\ Waits(s, q)
  BY GoodHas
<1>2. PICK K \in SUBSET Block : Links(s, K, {b})
  BY GoodHas
<1>3. PICK t : t = MakeOrphan(s, b)
  OBVIOUS
<1>4. /\ t \in BCS /\ t.orphans = s.orphans \cup {b} /\ t.next = [s.next EXCEPT ![b] = NoBlock]
      /\ t.blocks = s.blocks /\ t.chain = s.chain /\ t.chainTail = s.chainTail
      /\ t.request = s.request /\ t.held = s.held /\ t.valid = s.valid
      /\ t.transactions = s.transactions
      /\ t.pendingTransactions = s.pendingTransactions /\ t.failed = s.failed
  BY <1>1, <1>3 DEF MakeOrphan, BCS
<1>5. b \notin K
  BY <1>2 DEF Links
<1>6. \A c \in K : t.next[c] = s.next[c]
  BY <1>1, <1>4, <1>5 DEF BCS
<1>7. K \subseteq t.blocks \ t.orphans /\ t.orphans \subseteq t.blocks
  BY <1>2, <1>4, <1>5 DEF Links
<1>8. Links(t, K, {})
  BY <1>2, <1>4, <1>6, <1>7 DEF Links
<1>9. Knows(t)
  BY <1>1, <1>4, KnowsKept
<1>10. Waits(t, q)
  BY <1>1, <1>4, WaitsKept
<1>11. ~t.failed /\ b \in t.orphans
  BY <1>1, <1>4
<1>12. t \in Good(q, {})
  BY <1>4, <1>8, <1>9, <1>10, <1>11, GoodIs
<1> QED
  BY <1>3, <1>11, <1>12
\* A header that the chain does not reach
LEMMA OrphanedGood ==
    ASSUME NEW q, NEW b \in Block, NEW s \in Good(q, {b}), b \in s.blocks
    PROVE  Orphaned(s, b) \in Good(q, {})
<1>1. PICK a : a = ChainOrphans(s)
  OBVIOUS
<1>2. a \in Good(q, {b}) /\ a.blocks = s.blocks
  BY <1>1, ChainOrphansGood
<1>3. PICK p : p = PurgeOrphans(a)
  OBVIOUS
<1>4. p \in Good(q, {b}) /\ b \in p.blocks
  BY <1>2, <1>3, PurgeOrphansGood
<1>5. PICK u : u = MakeOrphan(p, b)
  OBVIOUS
<1>6. u \in Good(q, {}) /\ b \in u.orphans
  BY <1>4, <1>5, MakeOrphanGood
<1>7. u \in BCS
  BY <1>6, GoodHas
<1>8. PICK K \in SUBSET Block : Links(u, K, {})
  BY <1>6, GoodHas
<1>9. Number[u.chain] \in Nat
  BY <1>7, <1>8, ChainLength
<1>10. PICK N : N = {Number[o] : o \in u.orphans}
  OBVIOUS
<1>11. N \in SUBSET Nat /\ N # {}
  <2>1. u.orphans \in SUBSET Block
    BY <1>7 DEF BCS
  <2>2. \A o \in u.orphans : Number[o] \in Nat
    BY <2>1, SliceAssumption
  <2> QED
    BY <1>6, <1>10, <2>2
<1>12. Min(N) \in Nat
  BY <1>11, MinProperties
<1>13. SyncRange(u, Number[u.chain], Min(N)) \in Good(q, {})
  BY <1>6, <1>9, <1>12, SyncRangeGood
<1> QED
  BY <1>1, <1>3, <1>5, <1>10, <1>13 DEF Orphaned

\* A sync replaces the chain by one block.
LEMMA AdoptGood ==
    ASSUME NEW q, NEW b \in Block, NEW s \in Good(q, {b}), b \in s.blocks
    PROVE  Adopt(s, b) \in Good(q, {})
<1>1. s \in BCS /\ ~s.failed /\ Knows(s) /\ Waits(s, q)
  BY GoodHas
<1>2. PICK K \in SUBSET Block : Links(s, K, {b})
  BY GoodHas
<1>3. Chained(s) = K
  BY <1>1, <1>2, ChainedIsChain
<1>4. PICK old : old = {c \in Chained(s) : Complete(s, c)}
  OBVIOUS
<1>5. old \in SUBSET Block /\ old \subseteq K
  BY <1>3, <1>4
<1>6. PICK r : r = ReclaimBlocks(s, old)
  OBVIOUS
<1>7. Reclaimed(r, s, old)
  BY <1>1, <1>5, <1>6, ReclaimBlocksFields
<1>8. r \in BCS
  BY <1>7 DEF Reclaimed
<1>9. PICK t : t = [r EXCEPT !.chain = b, !.chainTail = b, !.next[b] = NoBlock]
  OBVIOUS
<1>10. Adopt(s, b) = t
  BY <1>4, <1>6, <1>9 DEF Adopt
<1>11. /\ t \in BCS /\ t.chain = b /\ t.chainTail = b /\ t.next[b] = NoBlock
       /\ t.blocks = r.blocks /\ t.orphans = r.orphans
       /\ t.request = r.request /\ t.held = r.held /\ t.valid = r.valid
       /\ t.transactions = r.transactions
       /\ t.pendingTransactions = r.pendingTransactions /\ t.failed = r.failed
  BY <1>8, <1>9 DEF BCS
<1>12. Links(t, {b}, {})
  <2>1. b \notin K /\ b \notin s.orphans /\ s.orphans \subseteq s.blocks
    BY <1>2 DEF Links
  <2>2. b \in t.blocks /\ b \notin t.orphans /\ t.orphans \subseteq t.blocks
    BY <1>5, <1>7, <1>11, <2>1 DEF Reclaimed
  <2>3. Number[b] \in Nat
    BY SliceAssumption
  <2>4. \A n \in Number[t.chainTail]..Number[t.chain] : \E c \in {b} : Number[c] = n
    BY <1>11, <2>3
  <2>5. \A c \in {b} : Number[t.chainTail] <= Number[c] /\ Number[c] <= Number[t.chain]
    BY <1>11, <2>3
  <2> QED
    BY <1>11, <2>2, <2>4, <2>5 DEF Links
<1>13. Knows(t)
  <2>1. Knows(r)
    BY <1>1, <1>5, <1>7, ReclaimBlocksKnows
  <2> QED
    BY <1>8, <1>11, <2>1, KnowsKept
<1>14. Waits(t, q)
  <2>1. t.transactions = s.transactions /\ t.pendingTransactions = s.pendingTransactions
    BY <1>7, <1>11 DEF Reclaimed
  <2> QED
    BY <1>1, <1>11, <2>1, WaitsKept
<1>15. ~t.failed /\ {b} \in SUBSET Block
  BY <1>1, <1>7, <1>11 DEF Reclaimed
<1> QED
  BY <1>10, <1>11, <1>12, <1>13, <1>14, <1>15, GoodIs

\* The structs the handlers keep to: when an assertion failed, the chain is gone.
Fine(q) == {s \in BCS : /\ Knows(s) /\ Waits(s, q)
                        /\ ~s.failed => \E K \in SUBSET Block : Links(s, K, {})}

LEMMA GoodIsFine ==
    ASSUME NEW q, NEW s \in Good(q, {})
    PROVE  s \in Fine(q)
BY Zenon DEF Good, Fine

LEMMA FineIsGood ==
    ASSUME NEW q, NEW s \in Fine(q), ~s.failed
    PROVE  s \in Good(q, {})
BY Zenon DEF Good, Fine

\* The chain goes back as far as to nothing.
LEMMA UnchainedAll ==
    ASSUME NEW q, NEW X, NEW s \in Good(q, X), NEW bottom
    PROVE  /\ Unchained(s, Above(s, bottom)) \in BCS
           /\ Unchained(s, Above(s, bottom)).blocks = s.blocks
           /\ Unchained(s, Above(s, bottom)).chain = Walk(s)[Above(s, bottom)]
           /\ Knows(Unchained(s, Above(s, bottom)))
           /\ Waits(Unchained(s, Above(s, bottom)), q)
<1>1. s \in BCS /\ ~s.failed /\ Knows(s) /\ Waits(s, q)
  BY GoodHas
<1>2. PICK K \in SUBSET Block : Links(s, K, X)
  BY GoodHas
<1>3. PICK n : n = Above(s, bottom)
  OBVIOUS
<1>4. n \in 0..Cardinality(Block) /\ \A i \in 0..(n - 1) : Walk(s)[i] \in Block
  BY <1>1, <1>2, <1>3, AboveProperties
<1>11. PICK t : t = Unchained(s, n)
  OBVIOUS
<1> DEFINE G == {Walk(s)[i] : i \in 0..(n - 1)}
           d == Walk(s)[n]
<1>5. t = [s EXCEPT !.orphans = @ \cup G,
                    !.next = [b \in Block |-> IF b \in G THEN NoBlock ELSE @[b]],
                    !.chain = d]
  BY <1>11 DEF Unchained
<1>6. G \in SUBSET Block /\ d \in Block \cup {NoBlock}
  BY <1>1, <1>4, WalkType
<1>7. d = Walk(s)[Above(s, bottom)]
  BY <1>3
<1> HIDE DEF G, d
<1>8. /\ t \in BCS /\ t.chain = d /\ t.blocks = s.blocks
      /\ t.request = s.request /\ t.held = s.held /\ t.valid = s.valid
      /\ t.transactions = s.transactions
      /\ t.pendingTransactions = s.pendingTransactions
  BY <1>1, <1>5, <1>6 DEF BCS
<1>9. Knows(t)
  BY <1>1, <1>8, KnowsKept
<1>10. Waits(t, q)
  BY <1>1, <1>8, WaitsKept
<1> QED
  BY <1>3, <1>7, <1>8, <1>9, <1>10, <1>11

\* bcsExtendChainIfPossible
LEMMA ExtendChainIfPossibleFine ==
    ASSUME NEW q, NEW b \in Block, NEW s \in Good(q, {b}), b \in s.blocks, NEW isFromSync
    PROVE  ExtendChainIfPossible(s, b, isFromSync) \in Fine(q)
<1>1. s \in BCS /\ ~s.failed /\ Knows(s) /\ Waits(s, q)
  BY GoodHas
<1>2. s \in Good(q, {})
  BY <1>1, GoodKept
<1>3. PICK parent : parent = Parent[b]
  OBVIOUS
<1>5. CASE parent \in s.blocks /\ parent \in Partial
  <2>1. ExtendChainIfPossible(s, b, isFromSync) = s
    BY <1>3, <1>5 DEF ExtendChainIfPossible
  <2> QED
    BY <1>2, <2>1, GoodIsFine
<1>6. CASE /\ ~(parent \in s.blocks /\ parent \in Partial)
           /\ parent \notin s.blocks \/ parent \in s.orphans
  <2>1. CASE ~isFromSync
    <3>1. ExtendChainIfPossible(s, b, isFromSync) = Orphaned(s, b)
      BY <1>3, <1>6, <2>1 DEF ExtendChainIfPossible
    <3> QED
      BY <3>1, OrphanedGood, GoodIsFine
  <2>2. CASE isFromSync /\ Number[b] > Number[s.chain]
    <3>1. ExtendChainIfPossible(s, b, isFromSync) = Extended(Adopt(s, b), parent)
      BY <1>3, <1>6, <2>2 DEF ExtendChainIfPossible
    <3>2. Extended(Adopt(s, b), parent) \in Good(q, {})
      BY AdoptGood, ExtendedGood
    <3> QED
      BY <3>1, <3>2, GoodIsFine
  <2>3. CASE isFromSync /\ ~(Number[b] > Number[s.chain])
    <3>1. ExtendChainIfPossible(s, b, isFromSync) = Extended(s, parent)
      BY <1>3, <1>6, <2>3 DEF ExtendChainIfPossible
    <3>2. Extended(s, parent) \in Good(q, {})
      BY <1>2, ExtendedGood
    <3> QED
      BY <3>1, <3>2, GoodIsFine
  <2> QED
    BY <2>1, <2>2, <2>3
<1>7. CASE parent \in s.blocks /\ parent \notin Partial /\ parent \notin s.orphans
  <2>1. PICK back : back = Unchained(s, Above(s, parent))
    OBVIOUS
  <2>2. /\ back \in BCS /\ Knows(back) /\ Waits(back, q) /\ back.blocks = s.blocks
        /\ back.chain = Walk(s)[Above(s, parent)]
    BY <2>1, UnchainedAll
  <2>3. CASE back.chain = NoBlock
    <3>1. PICK t : t = [back EXCEPT !.failed = TRUE]
      OBVIOUS
    <3>2. ExtendChainIfPossible(s, b, isFromSync) = t
      BY <1>3, <1>7, <2>1, <2>3, <3>1 DEF ExtendChainIfPossible
    <3>3. /\ t \in BCS /\ t.failed
          /\ t.request = back.request /\ t.held = back.held /\ t.valid = back.valid
          /\ t.transactions = back.transactions
          /\ t.pendingTransactions = back.pendingTransactions
      BY <2>2, <3>1 DEF BCS
    <3>4. Knows(t)
      BY <2>2, <3>3, KnowsKept
    <3>5. Waits(t, q)
      BY <2>2, <3>3, WaitsKept
    <3> QED
      BY <3>2, <3>3, <3>4, <3>5, Zenon DEF Fine
  <2>4. CASE back.chain # NoBlock
    <3>1. PICK K \in SUBSET Block : Links(s, K, {b})
      BY GoodHas
    <3>2. PICK n : n = Above(s, parent)
      OBVIOUS
    <3>3. n \in 0..Cardinality(Block) /\ Walk(s)[n] \in {NoBlock, parent}
      BY <1>1, <3>1, <3>2, AboveProperties
    <3>4. back.chain = parent
      BY <2>2, <2>4, <3>2, <3>3
    <3>5. n <= Number[s.chain] - Number[s.chainTail]
      BY <1>1, <2>2, <2>4, <3>1, <3>2, <3>3, WalkDescends DEF Descends
    <3>6. n \in Nat
      BY <3>3, BlockCount
    <3>7. back \in Good(q, {b})
      BY <2>1, <3>2, <3>5, <3>6, UnchainedGood
    <3>8. PICK L \in SUBSET Block : Links(back, L, {b})
      BY <3>7, GoodHas
    <3>9. b \notin L /\ b \notin back.orphans
      BY <3>8 DEF Links
    <3>10. PICK t : t = ExtendChain(back, b)
      OBVIOUS
    <3>11. /\ t \in BCS
           /\ t.next = [back.next EXCEPT ![b] = back.chain] /\ t.chain = b
           /\ t.blocks = back.blocks /\ t.orphans = back.orphans
           /\ t.chainTail = back.chainTail
           /\ t.request = back.request /\ t.held = back.held /\ t.valid = back.valid
           /\ t.transactions = back.transactions
           /\ t.pendingTransactions = back.pendingTransactions /\ t.failed = back.failed
      BY <2>2, <3>10 DEF ExtendChain, BCS
    <3>12. t.orphans = back.orphans \ {b} /\ b \in back.blocks /\ Parent[b] = back.chain
      BY <1>3, <2>2, <3>4, <3>9, <3>11
    <3>13. Links(t, L \cup {b}, {})
      BY <2>2, <3>8, <3>9, <3>11, <3>12, LinkOne
    <3>14. Knows(t)
      BY <2>2, <3>11, KnowsKept
    <3>15. Waits(t, q)
      BY <2>2, <3>11, WaitsKept
    <3>16. ~t.failed /\ L \cup {b} \in SUBSET Block
      BY <3>7, <3>11, GoodHas
    <3>17. t \in Good(q, {})
      BY <3>11, <3>13, <3>14, <3>15, <3>16, GoodIs
    <3>18. Extended(t, parent) \in Good(q, {})
      BY <3>17, ExtendedGood
    <3>19. ExtendChainIfPossible(s, b, isFromSync) = Extended(t, parent)
      BY <1>3, <1>7, <2>1, <2>4, <3>10 DEF ExtendChainIfPossible
    <3> QED
      BY <3>18, <3>19, GoodIsFine
  <2> QED
    BY <2>3, <2>4
<1> QED
  BY <1>5, <1>6, <1>7
\* What a request leaves alone
Requested(t, s, b) ==
    /\ t \in BCS
    /\ \A c \in Block : c # b => t.request[c] = s.request[c]
    /\ \A k \in Kind : t.request[b][k] \in {s.request[b][k], "pending"}
    /\ t.next = s.next /\ t.held = s.held /\ t.valid = s.valid
    /\ t.blocks = s.blocks /\ t.orphans = s.orphans
    /\ t.chain = s.chain /\ t.chainTail = s.chainTail
    /\ t.transactions = s.transactions
    /\ t.pendingTransactions = s.pendingTransactions /\ t.failed = s.failed

LEMMA RequestFields ==
    ASSUME NEW s \in BCS, NEW b \in Block, NEW kinds \in SUBSET Kind
    PROVE  Requested(Request(s, b, kinds), s, b)
<1>1. PICK new : new = {k \in kinds : s.request[b][k] = "not needed"}
  OBVIOUS
<1>2. PICK asks : asks = {<<k, b>> : k \in new}
  OBVIOUS
<1>3. PICK r : r = [k \in Kind |-> IF k \in new THEN "pending" ELSE s.request[b][k]]
  OBVIOUS
<1>4. s.request \in [Block -> [Kind -> {"not needed", "pending", "complete"}]]
  BY DEF BCS
<1>5. s.request[b] \in [Kind -> {"not needed", "pending", "complete"}]
  BY <1>4
<1>6. r \in [Kind -> {"not needed", "pending", "complete"}]
  BY <1>3, <1>5
<1>7. \A k \in Kind : r[k] \in {s.request[b][k], "pending"}
  BY <1>3
<1>8. asks \in SUBSET (Kind \X Block)
  <2>1. \A k \in new : <<k, b>> \in Kind \X Block
    BY <1>1
  <2> QED
    BY <1>2, <2>1
<1>9. PICK t : t = [s EXCEPT !.request[b] = r, !.les = @ \cup asks]
  OBVIOUS
<1>10. Request(s, b, kinds) = t
  <2>1. [s EXCEPT !.request[b] = [k \in Kind |-> IF k \in new THEN "pending" ELSE @[k]],
                  !.les = @ \cup asks] = t
    BY <1>3, <1>9
  <2> QED
    BY <1>1, <1>2, <2>1 DEF Request
<1>11. /\ t \in BCS /\ t.request = [s.request EXCEPT ![b] = r]
       /\ t.next = s.next /\ t.held = s.held /\ t.valid = s.valid
       /\ t.blocks = s.blocks /\ t.orphans = s.orphans
       /\ t.chain = s.chain /\ t.chainTail = s.chainTail
       /\ t.transactions = s.transactions
       /\ t.pendingTransactions = s.pendingTransactions /\ t.failed = s.failed
  BY <1>6, <1>8, <1>9 DEF BCS
<1>12. t.request[b] = r /\ \A c \in Block : c # b => t.request[c] = s.request[c]
  BY <1>4, <1>11
<1> QED
  BY <1>7, <1>10, <1>11, <1>12 DEF Requested

LEMMA RequestKnows ==
    ASSUME NEW s \in BCS, NEW b \in Block, NEW t, Requested(t, s, b), NEW d, KnowsBut(s, d)
    PROVE  KnowsBut(t, d)
<1>1. "bodies" \in Kind
  BY DEF Kind
<1>2. \A c \in Block : \A k \in Kind : t.request[c][k] # "pending" => t.request[c][k] = s.request[c][k]
  BY DEF Requested
<1>3. \A c \in Block : Complete(t, c) => Complete(s, c)
  BY <1>2 DEF Complete
<1>4. \A c \in Block : t.request[c]["bodies"] = "complete" => s.request[c]["bodies"] = "complete"
  BY <1>1, <1>2
<1>5. t.transactions = s.transactions /\ t.held = s.held /\ t.valid = s.valid
  BY DEF Requested
<1> QED
  BY <1>3, <1>4, <1>5, Zenon DEF KnowsBut

\* Without a block whose transactions may be held
LEMMA KnowsButNone ==
    ASSUME NEW s
    PROVE  KnowsBut(s, NoBlock) <=> Knows(s)
<1>1. NoBlock \notin Block
  BY SliceAssumption
<1> QED
  BY <1>1, Zenon DEF Knows, KnowsBut

\* bcsHandleBlockHeaderInternal
LEMMA HandleBlockHeaderFine ==
    ASSUME NEW q, NEW s \in Fine(q), NEW b \in Block, NEW isFromSync
    PROVE  HandleBlockHeader(s, b, isFromSync) \in Fine(q)
<1>1. CASE s.failed \/ b \in s.blocks
  <2>1. HandleBlockHeader(s, b, isFromSync) = s
    BY <1>1 DEF HandleBlockHeader
  <2> QED
    BY <2>1
<1>2. CASE ~(s.failed \/ b \in s.blocks)
  <2>1. s \in BCS /\ ~s.failed /\ Knows(s) /\ Waits(s, q)
    BY <1>2, Zenon DEF Fine
  <2>2. PICK K \in SUBSET Block : Links(s, K, {})
    BY <1>2, Zenon DEF Fine
  <2>3. PICK u : u = [s EXCEPT !.blocks = @ \cup {b}]
    OBVIOUS
  <2>4. /\ u \in BCS /\ u.blocks = s.blocks \cup {b} /\ u.orphans = s.orphans
        /\ u.chain = s.chain /\ u.chainTail = s.chainTail /\ u.next = s.next
        /\ u.request = s.request /\ u.held = s.held /\ u.valid = s.valid
        /\ u.transactions = s.transactions
        /\ u.pendingTransactions = s.pendingTransactions /\ u.failed = s.failed
    BY <2>1, <2>3 DEF BCS
  <2>5. Knows(u)
    BY <2>1, <2>4, KnowsKept
  <2>6. Needed(b) \in SUBSET Kind
    BY DEF Needed, Kind
  <2>7. PICK v : v = Request(u, b, Needed(b))
    OBVIOUS
  <2>8. Requested(v, u, b)
    BY <2>4, <2>6, <2>7, RequestFields
  <2>9. Knows(v)
    <3>1. KnowsBut(u, NoBlock)
      BY <2>5, KnowsButNone
    <3>2. KnowsBut(v, NoBlock)
      BY <2>4, <2>8, <3>1, RequestKnows
    <3> QED
      BY <3>2, KnowsButNone
  <2>10. /\ v \in BCS /\ v.blocks = s.blocks \cup {b} /\ v.orphans = s.orphans
         /\ v.chain = s.chain /\ v.chainTail = s.chainTail /\ v.next = s.next
         /\ v.transactions = s.transactions
         /\ v.pendingTransactions = s.pendingTransactions /\ v.failed = s.failed
    BY <2>4, <2>8 DEF Requested
  <2>11. Links(v, K, {b})
    BY <1>2, <2>2, <2>10 DEF Links
  <2>12. Waits(v, q)
    BY <2>1, <2>10, WaitsKept
  <2>13. v \in Good(q, {b}) /\ b \in v.blocks
    BY <2>1, <2>9, <2>10, <2>11, <2>12, GoodIs
  <2>14. ExtendChainIfPossible(v, b, isFromSync) \in Fine(q)
    BY <2>13, ExtendChainIfPossibleFine
  <2>15. HandleBlockHeader(s, b, isFromSync) = ExtendChainIfPossible(v, b, isFromSync)
    BY <1>2, <2>3, <2>7 DEF HandleBlockHeader
  <2> QED
    BY <2>14, <2>15
<1> QED
  BY <1>1, <1>2

\* The headers of an answer are blocks.
LEMMA HeadersType ==
    ASSUME NEW b \in Block, NEW from
    PROVE  Headers(b, from) \in Seq(Block)
<1>1. PICK up : up = Path(Parent, b)
  OBVIOUS
<1>2. Follows(up, Parent, b)
  BY <1>1, SliceAssumption, PathFollows
<1>3. PICK n : n = Cardinality(Block)
  OBVIOUS
<1>4. n \in Nat
  BY <1>3, BlockCount
<1>5. PICK S : S = {i \in 0..n : i = n \/ up[i] = NoBlock \/ Number[up[i]] < from}
  OBVIOUS
<1>6. S \in SUBSET Nat /\ S # {}
  BY <1>4, <1>5
<1>7. PICK count : count = Min(S)
  OBVIOUS
<1>8. count \in S /\ \A i \in S : count <= i
  BY <1>6, <1>7, MinProperties
<1>9. count \in 0..n
  BY <1>5, <1>8
<1>10. ASSUME NEW i \in 1..count PROVE up[count - i] \in Block
  <2>1. count - i \in 0..n /\ count - i < count
    BY <1>4, <1>9
  <2>2. count - i \notin S
    BY <1>8, <1>9, <2>1
  <2>3. up[count - i] # NoBlock
    BY <1>5, <2>1, <2>2
  <2> QED
    BY <1>2, <1>3, <2>1, <2>3 DEF Follows
<1>11. Headers(b, from) = [i \in 1..count |-> up[count - i]]
  BY <1>1, <1>3, <1>5, <1>7 DEF Headers
<1>12. count \in Nat
  BY <1>4, <1>9
<1> QED
  BY <1>10, <1>11, <1>12

\* bcsHandleBlockHeaders: the loop
LEMMA HandleBlockHeadersFine ==
    ASSUME NEW q, NEW s \in Fine(q), NEW b \in Block, NEW from, NEW isFromSync
    PROVE  HandleBlockHeaders(s, b, from, isFromSync) \in Fine(q)
<1>1. PICK S : S = Fine(q)
  OBVIOUS
<1>2. PICK h : h = Headers(b, from)
  OBVIOUS
<1>3. PICK n : n = Len(h)
  OBVIOUS
<1>4. n \in Nat /\ \A i \in 1..n : h[i] \in Block
  <2>1. h \in Seq(Block)
    BY <1>2, HeadersType
  <2> QED
    BY <1>3, <2>1
<1>5. \A t \in S : \A c \in Block : HandleBlockHeader(t, c, isFromSync) \in S
  BY <1>1, HandleBlockHeaderFine
<1>6. PICK step : step = [i \in 1..n |-> [t \in S |-> HandleBlockHeader(t, h[i], isFromSync)]]
  OBVIOUS
<1>7. PICK f : Iterates(f, step, s, n)
  <2>1. n \in 0..n
    BY <1>4
  <2> QED
    BY <1>4, <2>1, IterationExists
<1>8. \A i \in 0..n : f[i] \in S
  <2>1. f[0] \in S
    BY <1>1, <1>4, <1>7 DEF Iterates
  <2>2. ASSUME NEW i \in 1..n, f[i - 1] \in S PROVE f[i] \in S
    <3>1. f[i] = step[i][f[i - 1]]
      BY <1>4, <1>7 DEF Iterates
    <3> QED
      BY <1>4, <1>5, <1>6, <2>2, <3>1
  <2> QED
    BY <1>4, <2>1, <2>2, IterationStays
<1>9. f = [i \in 0..n |-> IF i = 0 THEN s ELSE HandleBlockHeader(f[i - 1], h[i], isFromSync)]
  <2>1. \A i \in 0..n : f[i] = IF i = 0 THEN s
                               ELSE HandleBlockHeader(f[i - 1], h[i], isFromSync)
    <3> TAKE i \in 0..n
    <3>1. CASE i = 0
      BY <1>4, <1>7, <3>1 DEF Iterates
    <3>2. CASE i # 0
      <4>1. f[i] = step[i][f[i - 1]]
        BY <1>4, <1>7, <3>2 DEF Iterates
      <4>2. f[i - 1] \in S /\ i \in 1..n
        BY <1>4, <1>8, <3>2
      <4> QED
        BY <1>6, <3>2, <4>1, <4>2
    <3> QED
      BY <3>1, <3>2
  <2>2. f = [i \in 0..n |-> f[i]]
    BY <1>7 DEF Iterates
  <2> QED
    BY <2>1, <2>2
<1>10. PICK r : r = CHOOSE g :
                      g = [i \in 0..n |-> IF i = 0 THEN s
                                          ELSE HandleBlockHeader(g[i - 1], h[i], isFromSync)]
  OBVIOUS
<1>11. r = [i \in 0..n |-> IF i = 0 THEN s ELSE HandleBlockHeader(r[i - 1], h[i], isFromSync)]
  BY <1>9, <1>10
<1>12. HandleBlockHeaders(s, b, from, isFromSync) = r[n]
  BY <1>2, <1>3, <1>10 DEF HandleBlockHeaders
<1>13. r[0] \in S
  BY <1>1, <1>4, <1>11
<1>14. \A i \in 1..n : r[i - 1] \in S => r[i] \in S
  BY <1>4, <1>5, <1>11
<1>15. \A i \in 0..n : r[i] \in S
  BY <1>4, <1>13, <1>14, IterationStays
<1>16. n \in 0..n
  BY <1>4
<1> QED
  BY <1>1, <1>12, <1>15, <1>16
-----------------------------------------------------------------------------
(* The events. *)

\* Nothing changed but what is asked of LES, the sync, and more is pending.
LEMMA FineKept ==
    ASSUME NEW q, NEW s \in Fine(q), NEW t \in BCS,
           t.blocks = s.blocks, t.orphans = s.orphans,
           t.chain = s.chain, t.chainTail = s.chainTail, t.next = s.next,
           t.request = s.request, t.held = s.held, t.valid = s.valid,
           t.transactions = s.transactions,
           s.pendingTransactions \subseteq t.pendingTransactions, t.failed = s.failed
    PROVE  t \in Fine(q)
<1>1. s \in BCS /\ Knows(s) /\ Waits(s, q)
  BY Zenon DEF Fine
<1>2. Knows(t)
  BY <1>1, KnowsKept
<1>3. Waits(t, q)
  BY <1>1, WaitsKept
<1>4. ASSUME ~t.failed PROVE \E K \in SUBSET Block : Links(t, K, {})
  <2>1. ~s.failed
    BY <1>4
  <2>2. PICK K \in SUBSET Block : Links(s, K, {})
    BY <2>1, Zenon DEF Fine
  <2>3. K \subseteq t.blocks /\ t.orphans \subseteq t.blocks
    BY <2>2 DEF Links
  <2>4. Links(t, K, {})
    BY <1>1, <2>2, <2>3, LinksKept
  <2> QED
    BY <2>4
<1> QED
  BY <1>2, <1>3, <1>4, Zenon DEF Fine

\* The requests LES may have
Requests == (Kind \X Block) \cup ({"headers"} \X Nat \X Nat) \cup ({"status"} \X Tx)

\* The requests of LES and the sync change alone.
LEMMA LesAndSync ==
    ASSUME NEW q, NEW s \in Fine(q), NEW les \in SUBSET Requests,
           NEW sync \in {Idle, Cut} \cup Feed!Feed
    PROVE  [s EXCEPT !.les = les, !.sync = sync] \in Fine(q)
<1>1. s \in BCS
  BY Zenon DEF Fine
<1>2. PICK t : t = [s EXCEPT !.les = les, !.sync = sync]
  OBVIOUS
<1>3. /\ t \in BCS /\ t.blocks = s.blocks /\ t.orphans = s.orphans
      /\ t.chain = s.chain /\ t.chainTail = s.chainTail /\ t.next = s.next
      /\ t.request = s.request /\ t.held = s.held /\ t.valid = s.valid
      /\ t.transactions = s.transactions
      /\ t.pendingTransactions = s.pendingTransactions /\ t.failed = s.failed
  BY <1>1, <1>2 DEF BCS, Requests
<1>4. t \in Fine(q)
  BY <1>3, FineKept
<1> QED
  BY <1>2, <1>4

LEMMA LesAlone ==
    ASSUME NEW q, NEW s \in Fine(q), NEW les \in SUBSET Requests
    PROVE  [s EXCEPT !.les = les] \in Fine(q)
<1>1. s \in BCS
  BY Zenon DEF Fine
<1>2. s.sync \in {Idle, Cut} \cup Feed!Feed
  BY <1>1 DEF BCS
<1>3. [s EXCEPT !.les = les, !.sync = s.sync] \in Fine(q)
  BY <1>2, LesAndSync
<1>4. [s EXCEPT !.les = les, !.sync = s.sync] = [s EXCEPT !.les = les]
  BY <1>1 DEF BCS
<1> QED
  BY <1>3, <1>4

LEMMA SyncAlone ==
    ASSUME NEW q, NEW s \in Fine(q), NEW sync \in {Idle, Cut} \cup Feed!Feed
    PROVE  [s EXCEPT !.sync = sync] \in Fine(q)
<1>1. s \in BCS
  BY Zenon DEF Fine
<1>2. s.les \in SUBSET Requests
  BY <1>1 DEF BCS, Requests
<1>3. [s EXCEPT !.les = s.les, !.sync = sync] \in Fine(q)
  BY <1>2, LesAndSync
<1>4. [s EXCEPT !.les = s.les, !.sync = sync] = [s EXCEPT !.sync = sync]
  BY <1>1 DEF BCS
<1> QED
  BY <1>3, <1>4

\* The inductive invariant
Holds(s, q) == s \in Fine(q) /\ q \in Seq(Tx \X Status)

SliceInv == Holds(bcs, signals)

\* A step to a struct and a queue that hold
LEMMA StepHolds ==
    ASSUME NEW s, NEW q, bcs' = s, signals' = q, s \in Fine(q), q \in Seq(Tx \X Status)
    PROVE  SliceInv'
BY DEF SliceInv, Holds

LEMMA InvHas ==
    ASSUME SliceInv, ~bcs.failed
    PROVE  /\ bcs \in Fine(signals) /\ bcs \in Good(signals, {}) /\ bcs \in BCS
           /\ signals \in Seq(Tx \X Status)
           /\ Number[bcs.chain] \in Nat /\ bcs.les \in SUBSET Requests
<1>1. bcs \in Fine(signals) /\ signals \in Seq(Tx \X Status)
  BY DEF SliceInv, Holds
<1>2. bcs \in Good(signals, {})
  BY <1>1, FineIsGood
<1>3. bcs \in BCS
  BY <1>2, GoodHas
<1>4. PICK K \in SUBSET Block : Links(bcs, K, {})
  BY <1>2, GoodHas
<1>5. Number[bcs.chain] \in Nat
  BY <1>3, <1>4, ChainLength
<1>6. bcs.les \in SUBSET Requests
  BY <1>3 DEF BCS, Requests
<1> QED
  BY <1>1, <1>2, <1>3, <1>5, <1>6

LEMMA NumbersType == Numbers \in SUBSET Nat
BY SliceAssumption DEF Numbers

LEMMA AnnounceHolds ==
    ASSUME SliceInv, ~bcs.failed, NEW n \in Numbers, NEW d \in 0..2, HandleAnnounce(n, d)
    PROVE  SliceInv'
<1>1. PICK depth : depth = IF Feed!Active THEN 0 ELSE d
  OBVIOUS
<1>2. depth \in Nat /\ n \in Nat
  BY <1>1, NumbersType
<1>3. PICK back : back = IF 0 < depth /\ depth < ReorgLimit THEN UnwindChain(bcs, depth, n)
                         ELSE bcs
  OBVIOUS
<1>4. back \in Good(signals, {})
  BY <1>3, InvHas, UnwindChainGood
<1>5. back \in Fine(signals) /\ back \in BCS
  BY <1>4, GoodIsFine, GoodHas
<1>6. PICK les : les = back.les \cup {<<"headers", n, depth>>}
  OBVIOUS
<1>7. les \in SUBSET Requests
  <2>1. back.les \in SUBSET Requests
    BY <1>5 DEF BCS, Requests
  <2>2. <<"headers", n, depth>> \in Requests
    BY <1>2 DEF Requests
  <2> QED
    BY <1>6, <2>1, <2>2
<1>8. [back EXCEPT !.les = les] \in Fine(signals)
  BY <1>5, <1>7, LesAlone
<1>9. bcs' = [back EXCEPT !.les = les] /\ signals' = signals
  BY <1>1, <1>3, <1>6 DEF HandleAnnounce
<1> QED
  BY <1>8, <1>9, InvHas, StepHolds

\* A request that is answered
LEMMA AnsweredFine ==
    ASSUME SliceInv, ~bcs.failed, NEW request
    PROVE  Answered(request) \in Fine(signals)
<1>1. bcs.les \ {request} \in SUBSET Requests
  BY InvHas
<1>2. [bcs EXCEPT !.les = bcs.les \ {request}] \in Fine(signals)
  BY <1>1, InvHas, LesAlone
<1> QED
  BY <1>2 DEF Answered

LEMMA HeadersArriveHolds ==
    ASSUME SliceInv, ~bcs.failed, NEW n, NEW depth, NEW b \in Block, HeadersArrive(n, depth, b)
    PROVE  SliceInv'
<1>1. PICK s : s = Answered(<<"headers", n, depth>>)
  OBVIOUS
<1>2. s \in Fine(signals)
  BY <1>1, AnsweredFine
<1>3. HandleBlockHeaders(s, b, n - depth, FALSE) \in Fine(signals)
  BY <1>2, HandleBlockHeadersFine
<1>4. bcs' = HandleBlockHeaders(s, b, n - depth, FALSE) /\ signals' = signals
  BY <1>1 DEF HeadersArrive
<1> QED
  BY <1>3, <1>4, InvHas, StepHolds

LEMMA StatusHolds ==
    ASSUME SliceInv, ~bcs.failed, NEW n \in Numbers, HandleStatus(n)
    PROVE  SliceInv'
<1>1. SyncRange(bcs, Number[bcs.chain], n) \in Good(signals, {})
  BY InvHas, NumbersType, SyncRangeGood
<1>2. SyncRange(bcs, Number[bcs.chain], n) \in Fine(signals)
  BY <1>1, GoodIsFine
<1>3. bcs' = SyncRange(bcs, Number[bcs.chain], n) /\ signals' = signals
  BY DEF HandleStatus
<1> QED
  BY <1>2, <1>3, InvHas, StepHolds

LEMMA SyncHolds ==
    ASSUME SliceInv, ~bcs.failed, NEW n \in Numbers, Sync(n)
    PROVE  SliceInv'
<1>1. PICK sync : sync = IF Feed!Active THEN Cut ELSE bcs.sync
  OBVIOUS
<1>2. bcs \in BCS /\ bcs \in Fine(signals)
  BY InvHas
<1>3. sync \in {Idle, Cut} \cup Feed!Feed
  BY <1>1, <1>2 DEF BCS
<1>4. PICK s : s = [bcs EXCEPT !.sync = sync]
  OBVIOUS
<1>5. s \in Fine(signals)
  BY <1>2, <1>3, <1>4, SyncAlone
<1>6. ~s.failed /\ s.chain = bcs.chain
  BY <1>2, <1>4 DEF BCS
<1>7. s \in Good(signals, {})
  BY <1>5, <1>6, FineIsGood
<1>8. SyncRange(s, n, Number[bcs.chain]) \in Good(signals, {})
  BY <1>7, InvHas, NumbersType, SyncRangeGood
<1>9. SyncRange(s, n, Number[bcs.chain]) \in Fine(signals)
  BY <1>8, GoodIsFine
<1>10. bcs' = SyncRange(s, n, Number[bcs.chain]) /\ signals' = signals
  BY <1>1, <1>4 DEF Sync
<1> QED
  BY <1>9, <1>10, InvHas, StepHolds

LEMMA SyncReportsHolds ==
    ASSUME SliceInv, ~bcs.failed, NEW b \in Block, NEW from \in Numbers, SyncReports(b, from)
    PROVE  SliceInv'
<1>1. bcs \in BCS /\ bcs \in Fine(signals)
  BY InvHas
<1>2. bcs.sync \in Feed!Feed
  BY <1>1 DEF SyncReports, Feed!Active, BCS
<1>3. Number[b] \in Nat /\ from \in Nat
  BY SliceAssumption, NumbersType
<1>4. PICK next : next = Feed!Advanced(from, Number[b])
  OBVIOUS
<1>5. next \in Feed!Feed
  BY <1>2, <1>3, <1>4 DEF Feed!Feed, Feed!Advanced
<1>6. PICK sync : sync = IF Number[b] = bcs.sync.head THEN Idle ELSE next
  OBVIOUS
<1>7. sync \in {Idle, Cut} \cup Feed!Feed
  BY <1>5, <1>6
<1>8. PICK s : s = HandleBlockHeaders(bcs, b, from, TRUE)
  OBVIOUS
<1>9. s \in Fine(signals)
  BY <1>1, <1>8, HandleBlockHeadersFine
<1>10. [s EXCEPT !.sync = sync] \in Fine(signals)
  BY <1>7, <1>9, SyncAlone
<1>11. bcs' = [s EXCEPT !.sync = sync] /\ signals' = signals
  BY <1>4, <1>6, <1>8 DEF SyncReports
<1> QED
  BY <1>10, <1>11, InvHas, StepHolds

LEMMA SyncFailsHolds ==
    ASSUME SliceInv, ~bcs.failed, SyncFails
    PROVE  SliceInv'
<1>1. bcs \in Fine(signals) /\ Cut \in {Idle, Cut} \cup Feed!Feed
  BY InvHas
<1>2. [bcs EXCEPT !.sync = Cut] \in Fine(signals)
  BY <1>1, SyncAlone
<1>3. bcs' = [bcs EXCEPT !.sync = Cut] /\ signals' = signals
  BY DEF SyncFails
<1> QED
  BY <1>2, <1>3, InvHas, StepHolds
\* An answer changes the state of its block alone; the transactions of the
\* block may now be due.
LEMMA AnswerKnows ==
    ASSUME NEW s \in BCS, NEW t \in BCS, Knows(s), NEW b \in Block,
           \A c \in Block : c # b => /\ t.request[c] = s.request[c] /\ t.held[c] = s.held[c]
                                     /\ c \in t.valid <=> c \in s.valid,
           t.transactions = s.transactions,
           t.request[b]["bodies"] = "complete" =>
               \/ t.held[b] = TxOf[b]
               \/ s.request[b]["bodies"] = "complete" /\ t.held[b] = s.held[b]
    PROVE  KnowsBut(t, b)
<1> SUFFICES ASSUME NEW c \in Block, t.request[c]["bodies"] = "complete", NEW x \in TxOf[c]
             PROVE  \/ t.transactions[x] # NoStatus
                    \/ x \in t.held[c] /\ (c = b \/ ~(c \in t.valid /\ Complete(t, c)))
  BY Zenon DEF KnowsBut
<1>1. CASE c = b
  <2>1. t.held[b] = TxOf[b] \/ (s.request[b]["bodies"] = "complete" /\ t.held[b] = s.held[b])
    BY <1>1
  <2>2. s.request[b]["bodies"] = "complete" => s.transactions[x] # NoStatus \/ x \in s.held[b]
    BY <1>1, Zenon DEF Knows
  <2> QED
    BY <1>1, <2>1, <2>2
<1>2. CASE c # b
  <2>1. t.request[c] = s.request[c] /\ t.held[c] = s.held[c] /\ (c \in t.valid <=> c \in s.valid)
    BY <1>2
  <2>2. Complete(t, c) <=> Complete(s, c)
    BY <2>1 DEF Complete
  <2>3. s.request[c]["bodies"] = "complete"
    BY <2>1
  <2>4. \/ s.transactions[x] # NoStatus
        \/ x \in s.held[c] /\ ~(c \in s.valid /\ Complete(s, c))
    BY <2>3, Zenon DEF Knows
  <2> QED
    BY <2>1, <2>2, <2>4
<1> QED
  BY <1>1, <1>2

\* What an answer for b leaves alone
AnswerOf(t, s, b) ==
    /\ t \in BCS /\ KnowsBut(t, b)
    /\ t.blocks = s.blocks /\ t.orphans = s.orphans
    /\ t.chain = s.chain /\ t.chainTail = s.chainTail /\ t.next = s.next
    /\ t.transactions = s.transactions
    /\ t.pendingTransactions = s.pendingTransactions /\ t.failed = s.failed

LEMMA ReceivesFields ==
    ASSUME bcs \in BCS, NEW b \in Block, NEW k \in Kind, NEW request
    PROVE  /\ Receives(request, b, k) \in BCS
           /\ Receives(request, b, k).request = [bcs.request EXCEPT ![b] = [@ EXCEPT ![k] = "complete"]]
           /\ Receives(request, b, k).held = bcs.held /\ Receives(request, b, k).valid = bcs.valid
           /\ Receives(request, b, k).blocks = bcs.blocks /\ Receives(request, b, k).orphans = bcs.orphans
           /\ Receives(request, b, k).chain = bcs.chain /\ Receives(request, b, k).chainTail = bcs.chainTail
           /\ Receives(request, b, k).next = bcs.next /\ Receives(request, b, k).transactions = bcs.transactions
           /\ Receives(request, b, k).pendingTransactions = bcs.pendingTransactions
           /\ Receives(request, b, k).failed = bcs.failed
<1>1. PICK a : a = Answered(request)
  OBVIOUS
<1>2. /\ a \in BCS /\ a.request = bcs.request
      /\ a.held = bcs.held /\ a.valid = bcs.valid
      /\ a.blocks = bcs.blocks /\ a.orphans = bcs.orphans
      /\ a.chain = bcs.chain /\ a.chainTail = bcs.chainTail
      /\ a.next = bcs.next /\ a.transactions = bcs.transactions
      /\ a.pendingTransactions = bcs.pendingTransactions /\ a.failed = bcs.failed
  BY <1>1 DEF Answered, BCS
<1>3. PICK h : h = Receives(request, b, k)
  OBVIOUS
<1>4. h = [a EXCEPT !.request[b][k] = "complete"]
  BY <1>1, <1>3 DEF Receives
<1>5. /\ h \in BCS /\ h.request = [a.request EXCEPT ![b] = [@ EXCEPT ![k] = "complete"]]
      /\ h.held = a.held /\ h.valid = a.valid
      /\ h.blocks = a.blocks /\ h.orphans = a.orphans
      /\ h.chain = a.chain /\ h.chainTail = a.chainTail
      /\ h.next = a.next /\ h.transactions = a.transactions
      /\ h.pendingTransactions = a.pendingTransactions /\ h.failed = a.failed
  BY <1>2, <1>4 DEF BCS
<1> QED
  BY <1>2, <1>3, <1>5

LEMMA HasFields ==
    ASSUME bcs \in BCS, NEW b \in Block, NEW k \in Kind
    PROVE  /\ Has(b, k) \in BCS
           /\ Has(b, k).request = [bcs.request EXCEPT ![b] = [@ EXCEPT ![k] = "complete"]]
           /\ Has(b, k).held = bcs.held /\ Has(b, k).valid = bcs.valid
           /\ Has(b, k).blocks = bcs.blocks /\ Has(b, k).orphans = bcs.orphans
           /\ Has(b, k).chain = bcs.chain /\ Has(b, k).chainTail = bcs.chainTail
           /\ Has(b, k).next = bcs.next /\ Has(b, k).transactions = bcs.transactions
           /\ Has(b, k).pendingTransactions = bcs.pendingTransactions
           /\ Has(b, k).failed = bcs.failed
  BY ReceivesFields, Zenon DEF Has

\* An answer other than the body
LEMMA HasKnows ==
    ASSUME bcs \in BCS, Knows(bcs), NEW b \in Block, NEW k \in Kind, k # "bodies"
    PROVE  AnswerOf(Has(b, k), bcs, b)
<1>1. PICK h : h = Has(b, k)
  OBVIOUS
<1>2. /\ h \in BCS /\ h.request = [bcs.request EXCEPT ![b] = [@ EXCEPT ![k] = "complete"]]
      /\ h.held = bcs.held /\ h.valid = bcs.valid
      /\ h.blocks = bcs.blocks /\ h.orphans = bcs.orphans
      /\ h.chain = bcs.chain /\ h.chainTail = bcs.chainTail
      /\ h.next = bcs.next /\ h.transactions = bcs.transactions
      /\ h.pendingTransactions = bcs.pendingTransactions /\ h.failed = bcs.failed
  BY <1>1, HasFields
<1>3. bcs.request \in [Block -> [Kind -> {"not needed", "pending", "complete"}]]
  BY DEF BCS
<1>4. \A c \in Block : c # b => h.request[c] = bcs.request[c]
  BY <1>2, <1>3
<1>5. h.request[b]["bodies"] = bcs.request[b]["bodies"]
  <2>1. "bodies" \in Kind
    BY DEF Kind
  <2> QED
    BY <1>2, <1>3, <2>1
<1>6. KnowsBut(h, b)
  <2>1. \A c \in Block : c # b => /\ h.request[c] = bcs.request[c] /\ h.held[c] = bcs.held[c]
                                  /\ c \in h.valid <=> c \in bcs.valid
    BY <1>2, <1>4
  <2>2. h.held[b] = bcs.held[b]
    BY <1>2
  <2>3. h.request[b]["bodies"] = "complete" =>
            \/ h.held[b] = TxOf[b]
            \/ bcs.request[b]["bodies"] = "complete" /\ h.held[b] = bcs.held[b]
    BY <1>5, <2>2
  <2> QED
    BY <1>2, <2>1, <2>3, AnswerKnows
<1> QED
  BY <1>1, <1>2, <1>6 DEF AnswerOf

\* bcsHandleBlockBody
LEMMA WithBodyAnswer ==
    ASSUME bcs \in BCS, Knows(bcs), NEW b \in Block
    PROVE  AnswerOf(WithBody(b), bcs, b)
<1>1. PICK h : h = Has(b, "bodies")
  OBVIOUS
<1>2. "bodies" \in Kind /\ TxOf[b] \in SUBSET Tx
  BY SliceAssumption DEF Kind
<1>3. /\ h \in BCS /\ h.request = [bcs.request EXCEPT ![b] = [@ EXCEPT !["bodies"] = "complete"]]
      /\ h.held = bcs.held /\ h.valid = bcs.valid
      /\ h.blocks = bcs.blocks /\ h.orphans = bcs.orphans
      /\ h.chain = bcs.chain /\ h.chainTail = bcs.chainTail
      /\ h.next = bcs.next /\ h.transactions = bcs.transactions
      /\ h.pendingTransactions = bcs.pendingTransactions /\ h.failed = bcs.failed
  BY <1>1, <1>2, HasFields
<1>4. PICK t : t = [h EXCEPT !.held[b] = TxOf[b]]
  OBVIOUS
<1>5. /\ t \in BCS /\ t.held = [h.held EXCEPT ![b] = TxOf[b]]
      /\ t.request = h.request /\ t.valid = h.valid
      /\ t.blocks = h.blocks /\ t.orphans = h.orphans
      /\ t.chain = h.chain /\ t.chainTail = h.chainTail
      /\ t.next = h.next /\ t.transactions = h.transactions
      /\ t.pendingTransactions = h.pendingTransactions /\ t.failed = h.failed
  BY <1>2, <1>3, <1>4 DEF BCS
<1>6. bcs.request \in [Block -> [Kind -> {"not needed", "pending", "complete"}]]
      /\ bcs.held \in [Block -> SUBSET Tx]
  BY DEF BCS
<1>7. \A c \in Block : c # b => /\ t.request[c] = bcs.request[c] /\ t.held[c] = bcs.held[c]
                                /\ c \in t.valid <=> c \in bcs.valid
  BY <1>3, <1>5, <1>6
<1>8. t.held[b] = TxOf[b]
  BY <1>3, <1>5, <1>6
<1>9. t.transactions = bcs.transactions
  BY <1>3, <1>5
<1>10. KnowsBut(t, b)
  BY <1>5, <1>7, <1>8, <1>9, AnswerKnows
<1>11. AnswerOf(t, bcs, b)
  BY <1>3, <1>5, <1>10 DEF AnswerOf
<1>12. CASE TxOf[b] = {}
  <2>1. WithBody(b) = t
    BY <1>1, <1>4, <1>12 DEF WithBody
  <2> QED
    BY <1>11, <2>1
<1>13. CASE TxOf[b] # {}
  <2>1. PICK r : r = Request(t, b, Kind)
    OBVIOUS
  <2>2. Kind \in SUBSET Kind
    OBVIOUS
  <2>3. Requested(r, t, b)
    BY <1>5, <2>1, <2>2, RequestFields
  <2>4. KnowsBut(r, b)
    BY <1>5, <1>10, <2>3, RequestKnows
  <2>5. AnswerOf(r, bcs, b)
    BY <1>11, <2>3, <2>4 DEF AnswerOf, Requested
  <2>6. WithBody(b) = r
    BY <1>1, <1>4, <1>13, <2>1 DEF WithBody
  <2> QED
    BY <2>5, <2>6
<1> QED
  BY <1>12, <1>13

\* bcsHandleTransactionReceipts
LEMMA WithReceiptsAnswer ==
    ASSUME bcs \in BCS, Knows(bcs), NEW b \in Block
    PROVE  AnswerOf(WithReceipts(b), bcs, b)
<1>1. "receipts" \in Kind /\ "receipts" # "bodies" /\ {"proof"} \in SUBSET Kind
  BY DEF Kind
<1>2. PICK h : h = Has(b, "receipts")
  OBVIOUS
<1>3. AnswerOf(h, bcs, b)
  BY <1>1, <1>2, HasKnows
<1>4. CASE b \in NeedsReceipts
  <2>1. h \in BCS /\ KnowsBut(h, b)
    BY <1>3 DEF AnswerOf
  <2>2. PICK r : r = Request(h, b, {"proof"})
    OBVIOUS
  <2>3. Requested(r, h, b)
    BY <1>1, <2>1, <2>2, RequestFields
  <2>4. KnowsBut(r, b)
    BY <2>1, <2>3, RequestKnows
  <2>5. AnswerOf(r, bcs, b)
    BY <1>3, <2>3, <2>4 DEF AnswerOf, Requested
  <2> QED
    BY <1>2, <1>4, <2>2, <2>5 DEF WithReceipts
<1>5. CASE b \notin NeedsReceipts
  BY <1>2, <1>3, <1>5 DEF WithReceipts
<1> QED
  BY <1>4, <1>5

\* bcsHandleBlockProof
LEMMA WithProofAnswer ==
    ASSUME bcs \in BCS, Knows(bcs), NEW b \in Block, NEW c \in Block
    PROVE  AnswerOf(WithProof(b, c), bcs, c)
<1>1. "proof" \in Kind /\ "bodies" \in Kind
  BY DEF Kind
<1>2. PICK h : h = Receives(<<"proof", b>>, c, "proof")
  OBVIOUS
<1>3. /\ h \in BCS /\ h.request = [bcs.request EXCEPT ![c] = [@ EXCEPT !["proof"] = "complete"]]
      /\ h.held = bcs.held /\ h.valid = bcs.valid
      /\ h.blocks = bcs.blocks /\ h.orphans = bcs.orphans
      /\ h.chain = bcs.chain /\ h.chainTail = bcs.chainTail
      /\ h.next = bcs.next /\ h.transactions = bcs.transactions
      /\ h.pendingTransactions = bcs.pendingTransactions /\ h.failed = bcs.failed
  BY <1>1, <1>2, ReceivesFields
<1>4. PICK t : t = WithProof(b, c)
  OBVIOUS
<1>5. /\ t \in BCS /\ t.valid = h.valid \cup {c} /\ t.held = h.held /\ t.request = h.request
      /\ t.blocks = h.blocks /\ t.orphans = h.orphans
      /\ t.chain = h.chain /\ t.chainTail = h.chainTail
      /\ t.next = h.next /\ t.transactions = h.transactions
      /\ t.pendingTransactions = h.pendingTransactions /\ t.failed = h.failed
  <2>1. t = [h EXCEPT !.valid = @ \cup {c}]
    BY <1>2, <1>4 DEF WithProof
  <2> QED
    BY <1>3, <2>1 DEF BCS
<1>6. bcs.request \in [Block -> [Kind -> {"not needed", "pending", "complete"}]]
  BY DEF BCS
<1>7. \A x \in Block : x # c => /\ t.request[x] = bcs.request[x] /\ t.held[x] = bcs.held[x]
                                /\ x \in t.valid <=> x \in bcs.valid
  BY <1>3, <1>5, <1>6
<1>8. t.request[c]["bodies"] = bcs.request[c]["bodies"] /\ t.held[c] = bcs.held[c]
  <2>1. h.request[c]["bodies"] = bcs.request[c]["bodies"]
    BY <1>1, <1>3, <1>6
  <2> QED
    BY <1>3, <1>5, <2>1
<1>9. t.transactions = bcs.transactions
  BY <1>3, <1>5
<1>10. KnowsBut(t, c)
  BY <1>5, <1>7, <1>8, <1>9, AnswerKnows
<1> QED
  BY <1>3, <1>4, <1>5, <1>10 DEF AnswerOf

LEMMA WithAnswer ==
    ASSUME bcs \in BCS, Knows(bcs), NEW b \in Block, NEW k \in Kind, k # "proof"
    PROVE  AnswerOf(With(k, b), bcs, b)
<1>1. CASE k = "bodies"
  <2>1. With(k, b) = WithBody(b)
    BY <1>1 DEF With
  <2> QED
    BY <2>1, WithBodyAnswer
<1>2. CASE k = "receipts"
  <2>1. With(k, b) = WithReceipts(b)
    BY <1>2 DEF With
  <2> QED
    BY <2>1, WithReceiptsAnswer
<1>3. CASE k = "account"
  <2>1. With(k, b) = Has(b, k)
    BY <1>3 DEF With, WithAccount
  <2>2. k # "bodies"
    BY <1>3
  <2> QED
    BY <2>1, <2>2, HasKnows
<1> QED
  BY <1>1, <1>2, <1>3 DEF Kind

\* An answer for block b, whose effect on the struct is t
LEMMA HandledHolds ==
    ASSUME SliceInv, ~bcs.failed, NEW request, NEW k \in Kind, NEW b \in Block, NEW t,
           AnswerOf(t, bcs, b), Handled(request, k, b, t)
    PROVE  SliceInv'
<1>0. signals' = signals
  BY DEF Handled
<1>1. bcs \in Good(signals, {}) /\ bcs \in BCS
  BY InvHas
<1>2. Knows(bcs) /\ Waits(bcs, signals)
  BY <1>1, GoodHas
<1>3. CASE b \notin bcs.blocks
  <2>1. bcs' = Answered(request)
    BY <1>3 DEF Handled
  <2>2. Answered(request) \in Fine(signals)
    BY AnsweredFine
  <2> QED
    BY <1>0, <2>1, <2>2, InvHas, StepHolds
<1>4. CASE b \in bcs.blocks /\ ~Expects(b, k)
  <2>1. PICK u : u = [bcs EXCEPT !.failed = TRUE]
    OBVIOUS
  <2>2. bcs' = u
    BY <1>4, <2>1 DEF Handled
  <2>3. /\ u \in BCS /\ u.failed
        /\ u.request = bcs.request /\ u.held = bcs.held /\ u.valid = bcs.valid
        /\ u.transactions = bcs.transactions
        /\ u.pendingTransactions = bcs.pendingTransactions
    BY <1>1, <2>1 DEF BCS
  <2>4. Knows(u)
    BY <1>1, <1>2, <2>3, KnowsKept
  <2>5. Waits(u, signals)
    BY <1>1, <1>2, <2>3, WaitsKept
  <2>6. u \in Fine(signals)
    BY <2>3, <2>4, <2>5, Zenon DEF Fine
  <2> QED
    BY <1>0, <2>2, <2>6, InvHas, StepHolds
<1>5. CASE b \in bcs.blocks /\ Expects(b, k)
  <2>1. bcs' = ExtendTransactions(t, b)
    BY <1>5 DEF Handled
  <2>2. /\ t \in BCS /\ KnowsBut(t, b)
        /\ t.blocks = bcs.blocks /\ t.orphans = bcs.orphans
        /\ t.chain = bcs.chain /\ t.chainTail = bcs.chainTail /\ t.next = bcs.next
        /\ t.transactions = bcs.transactions
        /\ t.pendingTransactions = bcs.pendingTransactions /\ t.failed = bcs.failed
    BY DEF AnswerOf
  <2>3. PICK K \in SUBSET Block : Links(bcs, K, {})
    BY <1>1, GoodHas
  <2>4. K \subseteq t.blocks /\ t.orphans \subseteq t.blocks
    BY <2>2, <2>3 DEF Links
  <2>5. Links(t, K, {})
    BY <1>1, <2>2, <2>3, <2>4, LinksKept
  <2>6. Waits(t, signals) /\ ~t.failed
    BY <1>1, <1>2, <2>2, WaitsKept
  <2>7. ExtendTransactions(t, b) \in Good(signals, {})
    BY <2>2, <2>5, <2>6, ExtendTransactionsGood
  <2>8. ExtendTransactions(t, b) \in Fine(signals)
    BY <2>7, GoodIsFine
  <2> QED
    BY <1>0, <2>1, <2>8, InvHas, StepHolds
<1> QED
  BY <1>3, <1>4, <1>5

LEMMA ArrivesHolds ==
    ASSUME SliceInv, ~bcs.failed, NEW k \in Kind, NEW b \in Block, Arrives(k, b)
    PROVE  SliceInv'
<1>1. bcs \in Good(signals, {}) /\ bcs \in BCS
  BY InvHas
<1>2. Knows(bcs)
  BY <1>1, GoodHas
<1>3. k # "proof" /\ Handled(<<k, b>>, k, b, With(k, b))
  BY DEF Arrives
<1>4. AnswerOf(With(k, b), bcs, b)
  BY <1>1, <1>2, <1>3, WithAnswer
<1> QED
  BY <1>3, <1>4, HandledHolds

LEMMA ProofArrivesHolds ==
    ASSUME SliceInv, ~bcs.failed, NEW b \in Block, NEW c \in Block, ProofArrives(b, c)
    PROVE  SliceInv'
<1>1. bcs \in Good(signals, {}) /\ bcs \in BCS
  BY InvHas
<1>2. Knows(bcs)
  BY <1>1, GoodHas
<1>3. "proof" \in Kind /\ Handled(<<"proof", b>>, "proof", c, WithProof(b, c))
  BY DEF ProofArrives, Kind
<1>4. AnswerOf(WithProof(b, c), bcs, c)
  BY <1>1, <1>2, WithProofAnswer
<1> QED
  BY <1>3, <1>4, HandledHolds

LEMMA NotAnsweredHolds ==
    ASSUME SliceInv, ~bcs.failed, NEW k, NEW b, NotAnswered(k, b)
    PROVE  SliceInv'
<1>1. Answered(<<k, b>>) \in Fine(signals)
  BY AnsweredFine
<1>2. bcs' = Answered(<<k, b>>) /\ signals' = signals
  BY DEF NotAnswered
<1> QED
  BY <1>1, <1>2, InvHas, StepHolds
-----------------------------------------------------------------------------
(* Transactions. *)

\* An event more in the queue
LEMMA WaitsAppend ==
    ASSUME NEW s \in BCS, NEW q \in Seq(Tx \X Status), Waits(s, q), NEW e \in Tx \X Status
    PROVE  /\ Waits(s, Append(q, e)) /\ Append(q, e) \in Seq(Tx \X Status)
           /\ Len(Append(q, e)) = Len(q) + 1 /\ Append(q, e)[Len(q) + 1] = e
           /\ \A i \in DOMAIN q : i \in DOMAIN Append(q, e) /\ Append(q, e)[i] = q[i]
           /\ Len(q) + 1 \in DOMAIN Append(q, e)
<1>1. PICK r : r = Append(q, e)
  OBVIOUS
<1>2. r \in Seq(Tx \X Status) /\ Len(r) = Len(q) + 1 /\ r[Len(q) + 1] = e
  BY <1>1
<1>3. \A i \in DOMAIN q : i \in DOMAIN r /\ r[i] = q[i]
  BY <1>1
<1>4. Len(q) + 1 \in DOMAIN r
  BY <1>1
<1>5. Waits(s, r)
  <2> SUFFICES ASSUME NEW t \in Tx, s.transactions[t] # NoStatus, ~Final(s.transactions[t]),
                      t \notin s.pendingTransactions
               PROVE  \E i \in DOMAIN r : r[i][1] = t /\ ~Final(r[i][2])
    BY Zenon DEF Waits
  <2>1. PICK i \in DOMAIN q : q[i][1] = t /\ ~Final(q[i][2])
    BY Zenon DEF Waits
  <2> QED
    BY <1>3, <2>1
<1> QED
  BY <1>1, <1>2, <1>3, <1>4, <1>5

LEMMA StatusTypes ==
    /\ Unknown \in Status /\ Pending \in Status /\ Errored \in Status
    /\ \A b \in Block : Included(b) \in Status
    /\ NoStatus \notin Status
BY DEF Unknown, Pending, Errored, Included, Status, NoStatus

LEMMA SubmitHolds ==
    ASSUME SliceInv, ~bcs.failed, NEW t \in Tx, HandleSubmitTransaction(t)
    PROVE  SliceInv'
<1>1. bcs \in BCS /\ bcs \in Good(signals, {}) /\ signals \in Seq(Tx \X Status)
      /\ bcs.les \in SUBSET Requests
  BY InvHas
<1>2. PICK s : s = [bcs EXCEPT !.pendingTransactions = @ \cup {t},
                               !.les = @ \cup {<<"status", t>>}]
  OBVIOUS
<1>3. bcs' = s /\ signals' = Append(signals, <<t, Unknown>>)
  BY <1>2 DEF HandleSubmitTransaction
<1>4. <<"status", t>> \in Requests
  BY DEF Requests
<1>5. /\ s \in BCS /\ s.blocks = bcs.blocks /\ s.orphans = bcs.orphans
      /\ s.chain = bcs.chain /\ s.chainTail = bcs.chainTail /\ s.next = bcs.next
      /\ s.request = bcs.request /\ s.held = bcs.held /\ s.valid = bcs.valid
      /\ s.transactions = bcs.transactions
      /\ s.pendingTransactions = bcs.pendingTransactions \cup {t} /\ s.failed = bcs.failed
  BY <1>1, <1>2, <1>4 DEF BCS, Requests
<1>6. s \in Good(signals, {})
  BY <1>1, <1>5, GoodKept
<1>7. Waits(s, signals) /\ ~s.failed /\ Knows(s)
  BY <1>6, GoodHas
<1>8. PICK K \in SUBSET Block : Links(s, K, {})
  BY <1>6, GoodHas
<1>9. <<t, Unknown>> \in Tx \X Status
  BY StatusTypes
<1>10. PICK q : q = Append(signals, <<t, Unknown>>)
  OBVIOUS
<1>11. Waits(s, q) /\ q \in Seq(Tx \X Status)
  BY <1>1, <1>5, <1>7, <1>9, <1>10, WaitsAppend
<1>12. s \in Good(q, {})
  BY <1>5, <1>7, <1>8, <1>11, GoodIs
<1>13. s \in Fine(q)
  BY <1>12, GoodIsFine
<1> QED
  BY <1>3, <1>10, <1>11, <1>13, StepHolds

LEMMA PeriodicHolds ==
    ASSUME SliceInv, ~bcs.failed, PeriodicDispatcher
    PROVE  SliceInv'
<1>1. bcs \in BCS /\ bcs \in Fine(signals) /\ bcs.les \in SUBSET Requests
  BY InvHas
<1>2. PICK asks : asks = {<<"status", t>> : t \in bcs.pendingTransactions}
  OBVIOUS
<1>3. asks \in SUBSET Requests
  <2>1. bcs.pendingTransactions \in SUBSET Tx
    BY <1>1 DEF BCS
  <2>2. \A t \in bcs.pendingTransactions : <<"status", t>> \in Requests
    BY <2>1 DEF Requests
  <2> QED
    BY <1>2, <2>2
<1>4. PICK les : les = bcs.les \cup asks
  OBVIOUS
<1>5. les \in SUBSET Requests
  BY <1>1, <1>3, <1>4
<1>6. [bcs EXCEPT !.les = les] \in Fine(signals)
  BY <1>1, <1>5, LesAlone
<1>7. bcs' = [bcs EXCEPT !.les = les] /\ signals' = signals
  BY <1>2, <1>4 DEF PeriodicDispatcher
<1> QED
  BY <1>6, <1>7, InvHas, StepHolds

LEMMA TransactionStatusHolds ==
    ASSUME SliceInv, ~bcs.failed, NEW t \in Tx, NEW status \in Status,
           HandleTransactionStatus(t, status)
    PROVE  SliceInv'
<1>1. bcs \in BCS /\ bcs \in Good(signals, {}) /\ signals \in Seq(Tx \X Status)
  BY InvHas
<1>2. Knows(bcs) /\ Waits(bcs, signals)
  BY <1>1, GoodHas
<1>3. PICK K \in SUBSET Block : Links(bcs, K, {})
  BY <1>1, GoodHas
<1>4. K \subseteq bcs.blocks /\ bcs.orphans \subseteq bcs.blocks
  BY <1>3 DEF Links
<1>5. CASE bcs.transactions[t].type = status.type
  <2>1. PICK pending : pending = IF Final(status) THEN bcs.pendingTransactions \ {t}
                                 ELSE bcs.pendingTransactions
    OBVIOUS
  <2>2. PICK s : s = [bcs EXCEPT !.pendingTransactions = pending]
    OBVIOUS
  <2>3. bcs' = s /\ signals' = signals
    BY <1>1, <1>5, <2>1, <2>2 DEF HandleTransactionStatus, BCS
  <2>4. pending \in SUBSET Tx
    BY <1>1, <2>1 DEF BCS
  <2>5. /\ s \in BCS /\ s.blocks = bcs.blocks /\ s.orphans = bcs.orphans
        /\ s.chain = bcs.chain /\ s.chainTail = bcs.chainTail /\ s.next = bcs.next
        /\ s.request = bcs.request /\ s.held = bcs.held /\ s.valid = bcs.valid
        /\ s.transactions = bcs.transactions
        /\ s.pendingTransactions = pending /\ s.failed = bcs.failed
    BY <1>1, <2>2, <2>4 DEF BCS
  <2>6. Links(s, K, {})
    BY <1>1, <1>3, <1>4, <2>5, LinksKept
  <2>7. Knows(s)
    BY <1>1, <1>2, <2>5, KnowsKept
  <2>8. Waits(s, signals)
    <3> SUFFICES ASSUME NEW x \in Tx, s.transactions[x] # NoStatus, ~Final(s.transactions[x])
                 PROVE  \/ x \in s.pendingTransactions
                        \/ \E i \in DOMAIN signals : signals[i][1] = x /\ ~Final(signals[i][2])
      BY Zenon DEF Waits
    <3>1. \/ x \in bcs.pendingTransactions
          \/ \E i \in DOMAIN signals : signals[i][1] = x /\ ~Final(signals[i][2])
      BY <1>2, <2>5 DEF Waits
    <3>2. x = t => ~Final(status)
      BY <1>5, <2>5 DEF Final
    <3> QED
      BY <2>1, <2>5, <3>1, <3>2
  <2>9. s \in Good(signals, {})
    BY <2>5, <2>6, <2>7, <2>8, GoodIs
  <2>10. s \in Fine(signals)
    BY <2>9, GoodIsFine
  <2> QED
    BY <1>1, <2>3, <2>10, StepHolds
<1>6. CASE bcs.transactions[t].type # status.type
  <2>1. PICK s : s = [bcs EXCEPT !.transactions[t] = status]
    OBVIOUS
  <2>2. PICK q : q = Append(signals, <<t, status>>)
    OBVIOUS
  <2>3. bcs' = s /\ signals' = q
    BY <1>6, <2>1, <2>2 DEF HandleTransactionStatus
  <2>4. /\ s \in BCS /\ s.blocks = bcs.blocks /\ s.orphans = bcs.orphans
        /\ s.chain = bcs.chain /\ s.chainTail = bcs.chainTail /\ s.next = bcs.next
        /\ s.request = bcs.request /\ s.held = bcs.held /\ s.valid = bcs.valid
        /\ s.transactions = [bcs.transactions EXCEPT ![t] = status]
        /\ s.pendingTransactions = bcs.pendingTransactions /\ s.failed = bcs.failed
    BY <1>1, <2>1 DEF BCS
  <2>5. bcs.transactions \in [Tx -> Status \cup {NoStatus}]
    BY <1>1 DEF BCS
  <2>6. Links(s, K, {})
    BY <1>1, <1>3, <1>4, <2>4, LinksKept
  <2>7. Knows(s)
    <3>1. \A x \in Tx : bcs.transactions[x] # NoStatus => s.transactions[x] # NoStatus
      BY <2>4, <2>5, StatusTypes
    <3> QED
      BY <1>1, <1>2, <2>4, <3>1, KnowsKept
  <2>8. <<t, status>> \in Tx \X Status
    OBVIOUS
  <2>9. /\ Waits(bcs, q) /\ q \in Seq(Tx \X Status)
        /\ q[Len(signals) + 1] = <<t, status>> /\ Len(signals) + 1 \in DOMAIN q
    BY <1>1, <1>2, <2>2, <2>8, WaitsAppend
  <2>10. Waits(s, q)
    <3> SUFFICES ASSUME NEW x \in Tx, s.transactions[x] # NoStatus, ~Final(s.transactions[x])
                 PROVE  \/ x \in s.pendingTransactions
                        \/ \E i \in DOMAIN q : q[i][1] = x /\ ~Final(q[i][2])
      BY Zenon DEF Waits
    <3>1. CASE x = t
      <4>1. s.transactions[x] = status
        BY <2>4, <2>5, <3>1
      <4>2. q[Len(signals) + 1][1] = x /\ ~Final(q[Len(signals) + 1][2])
        BY <2>9, <3>1, <4>1
      <4> QED
        BY <2>9, <4>2
    <3>2. CASE x # t
      <4>1. s.transactions[x] = bcs.transactions[x]
        BY <2>4, <2>5, <3>2
      <4> QED
        BY <2>4, <2>9, <4>1, Zenon DEF Waits
    <3> QED
      BY <3>1, <3>2
  <2>11. s \in Good(q, {})
    BY <2>4, <2>6, <2>7, <2>10, GoodIs
  <2>12. s \in Fine(q)
    BY <2>11, GoodIsFine
  <2> QED
    BY <2>3, <2>9, <2>12, StepHolds
<1> QED
  BY <1>5, <1>6

LEMMA SignalHolds ==
    ASSUME SliceInv, ~bcs.failed, HandleSignal
    PROVE  SliceInv'
<1>1. bcs \in BCS /\ bcs \in Good(signals, {}) /\ signals \in Seq(Tx \X Status)
  BY InvHas
<1>2. Knows(bcs) /\ Waits(bcs, signals)
  BY <1>1, GoodHas
<1>3. PICK K \in SUBSET Block : Links(bcs, K, {})
  BY <1>1, GoodHas
<1>4. K \subseteq bcs.blocks /\ bcs.orphans \subseteq bcs.blocks
  BY <1>3 DEF Links
<1>5. signals # <<>>
  BY DEF HandleSignal
<1>6. PICK t, status : t = Head(signals)[1] /\ status = Head(signals)[2]
  OBVIOUS
<1>7. PICK q : q = Tail(signals)
  OBVIOUS
<1>8. /\ Head(signals) \in Tx \X Status /\ q \in Seq(Tx \X Status)
      /\ signals[1] = Head(signals) /\ Len(q) = Len(signals) - 1
      /\ \A i \in 1..Len(q) : q[i] = signals[i + 1]
  BY <1>1, <1>5, <1>7, HeadTailProperties
<1>9. t \in Tx /\ status \in Status
  BY <1>6, <1>8
<1>10. PICK pending : pending = IF Final(status) THEN bcs.pendingTransactions
                                ELSE bcs.pendingTransactions \cup {t}
  OBVIOUS
<1>11. PICK s : s = [bcs EXCEPT !.transactions[t] = status, !.pendingTransactions = pending]
  OBVIOUS
<1>12. bcs' = s /\ signals' = q
  <2>1. bcs' = HandleTransaction(bcs, t, status) /\ signals' = q
    BY <1>6, <1>7 DEF HandleSignal
  <2> QED
    BY <1>1, <1>10, <1>11, <2>1 DEF HandleTransaction, BCS
<1>13. pending \in SUBSET Tx
  BY <1>1, <1>9, <1>10 DEF BCS
<1>14. /\ s \in BCS /\ s.blocks = bcs.blocks /\ s.orphans = bcs.orphans
       /\ s.chain = bcs.chain /\ s.chainTail = bcs.chainTail /\ s.next = bcs.next
       /\ s.request = bcs.request /\ s.held = bcs.held /\ s.valid = bcs.valid
       /\ s.transactions = [bcs.transactions EXCEPT ![t] = status]
       /\ s.pendingTransactions = pending /\ s.failed = bcs.failed
  BY <1>1, <1>9, <1>11, <1>13 DEF BCS
<1>15. bcs.transactions \in [Tx -> Status \cup {NoStatus}]
  BY <1>1 DEF BCS
<1>16. Links(s, K, {})
  BY <1>1, <1>3, <1>4, <1>14, LinksKept
<1>17. Knows(s)
  <2>1. \A x \in Tx : bcs.transactions[x] # NoStatus => s.transactions[x] # NoStatus
    BY <1>9, <1>14, <1>15, StatusTypes
  <2> QED
    BY <1>1, <1>2, <1>14, <2>1, KnowsKept
<1>18. Waits(s, q)
  <2> SUFFICES ASSUME NEW x \in Tx, s.transactions[x] # NoStatus, ~Final(s.transactions[x])
               PROVE  \/ x \in s.pendingTransactions
                      \/ \E i \in DOMAIN q : q[i][1] = x /\ ~Final(q[i][2])
    BY Zenon DEF Waits
  <2>1. CASE x = t
    <3>1. s.transactions[x] = status
      BY <1>14, <1>15, <2>1
    <3> QED
      BY <1>10, <1>14, <2>1, <3>1
  <2>2. CASE x # t
    <3>1. s.transactions[x] = bcs.transactions[x]
      BY <1>14, <1>15, <2>2
    <3>2. \/ x \in bcs.pendingTransactions
          \/ \E i \in DOMAIN signals : signals[i][1] = x /\ ~Final(signals[i][2])
      BY <1>2, <3>1, Zenon DEF Waits
    <3>3. CASE x \in bcs.pendingTransactions
      BY <1>10, <1>14, <3>3
    <3>4. ASSUME NEW i \in DOMAIN signals, signals[i][1] = x, ~Final(signals[i][2])
          PROVE  \E j \in DOMAIN q : q[j][1] = x /\ ~Final(q[j][2])
      <4>1. i # 1
        BY <1>6, <1>8, <2>2, <3>4
      <4>2. i - 1 \in DOMAIN q /\ i - 1 \in 1..Len(q) /\ (i - 1) + 1 = i
        BY <1>1, <1>8, <4>1
      <4>3. q[i - 1] = signals[i]
        BY <1>8, <4>2
      <4> QED
        BY <3>4, <4>2, <4>3
    <3> QED
      BY <3>2, <3>3, <3>4
  <2> QED
    BY <2>1, <2>2
<1>19. s \in Good(q, {})
  BY <1>14, <1>16, <1>17, <1>18, GoodIs
<1>20. s \in Fine(q)
  BY <1>19, GoodIsFine
<1> QED
  BY <1>8, <1>12, <1>20, StepHolds
-----------------------------------------------------------------------------
(* The theorems. *)

LEMMA InitHolds ==
    ASSUME Init
    PROVE  SliceInv
<1>1. PICK b \in First : bcs = Created(b)
  BY DEF Init
<1>2. b \in Block /\ Genesis \in Block /\ {b} \in SUBSET Block
  BY <1>1, SliceAssumption
<1>3. signals = <<>>
  BY DEF Init
<1>4. PICK s : s = Created(b)
  OBVIOUS
<1>5. /\ s \in BCS /\ s.blocks = {Genesis, b} /\ s.orphans = {}
      /\ s.chain = b /\ s.chainTail = b /\ s.next = [c \in Block |-> NoBlock]
      /\ s.request = [c \in Block |-> NothingAsked]
      /\ s.transactions = [t \in Tx |-> NoStatus] /\ s.failed = FALSE
  BY <1>2, <1>4 DEF Created, BCS, NothingAsked, Kind
<1>6. Links(s, {b}, {})
  <2>1. Number[b] \in Nat
    BY <1>2, SliceAssumption
  <2>2. \A n \in Number[s.chainTail]..Number[s.chain] : \E c \in {b} : Number[c] = n
    BY <1>5, <2>1
  <2>3. \A c \in {b} : Number[s.chainTail] <= Number[c] /\ Number[c] <= Number[s.chain]
    BY <1>5, <2>1
  <2>4. s.next[b] = NoBlock
    BY <1>2, <1>5
  <2> QED
    BY <1>5, <2>2, <2>3, <2>4 DEF Links
<1>7. Knows(s)
  <2>1. NothingAsked["bodies"] = "not needed"
    BY DEF NothingAsked, Kind
  <2>2. \A c \in Block : s.request[c]["bodies"] = "not needed"
    BY <1>5, <2>1
  <2> QED
    BY <2>2 DEF Knows
<1>8. Waits(s, <<>>)
  BY <1>5 DEF Waits
<1>9. ~s.failed
  BY <1>5
<1>10. s \in Good(<<>>, {})
  BY <1>2, <1>5, <1>6, <1>7, <1>8, <1>9, GoodIs
<1>11. s \in Fine(<<>>)
  BY <1>10, GoodIsFine
<1>12. <<>> \in Seq(Tx \X Status)
  OBVIOUS
<1>13. Holds(s, <<>>)
  BY <1>11, <1>12 DEF Holds
<1> QED
  BY <1>1, <1>3, <1>4, <1>13 DEF SliceInv

LEMMA NextHolds ==
    ASSUME SliceInv, Next
    PROVE  SliceInv'
<1>1. ~bcs.failed
  BY DEF Next
<1>2. CASE \E n \in Numbers, depth \in 0..2 : depth < n /\ HandleAnnounce(n, depth)
  BY <1>1, <1>2, AnnounceHolds
<1>3. CASE Answers
  <2>1. PICK b \in Block : \/ \E k \in Kind : Arrives(k, b) \/ NotAnswered(k, b)
                           \/ \E c \in Block : ProofArrives(b, c)
                           \/ \E r \in bcs.les : r[1] = "headers" /\ HeadersArrive(r[2], r[3], b)
    BY <1>3 DEF Answers
  <2>2. CASE \E k \in Kind : Arrives(k, b) \/ NotAnswered(k, b)
    BY <1>1, <2>2, ArrivesHolds, NotAnsweredHolds
  <2>3. CASE \E r \in bcs.les : r[1] = "headers" /\ HeadersArrive(r[2], r[3], b)
    BY <1>1, <2>3, HeadersArriveHolds
  <2>4. CASE \E c \in Block : ProofArrives(b, c)
    BY <1>1, <2>4, ProofArrivesHolds
  <2> QED
    BY <2>1, <2>2, <2>3, <2>4
<1>4. CASE Syncs
  <2>1. CASE \E n \in Numbers : HandleStatus(n) \/ Sync(n)
    BY <1>1, <2>1, StatusHolds, SyncHolds
  <2>2. CASE \E b \in Block, from \in Numbers : SyncReports(b, from)
    BY <1>1, <2>2, SyncReportsHolds
  <2>3. CASE SyncFails
    BY <1>1, <2>3, SyncFailsHolds
  <2> QED
    BY <1>4, <2>1, <2>2, <2>3 DEF Syncs
<1>5. CASE Transactions
  <2>1. PICK t \in Tx : \/ HandleSubmitTransaction(t)
                        \/ HandleTransactionStatus(t, Pending)
                        \/ HandleTransactionStatus(t, Errored)
                        \/ \E b \in Block : t \in TxOf[b] /\ HandleTransactionStatus(t, Included(b))
    BY <1>5 DEF Transactions
  <2>2. CASE HandleSubmitTransaction(t)
    BY <1>1, <2>2, SubmitHolds
  <2>3. CASE HandleTransactionStatus(t, Pending)
    BY <1>1, <2>3, StatusTypes, TransactionStatusHolds
  <2>4. CASE HandleTransactionStatus(t, Errored)
    BY <1>1, <2>4, StatusTypes, TransactionStatusHolds
  <2>5. CASE \E b \in Block : t \in TxOf[b] /\ HandleTransactionStatus(t, Included(b))
    <3>1. PICK b \in Block : HandleTransactionStatus(t, Included(b))
      BY <2>5
    <3>2. Included(b) \in Status
      BY StatusTypes
    <3> QED
      BY <1>1, <3>1, <3>2, TransactionStatusHolds
  <2> QED
    BY <2>1, <2>2, <2>3, <2>4, <2>5
<1>6. CASE PeriodicDispatcher
  BY <1>1, <1>6, PeriodicHolds
<1>7. CASE HandleSignal
  BY <1>1, <1>7, SignalHolds
<1> QED
  BY <1>2, <1>3, <1>4, <1>5, <1>6, <1>7 DEF Next

\* The invariant holds in every behaviour of the slice.
LEMMA SliceInvHolds == Spec => []SliceInv
<1>1. Init => SliceInv
  BY InitHolds
<1>2. SliceInv /\ [Next]_vars => SliceInv'
  <2>1. CASE Next
    BY <2>1, NextHolds
  <2>2. CASE UNCHANGED vars
    BY <2>2 DEF vars, SliceInv, Holds
  <2> QED
    BY <2>1, <2>2
<1> QED
  BY <1>1, <1>2, PTL DEF Spec

\* The struct, its lists and the events in the queue keep their types.
THEOREM SliceTyped == Spec => []TypeOK
<1>1. SliceInv => TypeOK
  BY Zenon DEF SliceInv, Holds, Fine, TypeOK
<1> QED
  BY <1>1, SliceInvHolds, PTL

\* For every tree of blocks the nodes have: whatever headers arrive, in whatever
\* order, and after every reorganization, sync and reclaiming of old blocks, the
\* next pointers lead from the head of the chain from parent to parent to the
\* tail, through blocks that are kept and are no orphans.
THEOREM ChainIsLinked == Spec => []ChainLinked
<1>1. SliceInv => ChainLinked
  <2> SUFFICES ASSUME SliceInv, ~bcs.failed
               PROVE  /\ bcs.chainTail \in Chained(bcs)
                      /\ Chained(bcs) \subseteq bcs.blocks \ bcs.orphans
                      /\ \A b \in Chained(bcs) :
                           bcs.next[b] = IF b = bcs.chainTail THEN NoBlock ELSE Parent[b]
    BY DEF ChainLinked
  <2>1. bcs \in BCS /\ bcs \in Good(signals, {})
    BY InvHas
  <2>2. PICK K \in SUBSET Block : Links(bcs, K, {})
    BY <2>1, GoodHas
  <2>3. Chained(bcs) = K
    BY <2>1, <2>2, ChainedIsChain
  <2> QED
    BY <2>2, <2>3 DEF Links
<1> QED
  BY <1>1, SliceInvHolds, PTL

\* For any number of transactions: one whose status is not final is asked for,
\* or will be when the events in the queue are handled.
THEOREM NonFinalStaysPending == Spec => []NonFinalIsPending
<1>1. SliceInv => NonFinalIsPending
  <2> SUFFICES ASSUME SliceInv
               PROVE  NonFinalIsPending
    OBVIOUS
  <2>1. Waits(bcs, signals)
    BY Zenon DEF SliceInv, Holds, Fine
  <2> QED
    BY <2>1, Zenon DEF Waits, NonFinalIsPending
<1> QED
  BY <1>1, SliceInvHolds, PTL

\* In whatever order the parts of a block arrive, before or after it is chained,
\* its transactions are known once it is complete and valid.
THEOREM ChainedTransactionsAreKnown == Spec => []ChainedTransactionsKnown
<1>1. SliceInv => ChainedTransactionsKnown
  <2> SUFFICES ASSUME SliceInv, NEW b \in Chained(bcs), NEW t \in Tx, b \in bcs.valid,
                      Complete(bcs, b), bcs.request[b]["bodies"] = "complete", t \in TxOf[b]
               PROVE  bcs.transactions[t] # NoStatus
    BY Zenon DEF ChainedTransactionsKnown
  <2>1. bcs \in BCS /\ Knows(bcs)
    BY Zenon DEF SliceInv, Holds, Fine
  <2>2. b \in Block
    BY <2>1, WalkType
  <2> QED
    BY <2>1, <2>2, Zenon DEF Knows
<1> QED
  BY <1>1, SliceInvHolds, PTL
=============================================================================
