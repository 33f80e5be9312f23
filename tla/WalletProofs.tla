---------------------------- MODULE WalletProofs ----------------------------
(***************************************************************************)
(* What TLAPS proves of Wallet for every set of transactions, threads,     *)
(* heights and every gap limit:                                            *)
(*                                                                         *)
(*  - the list (ListInv): it stays sorted by height, is owned by allTx,    *)
(*    holds nothing confirmed above wallet->blockHeight, and a removal     *)
(*    takes the dependents along;                                          *)
(*  - the caches (CacheInv): no output that is offered is spent, of two    *)
(*    transactions that spend the same output one counts, a confirmed one  *)
(*    always counts;                                                       *)
(*  - the amounts (AmountInv): the balance is the sum of the outputs;      *)
(*  - the callbacks (FramesInv): what is listed is stored, or the call     *)
(*    that will store it is under way;                                     *)
(*  - from all of them, the type invariant.                                *)
(***************************************************************************)
EXTENDS Wallet, BasicLemmas

-----------------------------------------------------------------------------
(* The order of the list. *)

NoDuplicates(s) == \A i, j \in 1..Len(s) : s[i] = s[j] => i = j

SortedOn(h, s) == \A i, j \in 1..Len(s) : i < j => h[s[i]] <= h[s[j]]

\* _BRWalletTxCompare never contradicts the heights: what it puts after t is at
\* least as high, what it does not is at most as high.
LEMMA ComparesByHeight ==
    ASSUME NEW h \in [Tx -> Nat], NEW all, NEW t \in Tx, NEW u \in Tx
    PROVE  /\ TxComparesAfter(h, all, u, t) => h[t] <= h[u]
           /\ ~TxComparesAfter(h, all, u, t) => h[u] <= h[t]
<1>1. h[t] \in Nat /\ h[u] \in Nat
  OBVIOUS
<1>2. CASE h[u] > h[t]
  BY <1>1, <1>2 DEF TxComparesAfter, TxIsAscending
<1>3. CASE h[t] > h[u]
  <2>1. TxIsAscending(h, all, t, u)
    BY <1>3 DEF TxIsAscending
  <2>2. ~TxIsAscending(h, all, u, t)
    BY <1>1, <1>3 DEF TxIsAscending
  <2>3. QED
    BY <1>1, <1>3, <2>1, <2>2 DEF TxComparesAfter
<1>4. CASE h[u] = h[t]
  BY <1>1, <1>4
<1>5. QED
  BY <1>1, <1>2, <1>3, <1>4

\* _BRWalletInsertTx adds one transaction and keeps a list sorted by height sorted.
LEMMA InsertTxProperties ==
    ASSUME NEW h \in [Tx -> Nat], NEW all, NEW s \in Seq(Tx), NEW t \in Tx,
           SortedOn(h, s)
    PROVE  /\ InsertTx(h, all, s, t) \in Seq(Tx)
           /\ SortedOn(h, InsertTx(h, all, s, t))
           /\ Elems(InsertTx(h, all, s, t)) = Elems(s) \cup {t}
           /\ NoDuplicates(s) /\ t \notin Elems(s) => NoDuplicates(InsertTx(h, all, s, t))
<1> DEFINE P == InsertPositions(h, all, s, t)
           k == Min(P)
           r == InsertTx(h, all, s, t)
<1>1. Len(s) \in Nat /\ \A i \in 1..Len(s) : s[i] \in Tx /\ h[s[i]] \in Nat
  BY LenProperties, ElementOfSeq
<1>2. Len(s) + 1 \in P
  BY <1>1 DEF InsertPositions
<1>3. P \in SUBSET Nat
  BY <1>1 DEF InsertPositions
<1> HIDE DEF P
<1>4. k \in P /\ \A i \in P : k <= i
  BY <1>2, <1>3, MinProperties
<1> HIDE DEF k
<1>5. k \in 1..(Len(s) + 1) /\ \A j \in k..Len(s) : TxComparesAfter(h, all, s[j], t)
  BY <1>4 DEF P, InsertPositions
<1>6. ASSUME k > 1 PROVE ~TxComparesAfter(h, all, s[k - 1], t)
  <2>1. k - 1 \notin P
    BY <1>1, <1>4, <1>5, <1>6
  <2>2. k - 1 \in 1..(Len(s) + 1)
    BY <1>1, <1>5, <1>6
  <2>3. PICK j \in (k - 1)..Len(s) : ~TxComparesAfter(h, all, s[j], t)
    BY <2>1, <2>2 DEF P, InsertPositions
  <2>4. j = k - 1
    BY <1>1, <1>5, <2>2, <2>3
  <2>5. QED
    BY <2>3, <2>4
<1>7. \A j \in 1..Len(s) : (j < k => h[s[j]] <= h[t]) /\ (j >= k => h[t] <= h[s[j]])
  <2> SUFFICES ASSUME NEW j \in 1..Len(s)
               PROVE  (j < k => h[s[j]] <= h[t]) /\ (j >= k => h[t] <= h[s[j]])
    OBVIOUS
  <2>1. CASE j >= k
    BY <1>1, <1>5, <2>1, ComparesByHeight
  <2>2. CASE j < k
    <3>1. k > 1 /\ k - 1 \in 1..Len(s)
      BY <1>1, <1>5, <2>2
    <3>2. h[s[k - 1]] <= h[t]
      BY <1>1, <1>6, <3>1, ComparesByHeight
    <3>3. h[s[j]] <= h[s[k - 1]]
      <4>1. CASE j = k - 1
        BY <1>1, <4>1
      <4>2. CASE j < k - 1
        BY <3>1, <4>2 DEF SortedOn
      <4>3. QED
        BY <1>1, <1>5, <2>2, <4>1, <4>2
    <3>4. QED
      BY <1>1, <1>5, <2>2, <3>1, <3>2, <3>3
  <2>3. QED
    BY <1>1, <1>5, <2>1, <2>2
<1>8. /\ r \in Seq(Tx)
      /\ Len(r) = Len(s) + 1
      /\ \A j \in 1..(Len(s) + 1) :
            r[j] = IF j < k THEN s[j] ELSE IF j = k THEN t ELSE s[j - 1]
  <2>1. r = InsertAt(s, k, t)
    BY DEF InsertTx, k, P
  <2>2. \A i \in 1..(Len(s) + 1) :
           InsertAt(s, i, t) \in Seq(Tx) /\ IsInsertion(InsertAt(s, i, t), s, i, t)
    BY InsertAtProperties, Zenon
  <2> HIDE DEF r
  <2>3. r \in Seq(Tx) /\ IsInsertion(r, s, k, t)
    BY <1>5, <2>1, <2>2, Zenon
  <2>4. QED
    BY <2>3 DEF IsInsertion
<1> HIDE DEF r
<1>9. SortedOn(h, r)
  <2> SUFFICES ASSUME NEW i \in 1..Len(r), NEW j \in 1..Len(r), i < j
               PROVE  h[r[i]] <= h[r[j]]
    BY DEF SortedOn
  <2>0. i \in 1..(Len(s) + 1) /\ j \in 1..(Len(s) + 1) /\ h[t] \in Nat
    BY <1>8
  <2>1. CASE j < k
    <3>1. r[i] = s[i] /\ r[j] = s[j] /\ i \in 1..Len(s) /\ j \in 1..Len(s)
      <4>1. i \in 1..Len(s) /\ j \in 1..Len(s) /\ i < k
        BY <1>1, <1>5, <2>0, <2>1
      <4>2. QED
        BY <1>8, <2>0, <2>1, <4>1
    <3>2. QED
      BY <3>1 DEF SortedOn
  <2>2. CASE j = k
    <3>1. r[j] = t /\ r[i] = s[i] /\ i \in 1..Len(s) /\ i < k
      BY <1>1, <1>5, <1>8, <2>0, <2>2
    <3>2. QED
      BY <1>7, <3>1
  <2>3. CASE j > k /\ i = k
    <3>1. r[i] = t /\ r[j] = s[j - 1] /\ j - 1 \in 1..Len(s) /\ j - 1 >= k
      <4>1. j - 1 \in 1..Len(s) /\ j - 1 >= k /\ ~(j < k) /\ j # k
        BY <1>1, <1>5, <2>0, <2>3
      <4>2. QED
        BY <1>8, <2>0, <2>3, <4>1
    <3>2. QED
      BY <1>7, <3>1
  <2>4. CASE j > k /\ i > k
    <3>1. /\ r[i] = s[i - 1] /\ r[j] = s[j - 1]
          /\ i - 1 \in 1..Len(s) /\ j - 1 \in 1..Len(s) /\ i - 1 < j - 1
      BY <1>1, <1>5, <1>8, <2>0, <2>4
    <3>2. QED
      BY <3>1 DEF SortedOn
  <2>5. CASE j > k /\ i < k
    <3>1. /\ r[i] = s[i] /\ r[j] = s[j - 1]
          /\ i \in 1..Len(s) /\ j - 1 \in 1..Len(s) /\ i < j - 1
      <4>1. i \in 1..Len(s) /\ j - 1 \in 1..Len(s) /\ i < j - 1 /\ ~(j < k) /\ j # k
        BY <1>1, <1>5, <2>0, <2>5
      <4>2. r[i] = s[i]
        BY <1>8, <2>0, <2>5
      <4>3. r[j] = s[j - 1]
        BY <1>8, <2>0, <4>1
      <4>4. QED
        BY <4>1, <4>2, <4>3
    <3>2. QED
      BY <3>1 DEF SortedOn
  <2>6. QED
    BY <1>1, <1>5, <2>0, <2>1, <2>2, <2>3, <2>4, <2>5
<1>10. Elems(r) = Elems(s) \cup {t}
  <2>1. ASSUME NEW j \in 1..Len(r) PROVE r[j] \in Elems(s) \cup {t}
    <3>0. j \in 1..(Len(s) + 1)
      BY <1>8
    <3>1. CASE j < k
      BY <1>1, <1>5, <1>8, <3>0, <3>1 DEF Elems
    <3>2. CASE j = k
      BY <1>8, <3>0, <3>2
    <3>3. CASE j > k
      <4>1. r[j] = s[j - 1] /\ j - 1 \in 1..Len(s)
        BY <1>1, <1>5, <1>8, <3>0, <3>3
      <4>2. QED
        BY <4>1 DEF Elems
    <3>4. QED
      BY <1>1, <1>5, <3>0, <3>1, <3>2, <3>3
  <2>2. t \in Elems(r)
    <3>1. r[k] = t /\ k \in 1..Len(r)
      BY <1>1, <1>5, <1>8
    <3>2. QED
      BY <3>1 DEF Elems
  <2>3. ASSUME NEW j \in 1..Len(s) PROVE s[j] \in Elems(r)
    <3>1. CASE j < k
      <4>1. r[j] = s[j] /\ j \in 1..Len(r)
        BY <1>1, <1>5, <1>8, <3>1
      <4>2. QED
        BY <4>1 DEF Elems
    <3>2. CASE j >= k
      <4>1. r[j + 1] = s[j] /\ j + 1 \in 1..Len(r)
        <5>1. j + 1 \in 1..(Len(s) + 1) /\ ~(j + 1 < k) /\ j + 1 # k /\ (j + 1) - 1 = j
          BY <1>1, <1>5, <3>2
        <5>2. r[j + 1] = s[(j + 1) - 1]
          BY <1>8, <5>1
        <5>3. QED
          BY <1>8, <5>1, <5>2
      <4>2. QED
        BY <4>1 DEF Elems
    <3>3. QED
      BY <1>1, <1>5, <3>1, <3>2
  <2>4. QED
    BY <2>1, <2>2, <2>3 DEF Elems
<1>11. ASSUME NoDuplicates(s), t \notin Elems(s) PROVE NoDuplicates(r)
  <2> SUFFICES ASSUME NEW i \in 1..Len(r), NEW j \in 1..Len(r), i < j
               PROVE  r[i] # r[j]
    <3>1. \A i, j \in 1..Len(r) : i < j \/ j < i \/ i = j
      BY <1>1, <1>8
    <3>2. QED
      BY <3>1 DEF NoDuplicates
  <2>0. i \in 1..(Len(s) + 1) /\ j \in 1..(Len(s) + 1)
    BY <1>8
  <2>1. \A n \in 1..Len(s) : s[n] # t
    BY <1>11 DEF Elems
  <2>2. \A n, m \in 1..Len(s) : n < m => s[n] # s[m]
    BY <1>1, <1>11 DEF NoDuplicates
  <2>3. CASE j < k
    <3>1. r[i] = s[i] /\ r[j] = s[j] /\ i \in 1..Len(s) /\ j \in 1..Len(s)
      BY <1>1, <1>5, <1>8, <2>0, <2>3
    <3>2. QED
      BY <2>2, <3>1
  <2>4. CASE j = k
    <3>1. r[j] = t /\ r[i] = s[i] /\ i \in 1..Len(s)
      BY <1>1, <1>5, <1>8, <2>0, <2>4
    <3>2. QED
      BY <2>1, <3>1
  <2>5. CASE j > k /\ i = k
    <3>1. r[i] = t /\ r[j] = s[j - 1] /\ j - 1 \in 1..Len(s)
      BY <1>1, <1>5, <1>8, <2>0, <2>5
    <3>2. QED
      BY <2>1, <3>1
  <2>6. CASE j > k /\ i > k
    <3>1. /\ r[i] = s[i - 1] /\ r[j] = s[j - 1]
          /\ i - 1 \in 1..Len(s) /\ j - 1 \in 1..Len(s) /\ i - 1 < j - 1
      BY <1>1, <1>5, <1>8, <2>0, <2>6
    <3>2. QED
      BY <2>2, <3>1
  <2>7. CASE j > k /\ i < k
    <3>1. /\ r[i] = s[i] /\ r[j] = s[j - 1]
          /\ i \in 1..Len(s) /\ j - 1 \in 1..Len(s) /\ i < j - 1
      <4>1. i \in 1..Len(s) /\ j - 1 \in 1..Len(s) /\ i < j - 1 /\ ~(j < k) /\ j # k
        BY <1>1, <1>5, <2>0, <2>7
      <4>2. r[i] = s[i]
        BY <1>8, <2>0, <2>7
      <4>3. r[j] = s[j - 1]
        BY <1>8, <2>0, <4>1
      <4>4. QED
        BY <4>1, <4>2, <4>3
    <3>2. QED
      BY <2>2, <3>1
  <2>8. QED
    BY <1>1, <1>5, <2>0, <2>3, <2>4, <2>5, <2>6, <2>7
<1>12. QED
  BY <1>8, <1>9, <1>10, <1>11, Zenon DEF r

\* Taking a transaction out of a list without duplicates leaves the others, in
\* order: sorted for any heights that differ from h only at that transaction.
LEMMA RemoveTxProperties ==
    ASSUME NEW s \in Seq(Tx), NEW t \in Tx, NoDuplicates(s)
    PROVE  /\ RemoveTx(s, t) \in Seq(Tx)
           /\ Elems(RemoveTx(s, t)) = Elems(s) \ {t}
           /\ NoDuplicates(RemoveTx(s, t))
           /\ \A h, g \in [Tx -> Nat] :
                 SortedOn(h, s) /\ (\A u \in Tx \ {t} : g[u] = h[u])
                    => SortedOn(g, RemoveTx(s, t))
<1> DEFINE r == RemoveTx(s, t)
<1>1. Len(s) \in Nat /\ \A i \in 1..Len(s) : s[i] \in Tx
  BY LenProperties, ElementOfSeq
<1>2. CASE ~\E i \in 1..Len(s) : s[i] = t
  <2>1. r = s /\ t \notin Elems(s)
    BY <1>2 DEF RemoveTx, Elems
  <2>2. \A i \in 1..Len(s) : s[i] \in Tx \ {t}
    BY <1>1, <1>2
  <2> HIDE DEF r
  <2>3. ASSUME NEW h \in [Tx -> Nat], NEW g \in [Tx -> Nat], SortedOn(h, s),
               \A u \in Tx \ {t} : g[u] = h[u]
        PROVE  SortedOn(g, s)
    BY <2>2, <2>3 DEF SortedOn
  <2>4. Elems(s) = Elems(s) \ {t}
    BY <2>1
  <2>5. QED
    BY <2>1, <2>3, <2>4, Zenon DEF r
<1>3. CASE \E i \in 1..Len(s) : s[i] = t
  <2> DEFINE k == CHOOSE i \in 1..Len(s) : s[i] = t
  <2>1. k \in 1..Len(s) /\ s[k] = t
    BY <1>3
  <2>2. r = RemoveAt(s, k)
    BY <1>3, Zenon DEF RemoveTx
  <2> HIDE DEF k, r
  <2>3. /\ RemoveAt(s, k) \in Seq(Tx)
        /\ Len(RemoveAt(s, k)) = Len(s) - 1
        /\ \A j \in 1..(Len(s) - 1) : RemoveAt(s, k)[j] = IF j < k THEN s[j] ELSE s[j + 1]
    BY <2>1, RemoveAtProperties, Zenon
  <2>4. /\ r \in Seq(Tx)
        /\ Len(r) = Len(s) - 1
        /\ \A j \in 1..(Len(s) - 1) : r[j] = IF j < k THEN s[j] ELSE s[j + 1]
    BY <2>2, <2>3, Zenon
  \* every position of r is one of s, other than k, in the same order
  <2> DEFINE at(j) == IF j < k THEN j ELSE j + 1
  <2>5. \A j \in 1..Len(r) : at(j) \in 1..Len(s) /\ at(j) # k /\ r[j] = s[at(j)]
    BY <1>1, <2>1, <2>4
  <2>6. \A i, j \in 1..Len(r) : (i < j => at(i) < at(j)) /\ (at(i) = at(j) => i = j)
    BY <1>1, <2>1, <2>4
  <2>7. ASSUME NEW i \in 1..Len(s), i # k PROVE \E j \in 1..Len(r) : at(j) = i
    <3>1. CASE i < k
      BY <1>1, <2>1, <2>4, <3>1
    <3>2. CASE i > k
      <4>1. i - 1 \in 1..Len(r) /\ at(i - 1) = i
        BY <1>1, <2>1, <2>4, <3>2
      <4>2. QED
        BY <4>1
    <3>3. QED
      BY <1>1, <2>1, <2>7, <3>1, <3>2
  <2> HIDE DEF at
  <2>8. \A i \in 1..Len(s) : s[i] = t <=> i = k
    BY <2>1 DEF NoDuplicates
  <2>9. Elems(r) = Elems(s) \ {t}
    <3>1. ASSUME NEW j \in 1..Len(r) PROVE r[j] \in Elems(s) \ {t}
      BY <2>5, <2>8 DEF Elems
    <3>2. ASSUME NEW i \in 1..Len(s), s[i] # t PROVE s[i] \in Elems(r)
      <4>1. PICK j \in 1..Len(r) : at(j) = i
        BY <2>7, <2>8, <3>2
      <4>2. r[j] = s[i]
        BY <2>5, <4>1
      <4>3. QED
        BY <4>2 DEF Elems
    <3>3. QED
      BY <3>1, <3>2 DEF Elems
  <2>10. NoDuplicates(r)
    <3> SUFFICES ASSUME NEW i \in 1..Len(r), NEW j \in 1..Len(r), r[i] = r[j]
                 PROVE  i = j
      BY DEF NoDuplicates
    <3>1. at(i) = at(j)
      BY <2>5 DEF NoDuplicates
    <3>2. QED
      BY <2>6, <3>1
  <2>11. ASSUME NEW h \in [Tx -> Nat], NEW g \in [Tx -> Nat], SortedOn(h, s),
                \A u \in Tx \ {t} : g[u] = h[u]
         PROVE  SortedOn(g, r)
    <3> SUFFICES ASSUME NEW i \in 1..Len(r), NEW j \in 1..Len(r), i < j
                 PROVE  g[r[i]] <= g[r[j]]
      BY DEF SortedOn
    <3>1. h[s[at(i)]] <= h[s[at(j)]]
      BY <2>5, <2>6, <2>11 DEF SortedOn
    <3>2. s[at(i)] \in Tx \ {t} /\ s[at(j)] \in Tx \ {t}
      BY <1>1, <2>5, <2>8
    <3>3. QED
      BY <2>5, <2>11, <3>1, <3>2
  <2>12. QED
    BY <2>4, <2>9, <2>10, <2>11, Zenon DEF r
<1>4. QED
  BY <1>2, <1>3
-----------------------------------------------------------------------------
(* The inductive invariant. *)

\* no height exceeds TX_UNCONFIRMED, and only registered transactions have one
HeightsBounded ==
    /\ \A t \in Tx : height[t] <= TX_UNCONFIRMED
    /\ \A t \in Tx \ allTx : height[t] = TX_UNCONFIRMED
    /\ upd.height <= TX_UNCONFIRMED
    /\ upd.height <= blockHeight

\* the loops' locals are set only by the thread in the lock, one loop at a time
OneLoop ==
    /\ lock = Free => upd = NoUpdate /\ bal.i = 0
    /\ bal.i # 0 => upd = NoUpdate

ListInv ==
    /\ ListTypeOK
    /\ SortedByHeight
    /\ ListedAreRegistered
    /\ ConfirmedBelowTip
    /\ ListedAreOurs
    /\ HeightsBounded
    /\ OneLoop

\* The invariants in terms of the operators the lemmas above are about.
LEMMA ListedAsSequence ==
    /\ Listed = Elems(transactions)
    /\ SortedByHeight <=> SortedOn(height, transactions)
    /\ ListedAreRegistered <=> Listed \subseteq allTx /\ NoDuplicates(transactions)
BY DEF Listed, Elems, SortedByHeight, SortedOn, ListedAreRegistered, NoDuplicates

\* The same facts in the next state.
LEMMA ListedAsSequenceNext ==
    /\ Listed' = Elems(transactions')
    /\ SortedByHeight' <=> SortedOn(height', transactions')
    /\ ListedAreRegistered' <=> Listed' \subseteq allTx' /\ NoDuplicates(transactions')
BY DEF Listed, Elems, SortedByHeight, SortedOn, ListedAreRegistered, NoDuplicates

\* A step that leaves the list, the heights and the chains alone keeps what is
\* said of them.
LEMMA ListUnchanged ==
    ASSUME ListInv, UNCHANGED <<listVars, chain>>
    PROVE  SortedByHeight' /\ ListedAreRegistered' /\ ConfirmedBelowTip' /\ ListedAreOurs'
<1>1. SortedByHeight' /\ ListedAreRegistered' /\ ConfirmedBelowTip'
  BY DEF ListInv, listVars, SortedByHeight, ListedAreRegistered, ConfirmedBelowTip, Listed
<1>2. \A t \in Tx : ContainsTx(t)' <=> ContainsTx(t)
  BY DEF listVars, ContainsTx, OwnOutputs
<1>3. Listed' = Listed /\ Listed \subseteq Tx
  BY DEF ListInv, ListTypeOK, listVars, Listed, ListedAreRegistered
<1>4. ListedAreOurs'
  BY <1>2, <1>3 DEF ListInv, ListedAreOurs
<1>5. QED
  BY <1>1, <1>4

\* A step that also leaves the clock, the lock and the loops alone keeps ListInv.
LEMMA ListInvUnchanged ==
    ASSUME ListInv, UNCHANGED <<listVars, chain, now, lock, upd, bal>>
    PROVE  ListInv'
<1>1. ListTypeOK' /\ HeightsBounded' /\ OneLoop'
  BY DEF ListInv, ListTypeOK, HeightsBounded, OneLoop, listVars
<1>2. QED
  BY <1>1, ListUnchanged DEF ListInv

\* Generating addresses never shortens a chain.
LEMMA ChainLengthGrows ==
    ASSUME NEW c \in Chain, NEW gap \in Nat, chain \in [Chain -> Nat]
    PROVE  ChainLength(c, gap) \in Nat /\ chain[c] <= ChainLength(c, gap)
<1> DEFINE S == {n \in chain[c]..(chain[c] + gap) :
                   /\ gap <= n
                   /\ \A i \in 0..(chain[c] - 1) : <<c, i>> \in cache.usedPKH => i + 1 + gap <= n}
<1>1. chain[c] \in Nat
  OBVIOUS
<1>2. chain[c] + gap \in S
  BY <1>1
<1>3. S \in SUBSET Nat /\ \A n \in S : chain[c] <= n
  BY <1>1
<1>4. ChainLength(c, gap) = Min(S)
  BY DEF ChainLength
<1> HIDE DEF S
<1>5. Min(S) \in S
  BY <1>2, <1>3, MinProperties
<1>6. QED
  BY <1>3, <1>4, <1>5

\* A transaction of the wallet stays one when chains grow and when only
\* transactions that are not the wallet's leave allTx.
LEMMA ContainsTxKept ==
    ASSUME chain \in [Chain -> Nat], chain' \in [Chain -> Nat],
           \A c \in Chain : chain[c] <= chain'[c],
           allTx \subseteq Tx, \A u \in allTx \ allTx' : ~ContainsTx(u),
           NEW t \in Tx, ContainsTx(t)
    PROVE  ContainsTx(t)'
<1>1. ASSUME NEW u \in Tx PROVE OwnOutputs(u) \subseteq OwnOutputs(u)'
  <2> SUFFICES ASSUME NEW n \in OwnOutputs(u) PROVE n \in OwnOutputs(u)'
    OBVIOUS
  <2> DEFINE k == Outputs[u][n].pkh
  <2>1. n \in 1..Len(Outputs[u]) /\ k # Foreign /\ k[2] < chain[k[1]]
    BY DEF OwnOutputs
  <2>2. k \in Chain \X Nat
    <3>1. Outputs[u] \in Seq([pkh : (Chain \X Nat) \cup {Foreign}, amount : Nat])
      BY ConstantAssumption
    <3>2. Outputs[u][n] \in [pkh : (Chain \X Nat) \cup {Foreign}, amount : Nat]
      BY <2>1, <3>1, ElementOfSeq
    <3>3. QED
      BY <2>1, <3>2
  <2> HIDE DEF k
  <2>3. k[2] < chain'[k[1]]
    BY <2>1, <2>2
  <2>4. QED
    BY <2>1, <2>3 DEF OwnOutputs, k
<1>2. CASE OwnOutputs(t) # {}
  BY <1>1, <1>2 DEF ContainsTx
<1>3. CASE OwnOutputs(t) = {}
  <2>1. PICK o \in Inputs[t] : o[1] \in allTx /\ o[2] \in OwnOutputs(o[1])
    BY <1>3 DEF ContainsTx
  <2>2. ContainsTx(o[1])
    BY <2>1 DEF ContainsTx
  <2>3. o[1] \in allTx' /\ o[1] \in Tx
    BY <2>1, <2>2
  <2>4. o[2] \in OwnOutputs(o[1])'
    BY <1>1, <2>1, <2>3
  <2>5. QED
    BY <2>3, <2>4 DEF ContainsTx
<1>4. QED
  BY <1>2, <1>3

-----------------------------------------------------------------------------
(* Each action preserves ListInv. *)

\* BRWalletNew establishes it.
LEMMA InitListInv == Init => ListInv
<1> SUFFICES ASSUME Init PROVE ListInv
  OBVIOUS
<1>1. ListTypeOK
  BY ConstantAssumption DEF Init, ListTypeOK, NoUpdate
<1>2. Listed = {} /\ Len(transactions) = 0
  BY DEF Init, Listed
<1>3. SortedByHeight /\ ListedAreRegistered /\ ConfirmedBelowTip /\ ListedAreOurs
  BY <1>2 DEF SortedByHeight, ListedAreRegistered, ConfirmedBelowTip, ListedAreOurs
<1>4. HeightsBounded /\ OneLoop
  BY ConstantAssumption DEF Init, HeightsBounded, OneLoop, NoUpdate, NoBalance
<1>5. QED
  BY <1>1, <1>3, <1>4 DEF ListInv

\* _BRWalletUpdateBalance leaves the list alone.
LEMMA BalanceKeepsListInv == ListInv /\ (BalanceStep \/ BalanceDone) => ListInv'
<1> SUFFICES ASSUME ListInv, BalanceStep \/ BalanceDone PROVE ListInv'
  OBVIOUS
<1>1. UNCHANGED <<listVars, chain, now, upd>>
  BY DEF BalanceStep, BalanceDone
<1>2. transactions \in Seq(Tx) /\ Len(transactions) \in Nat
  BY LenProperties DEF ListInv, ListTypeOK
<1>3. bal.i # 0 /\ upd = NoUpdate
  BY <1>2 DEF BalanceStep, BalanceDone, ListInv, OneLoop
<1>4. lock' = lock \/ (lock' = Free /\ bal'.i = 0)
  BY DEF BalanceStep, BalanceDone, NoBalance
<1>5. ListTypeOK' /\ HeightsBounded'
  BY <1>1, <1>4 DEF ListInv, ListTypeOK, HeightsBounded, listVars
<1>6. OneLoop'
  BY <1>1, <1>3, <1>4 DEF ListInv, OneLoop
<1>7. QED
  BY <1>1, <1>5, <1>6, ListUnchanged DEF ListInv

\* Starting BRWalletUpdateTransactions only raises wallet->blockHeight.
LEMMA UpdateTransactionsKeepsListInv ==
    ASSUME ListInv, NEW th \in Thread, NEW hashes \in Seq(Tx), NEW h \in Nat, NEW ts \in Nat,
           h <= TX_UNCONFIRMED, UpdateTransactions(th, hashes, h, ts)
    PROVE  ListInv'
<1>1. /\ UNCHANGED <<transactions, allTx, height, timestamp, chain, now, bal>>
      /\ lock' = th
      /\ blockHeight' \in Nat /\ blockHeight <= blockHeight' /\ h <= blockHeight'
      /\ bal.i = 0
  BY DEF UpdateTransactions, Idle, ListInv, ListTypeOK, OneLoop
<1>2. /\ upd' \in [todo : Seq(Tx), height : Nat, timestamp : Nat, done : SUBSET Tx,
                  needsUpdate : BOOLEAN]
      /\ upd'.height = h
  BY DEF UpdateTransactions, NoUpdate
<1>3. ListTypeOK' /\ HeightsBounded' /\ OneLoop'
  BY <1>1, <1>2, ConstantAssumption DEF ListInv, ListTypeOK, HeightsBounded, OneLoop
<1>4. SortedByHeight' /\ ListedAreRegistered'
  BY <1>1 DEF ListInv, SortedByHeight, ListedAreRegistered, Listed
<1>5. ConfirmedBelowTip'
  <2>1. Listed' = Listed /\ \A t \in Listed : height[t] \in Nat
    BY <1>1 DEF ListInv, ListTypeOK, Listed, ListedAreRegistered
  <2>2. QED
    BY <1>1, <2>1 DEF ListInv, ListTypeOK, ConfirmedBelowTip
<1>6. ListedAreOurs'
  <2>1. \A t \in Listed : ContainsTx(t)' <=> ContainsTx(t)
    BY <1>1 DEF ContainsTx, OwnOutputs
  <2>2. QED
    BY <1>1, <2>1 DEF ListInv, ListedAreOurs, Listed
<1>7. QED
  BY <1>3, <1>4, <1>5, <1>6 DEF ListInv

\* What one iteration of BRWalletUpdateTransactions does to the list: the height
\* changes at that transaction only, which is re-inserted when it is listed.
LEMMA UpdateSetEffect ==
    ASSUME ListInv, NEW t \in Tx, upd.todo # <<>>, UpdateSet(t)
    PROVE  /\ upd' \in [todo : Seq(Tx), height : Nat, timestamp : Nat, done : SUBSET Tx,
                        needsUpdate : BOOLEAN]
           /\ upd'.height = upd.height /\ upd'.todo = Tail(upd.todo)
           /\ height' \in [Tx -> Nat] /\ timestamp' \in [Tx -> Nat]
           /\ \A u \in Tx \ {t} : height'[u] = height[u]
           /\ height'[t] = upd.height \/ height'[t] = TX_UNCONFIRMED
           /\ allTx' = allTx \/ (allTx' = allTx \ {t} /\ ~ContainsTx(t))
           /\ t \notin allTx' => height'[t] = TX_UNCONFIRMED
           /\ t \in Listed => t \in allTx' /\ ContainsTx(t)
           /\ transactions' \in Seq(Tx) /\ NoDuplicates(transactions')
           /\ SortedOn(height', transactions')
           /\ Listed' = Listed
<1> USE DEF ListInv
<1>0. /\ transactions \in Seq(Tx) /\ allTx \subseteq Tx /\ Listed \subseteq allTx
      /\ height \in [Tx -> Nat] /\ timestamp \in [Tx -> Nat]
      /\ SortedOn(height, transactions) /\ NoDuplicates(transactions)
      /\ Listed = Elems(transactions)
      /\ upd.height \in Nat /\ upd.timestamp \in Nat
      /\ t \in allTx
  BY ListedAsSequence DEF ListTypeOK, UpdateSet
<1>1. /\ upd' \in [todo : Seq(Tx), height : Nat, timestamp : Nat, done : SUBSET Tx,
                  needsUpdate : BOOLEAN]
      /\ upd'.height = upd.height /\ upd'.todo = Tail(upd.todo)
  <2>1. Tail(upd.todo) \in Seq(Tx)
    BY HeadTailProperties DEF ListTypeOK
  <2> DEFINE needs == upd.needsUpdate \/ t \in cache.pendingTx \cup cache.invalidTx
             done == upd.done \cup {t}
  <2>2. upd \in [todo : Seq(Tx), height : Nat, timestamp : Nat, done : SUBSET Tx,
                 needsUpdate : BOOLEAN]
    BY DEF ListTypeOK
  <2>3. needs \in BOOLEAN /\ done \in SUBSET Tx
    BY <2>2
  <2>4. CASE ContainsTx(t)
    <3>1. upd' = [upd EXCEPT !.todo = Tail(@), !.done = done, !.needsUpdate = needs]
      BY <2>4 DEF UpdateSet
    <3> HIDE DEF needs, done
    <3>2. QED
      BY <2>1, <2>2, <2>3, <3>1
  <2>5. CASE ~ContainsTx(t)
    <3>1. upd' = [upd EXCEPT !.todo = Tail(@)]
      BY <2>5 DEF UpdateSet
    <3>2. QED
      BY <2>1, <2>2, <3>1
  <2>6. QED
    BY <2>4, <2>5
<1>2. /\ height' \in [Tx -> Nat] /\ timestamp' \in [Tx -> Nat]
      /\ \A u \in Tx \ {t} : height'[u] = height[u]
      /\ height'[t] = upd.height \/ height'[t] = TX_UNCONFIRMED
  <2>1. PICK h \in {upd.height, TX_UNCONFIRMED} : height' = [height EXCEPT ![t] = h]
    <3>1. \/ height' = [height EXCEPT ![t] = upd.height]
          \/ height' = [height EXCEPT ![t] = TX_UNCONFIRMED]
      BY DEF UpdateSet
    <3>2. QED
      BY <3>1
  <2>2. PICK ts \in {upd.timestamp, 0} : timestamp' = [timestamp EXCEPT ![t] = ts]
    <3>1. \/ timestamp' = [timestamp EXCEPT ![t] = upd.timestamp]
          \/ timestamp' = [timestamp EXCEPT ![t] = 0]
      BY DEF UpdateSet
    <3>2. QED
      BY <3>1
  <2>3. h \in Nat /\ ts \in Nat
    BY <1>0, ConstantAssumption
  <2>4. QED
    BY <1>0, <2>1, <2>2, <2>3
<1>3. /\ allTx' = allTx \/ (allTx' = allTx \ {t} /\ ~ContainsTx(t))
      /\ t \notin allTx' => height'[t] = TX_UNCONFIRMED
  BY <1>0 DEF UpdateSet
<1>4. t \in Listed => t \in allTx' /\ ContainsTx(t)
  BY <1>0, <1>3 DEF ListedAreOurs
<1>5. /\ transactions' \in Seq(Tx)
      /\ Elems(transactions') = Elems(transactions)
      /\ NoDuplicates(transactions')
      /\ SortedOn(height', transactions')
  <2>1. CASE t \in Listed
    <3> DEFINE rest == RemoveTx(transactions, t)
    <3>1. transactions' = InsertTx(height', allTx, rest, t)
      BY <1>4, <2>1 DEF UpdateSet
    <3>2. /\ rest \in Seq(Tx) /\ Elems(rest) = Elems(transactions) \ {t}
          /\ NoDuplicates(rest)
          /\ \A h, g \in [Tx -> Nat] :
                SortedOn(h, transactions) /\ (\A u \in Tx \ {t} : g[u] = h[u])
                   => SortedOn(g, rest)
      BY <1>0, RemoveTxProperties, Zenon
    <3> HIDE DEF rest
    <3>3. SortedOn(height', rest)
      BY <1>0, <1>2, <3>2, Zenon
    <3>4. t \notin Elems(rest) /\ Elems(rest) \cup {t} = Elems(transactions)
      BY <1>0, <2>1, <3>2
    <3>5. \A h \in [Tx -> Nat] : \A s \in Seq(Tx) : SortedOn(h, s) =>
             /\ InsertTx(h, allTx, s, t) \in Seq(Tx)
             /\ SortedOn(h, InsertTx(h, allTx, s, t))
             /\ Elems(InsertTx(h, allTx, s, t)) = Elems(s) \cup {t}
             /\ NoDuplicates(s) /\ t \notin Elems(s) => NoDuplicates(InsertTx(h, allTx, s, t))
      BY InsertTxProperties, Zenon
    <3>6. QED
      BY <1>2, <3>1, <3>2, <3>3, <3>4, <3>5, Zenon
  <2>2. CASE t \notin Listed
    <3>1. transactions' = transactions
      BY <2>2 DEF UpdateSet
    <3>2. \A i \in 1..Len(transactions) : transactions[i] \in Tx \ {t}
      BY <1>0, <2>2 DEF Listed
    <3>3. SortedOn(height', transactions)
      BY <1>0, <1>2, <3>2 DEF SortedOn
    <3>4. QED
      BY <1>0, <3>1, <3>3
  <2>3. QED
    BY <2>1, <2>2
<1>6. Listed' = Listed
  BY <1>0, <1>5, ListedAsSequenceNext
<1>7. QED
  BY <1>1, <1>2, <1>3, <1>4, <1>5, <1>6

\* A step that takes one hash off the loop's list, sets the height and the
\* timestamp of that transaction, re-inserts it when it is listed, and frees it
\* only when it is not the wallet's.
LEMMA UpdateSetKeepsListInv ==
    ASSUME ListInv, NEW t \in Tx, UpdateLooping, upd.todo # <<>>, UpdateSet(t),
           UNCHANGED <<blockHeight, chain, now, cache, balance, lock, bal, calls, appVars>>
    PROVE  ListInv'
<1> USE DEF ListInv
<1>0. /\ transactions \in Seq(Tx) /\ allTx \subseteq Tx /\ Listed \subseteq allTx
      /\ height \in [Tx -> Nat] /\ timestamp \in [Tx -> Nat]
      /\ upd.height \in Nat /\ upd.timestamp \in Nat
      /\ t \in allTx
  BY ListedAsSequence DEF ListTypeOK, UpdateSet
<1>1. /\ upd' \in [todo : Seq(Tx), height : Nat, timestamp : Nat, done : SUBSET Tx,
                  needsUpdate : BOOLEAN]
      /\ upd'.height = upd.height
  BY UpdateSetEffect
<1>2. /\ height' \in [Tx -> Nat] /\ timestamp' \in [Tx -> Nat]
      /\ \A u \in Tx \ {t} : height'[u] = height[u]
      /\ height'[t] = upd.height \/ height'[t] = TX_UNCONFIRMED
  BY UpdateSetEffect
<1>3. /\ allTx' = allTx \/ (allTx' = allTx \ {t} /\ ~ContainsTx(t))
      /\ t \notin allTx' => height'[t] = TX_UNCONFIRMED
      /\ t \in Listed => t \in allTx' /\ ContainsTx(t)
  BY UpdateSetEffect
<1>5. /\ transactions' \in Seq(Tx) /\ NoDuplicates(transactions')
      /\ SortedOn(height', transactions')
  BY UpdateSetEffect
<1>6. Listed' = Listed
  BY UpdateSetEffect
<1>7. ListTypeOK'
  BY <1>0, <1>1, <1>2, <1>3, <1>5 DEF ListTypeOK
<1>8. SortedByHeight' /\ ListedAreRegistered'
  BY <1>0, <1>3, <1>5, <1>6, ListedAsSequenceNext
<1>9. ConfirmedBelowTip'
  BY <1>0, <1>2, <1>6 DEF ConfirmedBelowTip, HeightsBounded
<1>10. ListedAreOurs'
  <2>1. chain \in [Chain -> Nat] /\ chain' = chain /\ \A c \in Chain : chain[c] <= chain'[c]
    BY DEF ListTypeOK
  <2>2. \A u \in allTx \ allTx' : ~ContainsTx(u)
    BY <1>3
  <2>3. \A u \in Listed : u \in Tx /\ ContainsTx(u)
    BY <1>0 DEF ListedAreOurs
  <2>4. \A u \in Listed : ContainsTx(u)'
    BY <1>0, <2>1, <2>2, <2>3, ContainsTxKept
  <2>5. QED
    BY <1>6, <2>4 DEF ListedAreOurs
<1>11. HeightsBounded'
  <2>1. TX_UNCONFIRMED \in Nat
    BY ConstantAssumption
  <2>2. \A u \in Tx : height'[u] <= TX_UNCONFIRMED
    <3>1. height'[t] <= TX_UNCONFIRMED
      BY <1>2, <2>1 DEF HeightsBounded
    <3>2. \A u \in Tx \ {t} : height'[u] <= TX_UNCONFIRMED
      BY <1>2 DEF HeightsBounded
    <3>3. QED
      BY <3>1, <3>2
  <2>3. \A u \in Tx \ allTx' : height'[u] = TX_UNCONFIRMED
    BY <1>2, <1>3 DEF HeightsBounded
  <2>4. QED
    BY <1>1, <2>2, <2>3 DEF HeightsBounded
<1>12. OneLoop'
  BY DEF OneLoop, UpdateLooping
<1>13. QED
  BY <1>7, <1>8, <1>9, <1>10, <1>11, <1>12

\* One iteration of the BRWalletUpdateTransactions loop.
LEMMA UpdateStepKeepsListInv == ListInv /\ UpdateStep => ListInv'
<1> SUFFICES ASSUME ListInv, UpdateStep PROVE ListInv'
  OBVIOUS
<1> DEFINE t == Head(upd.todo)
<1>1. upd.todo \in Seq(Tx) /\ upd.todo # <<>>
  BY DEF ListInv, ListTypeOK, UpdateStep
<1>2. t \in Tx /\ Tail(upd.todo) \in Seq(Tx)
  BY <1>1, HeadTailProperties
<1>3. UNCHANGED <<blockHeight, chain, now, cache, balance, lock, bal, calls, appVars>>
  BY DEF UpdateStep
<1>4. CASE UpdateSet(t)
  BY <1>1, <1>2, <1>3, <1>4, UpdateSetKeepsListInv DEF UpdateStep
<1>5. CASE UpdateSkip(t)
  <2>1. UNCHANGED <<listVars, chain, now, lock, bal>>
    BY <1>3, <1>5 DEF UpdateSkip, listVars
  <2>2. upd' = [upd EXCEPT !.todo = Tail(upd.todo)]
    BY <1>5 DEF UpdateSkip
  <2>3. ListTypeOK' /\ HeightsBounded'
    BY <1>2, <2>1, <2>2 DEF ListInv, ListTypeOK, HeightsBounded, listVars
  <2>4. OneLoop'
    BY <2>1 DEF ListInv, OneLoop, UpdateStep, UpdateLooping
  <2>5. QED
    BY <2>1, <2>3, <2>4, ListUnchanged DEF ListInv
<1>6. QED
  BY <1>4, <1>5 DEF UpdateStep

\* The end of the loop, with or without _BRWalletUpdateBalance.
LEMMA UpdateDoneKeepsListInv == ListInv /\ UpdateDone => ListInv'
<1> SUFFICES ASSUME ListInv, UpdateDone PROVE ListInv'
  OBVIOUS
<1>1. UNCHANGED <<listVars, chain, now>> /\ upd' = NoUpdate
  BY DEF UpdateDone
<1>2. lock' \in Thread \cup {Free} /\ (lock' = Free => bal'.i = 0)
  BY DEF UpdateDone, UpdateLooping, BeginBalance, ListInv, ListTypeOK
<1>3. ListTypeOK' /\ HeightsBounded' /\ OneLoop'
  BY <1>1, <1>2, ConstantAssumption
     DEF ListInv, ListTypeOK, HeightsBounded, OneLoop, NoUpdate, listVars
<1>4. QED
  BY <1>1, <1>3, ListUnchanged DEF ListInv

\* A call with no loop of its own enters _BRWalletUpdateBalance or leaves the lock
\* free.
LEMMA BalanceOrFree ==
    ASSUME ListInv, lock = Free, UNCHANGED upd, NEW th \in Thread,
           BeginBalance(th) \/ UNCHANGED <<lock, cache, bal>>
    PROVE  lock' \in Thread \cup {Free} /\ OneLoop'
BY ConstantAssumption DEF ListInv, ListTypeOK, OneLoop, BeginBalance, NoBalance

\* BRWalletSetTxUnconfirmedAfter: everything above h becomes unconfirmed, because
\* the list is sorted and the scan stops only at the first height at or below h.
LEMMA SetTxUnconfirmedAfterKeepsListInv ==
    ASSUME ListInv, NEW th \in Thread, NEW h \in Nat, SetTxUnconfirmedAfter(th, h)
    PROVE  ListInv'
<1> USE DEF ListInv
<1> DEFINE txs == {transactions[i] : i \in TailAfter(h)}
<1>1. /\ UNCHANGED <<transactions, allTx, timestamp, chain, now, upd>>
      /\ blockHeight' = h
      /\ height' = [t \in Tx |-> IF t \in txs THEN TX_UNCONFIRMED ELSE height[t]]
      /\ lock = Free
      /\ BeginBalance(th) \/ UNCHANGED <<lock, cache, bal>>
  BY DEF SetTxUnconfirmedAfter, Idle
<1>2. /\ transactions \in Seq(Tx) /\ Len(transactions) \in Nat
      /\ \A i \in 1..Len(transactions) : transactions[i] \in Tx
      /\ allTx \subseteq Tx /\ height \in [Tx -> Nat] /\ TX_UNCONFIRMED \in Nat
  BY LenProperties, ElementOfSeq, ConstantAssumption DEF ListTypeOK
<1> HIDE DEF txs
<1>3. \A t \in Tx : height'[t] = IF t \in txs THEN TX_UNCONFIRMED ELSE height[t]
  BY <1>1
<1>4. height' \in [Tx -> Nat] /\ \A t \in Tx : height[t] <= height'[t] /\ height'[t] <= TX_UNCONFIRMED
  BY <1>1, <1>2 DEF HeightsBounded
<1>5. lock' \in Thread \cup {Free} /\ OneLoop'
  BY <1>1, BalanceOrFree
<1>6. ListTypeOK'
  BY <1>1, <1>4, <1>5 DEF ListTypeOK
<1>7. HeightsBounded'
  <2>1. upd' = upd /\ upd.height = 0
    BY <1>1 DEF OneLoop, NoUpdate
  <2>2. \A t \in Tx \ allTx' : height'[t] = TX_UNCONFIRMED
    BY <1>1, <1>3 DEF HeightsBounded
  <2>3. QED
    BY <1>1, <1>2, <1>4, <2>1, <2>2 DEF HeightsBounded
<1>8. \A i, j \in 1..Len(transactions) : i < j /\ i \in TailAfter(h) => j \in TailAfter(h)
  BY <1>2 DEF TailAfter
<1>9. SortedByHeight'
  <2> SUFFICES ASSUME NEW i \in 1..Len(transactions), NEW j \in 1..Len(transactions), i < j
               PROVE  height'[transactions[i]] <= height'[transactions[j]]
    BY <1>1 DEF SortedByHeight
  <2>1. CASE transactions[j] \in txs
    BY <1>2, <1>3, <1>4, <2>1
  <2>2. CASE transactions[j] \notin txs
    <3>1. j \notin TailAfter(h)
      BY <2>2 DEF txs
    <3>2. i \notin TailAfter(h)
      BY <1>8, <3>1
    <3>3. transactions[i] \notin txs
      <4>1. \A n \in TailAfter(h) : n \in 1..Len(transactions)
        BY DEF TailAfter
      <4>2. QED
        BY <3>2, <4>1 DEF txs, ListedAreRegistered
    <3>4. QED
      BY <1>2, <1>3, <2>2, <3>3 DEF SortedByHeight
  <2>3. QED
    BY <2>1, <2>2
<1>10. ListedAreRegistered'
  BY <1>1 DEF ListedAreRegistered, Listed
<1>11. ConfirmedBelowTip'
  <2> SUFFICES ASSUME NEW i \in 1..Len(transactions), height'[transactions[i]] # TX_UNCONFIRMED
               PROVE  height'[transactions[i]] <= h
    BY <1>1 DEF ConfirmedBelowTip, Listed
  <2>1. transactions[i] \notin txs /\ height'[transactions[i]] = height[transactions[i]]
    BY <1>2, <1>3
  <2>2. i \notin TailAfter(h)
    BY <2>1 DEF txs
  <2>3. PICK j \in i..Len(transactions) : ~(height[transactions[j]] > h)
    BY <2>2 DEF TailAfter
  <2>4. j \in 1..Len(transactions) /\ (i < j \/ i = j)
    BY <1>2
  <2>5. height[transactions[i]] <= height[transactions[j]]
    BY <1>2, <2>4 DEF SortedByHeight
  <2>6. height[transactions[i]] \in Nat /\ height[transactions[j]] \in Nat
    BY <1>2, <2>4
  <2>7. QED
    BY <2>1, <2>3, <2>5, <2>6
<1>12. ListedAreOurs'
  <2>1. \A t \in Listed : ContainsTx(t)' <=> ContainsTx(t)
    BY <1>1 DEF ContainsTx, OwnOutputs
  <2>2. QED
    BY <1>1, <2>1 DEF ListedAreOurs, Listed
<1>13. QED
  BY <1>5, <1>6, <1>7, <1>9, <1>10, <1>11, <1>12

\* BRWalletRegisterTransaction lists an unconfirmed transaction of the wallet.
LEMMA RegisterTransactionKeepsListInv ==
    ASSUME ListInv, NEW th \in Thread, NEW t \in Tx, RegisterTransaction(th, t)
    PROVE  ListInv'
<1> USE DEF ListInv
<1>1. /\ UNCHANGED <<height, timestamp, blockHeight, chain, now, upd>>
      /\ lock = Free
      /\ BeginBalance(th) \/ UNCHANGED <<lock, cache, bal>>
  BY DEF RegisterTransaction, Idle
<1>2. /\ transactions \in Seq(Tx) /\ allTx \subseteq Tx /\ height \in [Tx -> Nat]
      /\ SortedOn(height, transactions) /\ NoDuplicates(transactions)
      /\ Listed = Elems(transactions) /\ Listed \subseteq allTx
  BY ListedAsSequence DEF ListTypeOK
<1>3. allTx \subseteq allTx' /\ allTx' \subseteq allTx \cup {t}
  BY DEF RegisterTransaction
<1>4. \/ transactions' = transactions
      \/ /\ transactions' = InsertTx(height, allTx', transactions, t)
         /\ t \in allTx' \ allTx /\ ContainsTx(t)
  BY DEF RegisterTransaction
<1>5. /\ transactions' \in Seq(Tx)
      /\ SortedOn(height, transactions') /\ NoDuplicates(transactions')
      /\ \/ Elems(transactions') = Elems(transactions)
         \/ /\ Elems(transactions') = Elems(transactions) \cup {t}
            /\ t \in allTx' \ allTx /\ ContainsTx(t)
  <2>1. CASE transactions' = transactions
    BY <1>2, <2>1
  <2>2. CASE /\ transactions' = InsertTx(height, allTx', transactions, t)
             /\ t \in allTx' \ allTx /\ ContainsTx(t)
    <3>1. \A h \in [Tx -> Nat] : \A s \in Seq(Tx) : \A all : SortedOn(h, s) =>
             /\ InsertTx(h, all, s, t) \in Seq(Tx)
             /\ SortedOn(h, InsertTx(h, all, s, t))
             /\ Elems(InsertTx(h, all, s, t)) = Elems(s) \cup {t}
             /\ NoDuplicates(s) /\ t \notin Elems(s) => NoDuplicates(InsertTx(h, all, s, t))
      BY InsertTxProperties, Zenon
    <3>2. t \notin Elems(transactions)
      BY <1>2, <2>2
    <3>3. QED
      BY <1>2, <2>2, <3>1, <3>2, Zenon
  <2>3. QED
    BY <1>4, <2>1, <2>2
<1>6. Listed' \subseteq Listed \cup {t} /\ (t \in Listed' \ Listed => t \in allTx' \ allTx /\ ContainsTx(t))
  BY <1>2, <1>5, ListedAsSequenceNext
<1>7. lock' \in Thread \cup {Free} /\ OneLoop'
  BY <1>1, BalanceOrFree
<1>8. ListTypeOK' /\ HeightsBounded'
  BY <1>1, <1>2, <1>3, <1>5, <1>7 DEF ListTypeOK, HeightsBounded
<1>9. SortedByHeight' /\ ListedAreRegistered'
  BY <1>1, <1>2, <1>3, <1>5, <1>6, ListedAsSequenceNext
<1>10. ConfirmedBelowTip'
  BY <1>1, <1>6 DEF ConfirmedBelowTip, HeightsBounded
<1>11. ListedAreOurs'
  <2>1. chain \in [Chain -> Nat] /\ chain' = chain /\ \A c \in Chain : chain[c] <= chain'[c]
    BY <1>1 DEF ListTypeOK
  <2>2. \A u \in allTx \ allTx' : ~ContainsTx(u)
    BY <1>3
  <2>3. \A u \in Listed' : u \in Tx /\ ContainsTx(u)
    BY <1>2, <1>6 DEF ListedAreOurs
  <2>4. \A u \in Listed' : ContainsTx(u)'
    BY <1>2, <2>1, <2>2, <2>3, ContainsTxKept
  <2>5. QED
    BY <2>4 DEF ListedAreOurs
<1>12. QED
  BY <1>7, <1>8, <1>9, <1>10, <1>11

\* The last step of BRWalletRemoveTransaction, on a list it leaves in order.
LEMMA RemoveListedKeepsListInv ==
    ASSUME ListInv, NEW th \in Thread, RemoveListed(th)
    PROVE  ListInv'
<1> USE DEF ListInv
<1>1. PICK t \in allTx : transactions' = RemoveTx(transactions, t)
  BY DEF RemoveListed
<1>2. /\ UNCHANGED <<allTx, height, timestamp, blockHeight, chain, now, upd>>
      /\ lock = Free /\ BeginBalance(th)
  BY DEF RemoveListed
<1>3. /\ transactions \in Seq(Tx) /\ allTx \subseteq Tx /\ height \in [Tx -> Nat]
      /\ SortedOn(height, transactions) /\ NoDuplicates(transactions)
      /\ Listed = Elems(transactions) /\ Listed \subseteq allTx
  BY ListedAsSequence DEF ListTypeOK
<1>4. \A s \in Seq(Tx) : \A u \in Tx : NoDuplicates(s) =>
         /\ RemoveTx(s, u) \in Seq(Tx)
         /\ Elems(RemoveTx(s, u)) = Elems(s) \ {u}
         /\ NoDuplicates(RemoveTx(s, u))
         /\ \A h, g \in [Tx -> Nat] :
               SortedOn(h, s) /\ (\A v \in Tx \ {u} : g[v] = h[v])
                  => SortedOn(g, RemoveTx(s, u))
  BY RemoveTxProperties, Zenon
<1>5. /\ transactions' \in Seq(Tx) /\ NoDuplicates(transactions')
      /\ Elems(transactions') = Elems(transactions) \ {t}
      /\ SortedOn(height, transactions')
  <2>1. t \in Tx
    BY <1>3
  <2>2. QED
    BY <1>1, <1>3, <1>4, <2>1, Zenon
<1>6. Listed' \subseteq Listed
  BY <1>3, <1>5, ListedAsSequenceNext
<1>7. lock' \in Thread \cup {Free} /\ OneLoop'
  BY <1>2, BalanceOrFree
<1>8. ListTypeOK' /\ HeightsBounded'
  BY <1>2, <1>5, <1>7 DEF ListTypeOK, HeightsBounded
<1>9. SortedByHeight' /\ ListedAreRegistered'
  BY <1>2, <1>3, <1>5, <1>6, ListedAsSequenceNext
<1>10. ConfirmedBelowTip'
  BY <1>2, <1>6 DEF ConfirmedBelowTip
<1>11. ListedAreOurs'
  <2>1. \A u \in Listed : ContainsTx(u)' <=> ContainsTx(u)
    BY <1>2 DEF ContainsTx, OwnOutputs
  <2>2. QED
    BY <1>6, <2>1 DEF ListedAreOurs
<1>12. QED
  BY <1>7, <1>8, <1>9, <1>10, <1>11

\* BRWalletUnusedAddrs never shortens a chain of addresses.
LEMMA UnusedAddrsGrows ==
    ASSUME chain \in [Chain -> Nat], NEW c, NEW gap, c \in Chain => gap \in Nat,
           UnusedAddrs(c, gap)
    PROVE  chain' \in [Chain -> Nat] /\ \A d \in Chain : chain[d] <= chain'[d]
<1>1. CASE c \in Chain
  <2>1. ChainLength(c, gap) \in Nat /\ chain[c] <= ChainLength(c, gap)
    BY <1>1, ChainLengthGrows
  <2>2. chain' = [chain EXCEPT ![c] = ChainLength(c, gap)]
    BY DEF UnusedAddrs
  <2>3. QED
    BY <1>1, <2>1, <2>2
<1>2. CASE c \notin Chain
  <2> DEFINE n == ChainLength(c, gap)
  <2>1. chain' = [chain EXCEPT ![c] = n]
    BY DEF UnusedAddrs
  <2> HIDE DEF n
  <2>2. \A d \in Chain : chain'[d] = chain[d]
    BY <1>2, <2>1
  <2>3. chain' \in [Chain -> Nat]
    BY <1>2, <2>1
  <2>4. QED
    BY <2>2, <2>3
<1>3. QED
  BY <1>1, <1>2

\* BRWalletUnusedAddrs, after a registration or for a caller.
LEMMA UnusedAddrsKeepsListInv ==
    ASSUME ListInv, NEW c, NEW gap, c \in Chain => gap \in Nat, UnusedAddrs(c, gap),
           UNCHANGED <<listVars, now, lockVars>>
    PROVE  ListInv'
<1> USE DEF ListInv
<1>1. chain \in [Chain -> Nat]
  BY DEF ListTypeOK
<1>2. chain' \in [Chain -> Nat] /\ \A d \in Chain : chain[d] <= chain'[d]
  BY <1>1, UnusedAddrsGrows
<1>3. UNCHANGED <<transactions, allTx, height, timestamp, blockHeight, now, lock, upd, bal>>
  BY DEF listVars, lockVars
<1>4. ListTypeOK' /\ HeightsBounded' /\ OneLoop'
  BY <1>2, <1>3 DEF ListTypeOK, HeightsBounded, OneLoop
<1>5. SortedByHeight' /\ ListedAreRegistered' /\ ConfirmedBelowTip' /\ Listed' = Listed
  BY <1>3 DEF SortedByHeight, ListedAreRegistered, ConfirmedBelowTip, Listed
<1>6. ListedAreOurs'
  <2>1. allTx \subseteq Tx /\ \A u \in Listed : u \in Tx /\ ContainsTx(u)
    BY DEF ListTypeOK, ListedAreRegistered, ListedAreOurs
  <2>2. \A u \in Listed : ContainsTx(u)'
    BY <1>1, <1>2, <1>3, <2>1, ContainsTxKept
  <2>3. QED
    BY <1>5, <2>2 DEF ListedAreOurs
<1>7. QED
  BY <1>4, <1>5, <1>6

\* The calls of the peer manager and of the application.
LEMMA CallKeepsListInv ==
    ASSUME ListInv, NEW th \in Thread, Call(th)
    PROVE  ListInv'
<1>1. ASSUME NEW t \in Tx, RegisterTransaction(th, t) PROVE ListInv'
  BY <1>1, RegisterTransactionKeepsListInv
<1>2. ASSUME NEW t \in Listed, RemoveTransaction(th, t) PROVE ListInv'
  <2>1. UNCHANGED <<listVars, chain, now, lock, upd, bal>>
    BY <1>2 DEF RemoveTransaction, lockVars
  <2>2. QED
    BY <2>1, ListInvUnchanged
<1>3. ASSUME NEW t \in allTx, NEW ts \in Timestamps,
             UpdateTransactions(th, <<t>>, TX_UNCONFIRMED, ts)
      PROVE  ListInv'
  <2>1. <<t>> \in Seq(Tx) /\ ts \in Nat /\ TX_UNCONFIRMED \in Nat /\ TX_UNCONFIRMED <= TX_UNCONFIRMED
    BY ConstantAssumption DEF ListInv, ListTypeOK
  <2>2. QED
    BY <1>3, <2>1, UpdateTransactionsKeepsListInv
<1>4. ASSUME NEW s \in Blocks, NEW h \in Heights, NEW ts \in Timestamps \ {0},
             UpdateTransactions(th, s, h, ts)
      PROVE  ListInv'
  <2>1. PICK n \in 1..BlockSize : s \in [1..n -> Tx]
    BY DEF Blocks
  <2>2. s \in Seq(Tx)
    BY <2>1, ConstantAssumption
  <2>3. h \in Nat /\ ts \in Nat /\ h <= TX_UNCONFIRMED
    BY ConstantAssumption
  <2>4. QED
    BY <1>4, <2>2, <2>3, UpdateTransactionsKeepsListInv
<1>5. ASSUME NEW h \in Heights, SetTxUnconfirmedAfter(th, h) PROVE ListInv'
  <2>1. h \in Nat
    BY ConstantAssumption
  <2>2. QED
    BY <1>5, <2>1, SetTxUnconfirmedAfterKeepsListInv
<1>6. ASSUME NEW c \in Chain, RequestAddrs(th, c, GapLimit[c] + ExtraGap) PROVE ListInv'
  <2>1. GapLimit[c] + ExtraGap \in Nat
    BY ConstantAssumption
  <2> DEFINE gap == GapLimit[c] + ExtraGap
  <2>2. UnusedAddrs(c, gap) /\ UNCHANGED <<listVars, now, lockVars>>
    BY <1>6 DEF RequestAddrs
  <2> HIDE DEF gap
  <2>3. QED
    BY <2>1, <2>2, UnusedAddrsKeepsListInv DEF gap
<1>7. QED
  BY <1>1, <1>2, <1>3, <1>4, <1>5, <1>6 DEF Call

\* What a call does after it has released the lock.
LEMMA ContinueKeepsListInv ==
    ASSUME ListInv, NEW th \in Thread, Continue(th)
    PROVE  ListInv'
<1>1. CASE RemoveListed(th)
  BY <1>1, RemoveListedKeepsListInv
<1>2. CASE NewAddrs(th)
  <2>1. PICK c : UnusedAddrs(c, GapLimit[c]) /\ UNCHANGED <<listVars, now, lockVars>>
    BY <1>2 DEF NewAddrs
  <2>2. c \in Chain => GapLimit[c] \in Nat
    BY ConstantAssumption
  <2>3. QED
    BY <2>1, <2>2, UnusedAddrsKeepsListInv
<1>3. CASE RemoveDependents(th) \/ BalanceChanged(th) \/ TxAdded(th) \/ TxUpdated(th)
           \/ TxDeleted(th) \/ RegisterReturns(th)
  <2>1. UNCHANGED <<listVars, chain, now, lock, upd, bal>>
    BY <1>3 DEF RemoveDependents, BalanceChanged, TxAdded, TxUpdated, TxDeleted,
                RegisterReturns, lockVars
  <2>2. QED
    BY <2>1, ListInvUnchanged
<1>4. QED
  BY <1>1, <1>2, <1>3 DEF Continue

\* Every step of the wallet preserves the inductive invariant.
LEMMA NextKeepsListInv == ListInv /\ [Next]_vars => ListInv'
<1> SUFFICES ASSUME ListInv, [Next]_vars PROVE ListInv'
  OBVIOUS
<1>1. CASE Locked
  BY <1>1, UpdateStepKeepsListInv, UpdateDoneKeepsListInv, BalanceKeepsListInv DEF Locked
<1>2. CASE Tick
  <2>1. UNCHANGED <<listVars, chain, lock, upd, bal>> /\ now' \in Nat
    BY <1>2, ConstantAssumption DEF Tick, lockVars
  <2>2. ListTypeOK' /\ HeightsBounded' /\ OneLoop'
    BY <2>1 DEF ListInv, ListTypeOK, HeightsBounded, OneLoop, listVars
  <2>3. QED
    BY <2>1, <2>2, ListUnchanged DEF ListInv
<1>3. CASE \E th \in Thread : Call(th) \/ Continue(th)
  BY <1>3, CallKeepsListInv, ContinueKeepsListInv
<1>4. CASE UNCHANGED vars
  <2>1. UNCHANGED <<listVars, chain, now, lock, upd, bal>>
    BY <1>4 DEF vars, lockVars
  <2>2. QED
    BY <2>1, ListInvUnchanged
<1>5. QED
  BY <1>1, <1>2, <1>3, <1>4 DEF Next

\* ListInv holds in every reachable state, for all constants.
THEOREM ListInvariance == Spec => []ListInv
BY InitListInv, NextKeepsListInv, PTL DEF Spec

\* The wallet's list has its type: transactions are known ones, chain lengths and
\* heights are naturals, the lock has one owner (struct BRWalletStruct).
THEOREM ListTypeCorrect == Spec => []ListTypeOK
<1>1. ListInv => ListTypeOK
  BY DEF ListInv
<1>2. QED
  BY <1>1, ListInvariance, PTL

\* wallet->transactions is sorted by block height in every reachable state, so the
\* scans of BRWalletSetTxUnconfirmedAfter and BRWalletRemoveTransaction that stop
\* at the first lower height miss nothing.
THEOREM ListSorted == Spec => []SortedByHeight
<1>1. ListInv => SortedByHeight
  BY DEF ListInv
<1>2. QED
  BY <1>1, ListInvariance, PTL

\* Every listed transaction is owned by allTx and listed once: freeing confirmed
\* transactions that are not the wallet's never frees a listed one.
THEOREM ListOwned == Spec => []ListedAreRegistered
<1>1. ListInv => ListedAreRegistered
  BY DEF ListInv
<1>2. QED
  BY <1>1, ListInvariance, PTL

\* No listed transaction is confirmed above wallet->blockHeight, through any
\* sequence of confirmations and reorganisations.
THEOREM NothingConfirmedAboveTip == Spec => []ConfirmedBelowTip
<1>1. ListInv => ConfirmedBelowTip
  BY DEF ListInv
<1>2. QED
  BY <1>1, ListInvariance, PTL

-----------------------------------------------------------------------------
(* What a removal leaves behind. *)

\* When BRWalletRemoveTransaction finds no dependents there are none: the scan
\* passes every listed transaction that is at least as high as t.
LEMMA NoDependentsLeft ==
    ASSUME ListInv, NEW t \in Tx, Dependents(t) = <<>>, NEW u \in Listed,
           u # t, height[u] >= height[t]
    PROVE  t \notin Parents(u)
<1> DEFINE found == {i \in TailAfter(height[t] - 1) :
                       transactions[i] # t /\ t \in Parents(transactions[i])}
<1>1. /\ transactions \in Seq(Tx) /\ Len(transactions) \in Nat
      /\ \A i \in 1..Len(transactions) : transactions[i] \in Tx
      /\ height \in [Tx -> Nat]
  BY LenProperties, ElementOfSeq DEF ListInv, ListTypeOK
<1>2. found \subseteq 1..Len(transactions)
  BY DEF TailAfter
<1>3. IsFiniteSet(found)
  <2>1. IsFiniteSet(1..Len(transactions))
    BY <1>1, FS_Interval
  <2>2. QED
    BY <1>2, <2>1, FS_Subset
<1>4. Cardinality(found) = 0
  <2> DEFINE f == OldestFirst(found)
  <2>1. f = <<>>
    BY DEF Dependents
  <2>2. Cardinality(found) \in Nat
    BY <1>3, FS_CardinalityType
  <2>3. DOMAIN f = 1..Cardinality(found)
    BY DEF OldestFirst
  <2> HIDE DEF f, found
  <2>4. 1..Cardinality(found) = {}
    BY <2>1, <2>3
  <2>5. QED
    BY <2>2, <2>4
<1>5. found = {}
  BY <1>3, <1>4, FS_EmptySet
<1>6. PICK i \in 1..Len(transactions) : u = transactions[i]
  BY DEF Listed
<1>7. i \in TailAfter(height[t] - 1)
  <2> SUFFICES ASSUME NEW j \in i..Len(transactions)
               PROVE  height[transactions[j]] > height[t] - 1
    BY <1>6 DEF TailAfter
  <2>1. j \in 1..Len(transactions) /\ (i < j \/ i = j)
    BY <1>1
  <2>2. height[u] <= height[transactions[j]]
    BY <1>1, <1>6, <2>1 DEF ListInv, SortedByHeight
  <2>3. height[u] \in Nat /\ height[t] \in Nat /\ height[transactions[j]] \in Nat
    BY <1>1, <1>6, <2>1
  <2>4. QED
    BY <2>2, <2>3
<1>8. QED
  BY <1>5, <1>6, <1>7

\* The only step that takes a transaction off the list is RemoveListed.
LEMMA OnlyRemovalShortens ==
    ASSUME ListInv, [Next]_vars, NEW t \in Listed, t \notin Listed'
    PROVE  \E th \in Thread : RemoveListed(th) /\ t = Head(calls[th]).tx
<1>0. /\ transactions \in Seq(Tx) /\ allTx \subseteq Tx /\ height \in [Tx -> Nat]
      /\ Listed = Elems(transactions) /\ Listed' = Elems(transactions') /\ Listed \subseteq allTx
      /\ SortedOn(height, transactions) /\ NoDuplicates(transactions)
  BY ListedAsSequence, ListedAsSequenceNext DEF ListInv, ListTypeOK
<1>1. transactions' # transactions
  BY <1>0
<1>2. \A s \in Seq(Tx) : \A u \in Tx : NoDuplicates(s) =>
         /\ RemoveTx(s, u) \in Seq(Tx)
         /\ Elems(RemoveTx(s, u)) = Elems(s) \ {u}
         /\ NoDuplicates(RemoveTx(s, u))
         /\ \A h, g \in [Tx -> Nat] :
               SortedOn(h, s) /\ (\A v \in Tx \ {u} : g[v] = h[v])
                  => SortedOn(g, RemoveTx(s, u))
  BY RemoveTxProperties, Zenon
<1>3. ASSUME NEW h \in [Tx -> Nat], NEW s \in Seq(Tx), NEW all, NEW u \in Tx, SortedOn(h, s)
      PROVE  Elems(InsertTx(h, all, s, u)) = Elems(s) \cup {u}
  BY <1>3, InsertTxProperties
<1>4. ASSUME UpdateStep PROVE FALSE
  <2> DEFINE u == Head(upd.todo)
             rest == RemoveTx(transactions, u)
  <2>1. UpdateSet(u)
    BY <1>1, <1>4 DEF UpdateStep, UpdateSkip
  <2>2. u \in Listed /\ transactions' = InsertTx(height', allTx, rest, u)
    BY <1>1, <2>1 DEF UpdateSet
  <2>3. height' \in [Tx -> Nat] /\ \A v \in Tx \ {u} : height'[v] = height[v]
    <3>1. ContainsTx(u) /\ upd.height \in Nat /\ u \in Tx
      BY <1>0, <2>2 DEF ListInv, ListedAreOurs, ListTypeOK
    <3>2. height' = [height EXCEPT ![u] = upd.height]
      BY <2>1, <3>1 DEF UpdateSet
    <3> HIDE DEF u
    <3>3. QED
      BY <1>0, <3>1, <3>2
  <2> HIDE DEF u, rest
  <2>4. u \in Tx
    BY <1>0, <2>2
  <2>5. /\ rest \in Seq(Tx) /\ Elems(rest) = Elems(transactions) \ {u}
        /\ SortedOn(height', rest)
    BY <1>0, <1>2, <2>3, <2>4, Zenon DEF rest
  <2>6. Elems(transactions') = Elems(rest) \cup {u}
    BY <1>3, <2>2, <2>3, <2>4, <2>5
  <2>7. QED
    BY <1>0, <2>5, <2>6
<1>5. ASSUME NEW th \in Thread, NEW u \in Tx, RegisterTransaction(th, u) PROVE FALSE
  <2>1. transactions' = InsertTx(height, allTx', transactions, u)
    BY <1>1, <1>5 DEF RegisterTransaction
  <2>2. Elems(transactions') = Elems(transactions) \cup {u}
    BY <1>0, <1>3, <2>1
  <2>3. QED
    BY <1>0, <2>2
<1>6. ASSUME NEW th \in Thread, Call(th) PROVE FALSE
  <2>1. \E u \in Tx : RegisterTransaction(th, u)
    BY <1>1, <1>6 DEF Call, RemoveTransaction, UpdateTransactions, SetTxUnconfirmedAfter,
                      RequestAddrs, listVars
  <2>2. QED
    BY <1>5, <2>1
<1>7. ASSUME NEW th \in Thread, Continue(th)
      PROVE  RemoveListed(th) /\ t = Head(calls[th]).tx
  <2>1. RemoveListed(th)
    BY <1>1, <1>7 DEF Continue, RemoveDependents, NewAddrs, BalanceChanged, TxAdded,
                      TxUpdated, TxDeleted, RegisterReturns, listVars
  <2> DEFINE u == Head(calls[th]).tx
  <2>2. u \in allTx /\ transactions' = RemoveTx(transactions, u)
    BY <2>1 DEF RemoveListed
  <2> HIDE DEF u
  <2>3. u \in Tx
    BY <1>0, <2>2
  <2>4. Elems(transactions') = Elems(transactions) \ {u}
    BY <1>0, <1>2, <2>2, <2>3, Zenon
  <2>5. t = u
    BY <1>0, <2>4
  <2>6. QED
    BY <2>1, <2>5 DEF u
<1>8. CASE Locked
  BY <1>1, <1>4, <1>8 DEF Locked, UpdateDone, BalanceStep, BalanceDone, listVars
<1>9. CASE Tick \/ UNCHANGED vars
  BY <1>1, <1>9 DEF Tick, vars, listVars
<1>10. QED
  BY <1>6, <1>7, <1>8, <1>9 DEF Next

\* A removal never leaves a listed transaction that spends the removed one and is
\* not below it, whatever other threads register while the recursion of
\* BRWalletRemoveTransaction has given up the lock.
THEOREM RemovalComplete == Spec => RemovalTakesDependents
<1> DEFINE A == \A t \in Listed : t \notin Listed' =>
                  ~\E u \in Listed' : t \in Parents(u) /\ height[u] >= height[t]
<1>1. ListInv /\ [Next]_vars => [A]_vars
  <2> SUFFICES ASSUME ListInv, [Next]_vars, NEW t \in Listed, t \notin Listed',
                      NEW u \in Listed', t \in Parents(u), height[u] >= height[t]
               PROVE  FALSE
    OBVIOUS
  <2>1. PICK th \in Thread : RemoveListed(th) /\ t = Head(calls[th]).tx
    BY OnlyRemovalShortens
  <2>2. Dependents(t) = <<>> /\ transactions' = RemoveTx(transactions, t) /\ t \in allTx
    BY <2>1 DEF RemoveListed
  <2>3. t \in Tx /\ transactions \in Seq(Tx) /\ NoDuplicates(transactions)
    BY <2>2, ListedAsSequence DEF ListInv, ListTypeOK
  <2>4. Elems(RemoveTx(transactions, t)) = Elems(transactions) \ {t}
    BY <2>3, RemoveTxProperties, Zenon
  <2>5. u \in Listed /\ u # t
    BY <2>2, <2>4, ListedAsSequence, ListedAsSequenceNext
  <2>6. QED
    BY <2>2, <2>3, <2>5, NoDependentsLeft
<1>2. QED
  BY <1>1, ListInvariance, PTL DEF Spec, RemovalTakesDependents

-----------------------------------------------------------------------------
(* What _BRWalletUpdateBalance has made of the list so far. *)

\* the listed transactions the caches account for: those before the loop's
\* position, all of them when the loop is not running
Done == IF bal.i = 0 THEN Listed ELSE {transactions[i] : i \in 1..(bal.i - 1)}

\* the caches and the loop's locals are the records of EmptyCache and NoBalance
LocalsOK ==
    /\ bal = [i |-> bal.i, balance |-> bal.balance, prevBalance |-> bal.prevBalance]
    /\ bal.i \in 0..(Len(transactions) + 1)
    /\ DOMAIN cache = {"utxos", "balanceHist", "spentOutputs", "invalidTx",
                       "pendingTx", "usedPKH", "totalSent", "totalReceived"}

\* invalid and pending transactions are ones the loop has seen
MarkedAreDone == cache.invalidTx \subseteq Done /\ cache.pendingTx \subseteq Done

\* the inputs of what is not invalid are spent
SpentByDone == \A t \in Done \ cache.invalidTx : Inputs[t] \subseteq cache.spentOutputs

\* SpendableIsUnspent for the part of the list the loop has seen
UtxosUnspent ==
    \A o \in cache.utxos : \A t \in Done :
        o \in Inputs[t] => t \in cache.pendingTx \cup cache.invalidTx

\* OneSpenderCounts for that part of the list
OneSpenderDone ==
    \A t, u \in Done \ cache.invalidTx :
        t # u /\ Inputs[t] \cap Inputs[u] # {}
            => height[t] # TX_UNCONFIRMED /\ height[u] # TX_UNCONFIRMED

\* ConfirmedCounts, unless BRWalletUpdateTransactions has noted that the caches
\* need an update
MarkedUnconfirmed ==
    upd.needsUpdate \/
        \A t \in cache.invalidTx \cup cache.pendingTx : height[t] = TX_UNCONFIRMED

\* BRWalletUpdateTransactions never takes a confirmed transaction back
NoneUnconfirmed ==
    upd.height = TX_UNCONFIRMED =>
        \A i \in 1..Len(upd.todo) : height[upd.todo[i]] = TX_UNCONFIRMED

CacheInv ==
    /\ LocalsOK /\ MarkedAreDone /\ SpentByDone /\ UtxosUnspent
    /\ OneSpenderDone /\ MarkedUnconfirmed /\ NoneUnconfirmed

\* Entering _BRWalletUpdateBalance clears the caches: nothing is accounted for.
LEMMA BeginBalanceCacheInv ==
    ASSUME ListInv, ListInv', NEW th, BeginBalance(th), upd' = NoUpdate
    PROVE  CacheInv'
<1>1. transactions' \in Seq(Tx) /\ Len(transactions') \in Nat
  <2>1. transactions' \in Seq(Tx)
    BY DEF ListInv, ListTypeOK
  <2>2. QED
    BY <2>1, LenProperties
<1>2. bal' = [i |-> 1, balance |-> 0, prevBalance |-> 0] /\ cache' = EmptyCache
  BY DEF BeginBalance, NoBalance
<1>3. Done' = {}
  BY <1>2 DEF Done
<1>4. LocalsOK'
  BY <1>1, <1>2 DEF LocalsOK, EmptyCache
<1>5. cache'.invalidTx = {} /\ cache'.pendingTx = {} /\ cache'.utxos = {}
  BY <1>2 DEF EmptyCache
<1>6. MarkedAreDone' /\ SpentByDone' /\ UtxosUnspent' /\ OneSpenderDone' /\ MarkedUnconfirmed'
  BY <1>3, <1>5 DEF MarkedAreDone, SpentByDone, UtxosUnspent, OneSpenderDone, MarkedUnconfirmed
<1>7. NoneUnconfirmed'
  BY DEF NoneUnconfirmed, NoUpdate
<1>8. QED
  BY <1>4, <1>6, <1>7 DEF CacheInv

\* A step that leaves the list, the heights, the caches and the loops alone.
LEMMA CacheInvUnchanged ==
    ASSUME CacheInv, UNCHANGED <<transactions, height, cache, upd, bal>>
    PROVE  CacheInv'
<1>1. Done' = Done
  BY DEF Done, Listed
<1>2. LocalsOK' /\ MarkedAreDone' /\ SpentByDone'
  BY <1>1 DEF CacheInv, LocalsOK, MarkedAreDone, SpentByDone
<1>3. UtxosUnspent' /\ OneSpenderDone'
  BY <1>1 DEF CacheInv, UtxosUnspent, OneSpenderDone
<1>4. MarkedUnconfirmed' /\ NoneUnconfirmed'
  BY DEF CacheInv, MarkedUnconfirmed, NoneUnconfirmed
<1>5. QED
  BY <1>2, <1>3, <1>4 DEF CacheInv

\* BRWalletNew establishes it.
LEMMA InitCacheInv == Init => CacheInv
<1> SUFFICES ASSUME Init PROVE CacheInv
  OBVIOUS
<1>1. /\ Done = {} /\ Len(transactions) = 0
  BY DEF Init, Done, Listed, NoBalance
<1>2. LocalsOK
  BY <1>1 DEF Init, LocalsOK, EmptyCache, NoBalance
<1>3. MarkedAreDone /\ SpentByDone /\ UtxosUnspent /\ OneSpenderDone /\ MarkedUnconfirmed
  BY <1>1 DEF Init, MarkedAreDone, SpentByDone, UtxosUnspent, OneSpenderDone,
              MarkedUnconfirmed, EmptyCache
<1>4. NoneUnconfirmed
  BY DEF Init, NoneUnconfirmed, NoUpdate
<1>5. QED
  BY <1>2, <1>3, <1>4 DEF CacheInv

\* One iteration of _BRWalletUpdateBalance: t is skipped as invalid, skipped as
\* pending, or counted.  Because the list is sorted, a confirmed t that spends an
\* output already spent comes after confirmed transactions only.
LEMMA BalanceStepKeepsCacheInv == ListInv /\ CacheInv /\ BalanceStep => CacheInv'
<1> SUFFICES ASSUME ListInv, CacheInv, BalanceStep PROVE CacheInv'
  OBVIOUS
<1> DEFINE t == transactions[bal.i]
<1>1. /\ UNCHANGED <<transactions, height, upd>>
      /\ bal.i \in 1..Len(transactions)
      /\ BalanceSkipInvalid(t) \/ BalanceSkipPending(t) \/ BalanceCount(t)
  BY DEF BalanceStep, listVars
<1>2. /\ Len(transactions) \in Nat
      /\ \A i \in 1..Len(transactions) : transactions[i] \in Tx
      /\ height \in [Tx -> Nat] /\ TX_UNCONFIRMED \in Nat
      /\ \A u \in Tx : height[u] <= TX_UNCONFIRMED
  BY LenProperties, ElementOfSeq, ConstantAssumption DEF ListInv, ListTypeOK, HeightsBounded
<1>3. bal'.i = bal.i + 1 /\ bal' = [i |-> bal'.i, balance |-> bal'.balance, prevBalance |-> bal'.prevBalance]
  <2>1. bal = [i |-> bal.i, balance |-> bal.balance, prevBalance |-> bal.prevBalance]
    BY DEF CacheInv, LocalsOK
  <2>2. CASE bal' = [bal EXCEPT !.i = @ + 1]
    BY <2>1, <2>2
  <2>3. CASE \E b : bal' = [i |-> bal.i + 1, balance |-> b, prevBalance |-> b]
    BY <2>3
  <2>4. QED
    BY <1>1, <2>2, <2>3, Zenon DEF BalanceSkipInvalid, BalanceSkipPending, BalanceCount
<1>4. Done' = Done \cup {t} /\ t \in Tx /\ Done \subseteq Tx
  <2>1. Done = {transactions[i] : i \in 1..(bal.i - 1)}
    BY <1>1, <1>2 DEF Done
  <2>2. Done' = {transactions[i] : i \in 1..bal.i}
    <3>1. bal'.i # 0 /\ bal'.i - 1 = bal.i
      BY <1>1, <1>2, <1>3
    <3>2. QED
      BY <1>1, <3>1 DEF Done
  <2>3. 1..bal.i = 1..(bal.i - 1) \cup {bal.i} /\ 1..bal.i \subseteq 1..Len(transactions)
    BY <1>1, <1>2
  <2>4. QED
    BY <1>1, <1>2, <2>1, <2>2, <2>3
<1>5. \A u \in Done : height[u] <= height[t] /\ u # t
  <2> SUFFICES ASSUME NEW u \in Done PROVE height[u] <= height[t] /\ u # t
    OBVIOUS
  <2>1. PICK i \in 1..(bal.i - 1) : u = transactions[i]
    BY <1>1, <1>2 DEF Done
  <2>2. i \in 1..Len(transactions) /\ i < bal.i /\ i # bal.i
    BY <1>1, <1>2
  <2>3. height[u] <= height[t]
    BY <1>1, <2>1, <2>2 DEF ListInv, SortedByHeight
  <2>4. u # t
    BY <1>1, <2>1, <2>2 DEF ListInv, ListedAreRegistered
  <2>5. QED
    BY <2>3, <2>4
<1>6. DOMAIN cache = {"utxos", "balanceHist", "spentOutputs", "invalidTx",
                      "pendingTx", "usedPKH", "totalSent", "totalReceived"}
  BY DEF CacheInv, LocalsOK
<1>7. /\ \/ /\ cache'.invalidTx = cache.invalidTx \cup {t} /\ cache'.pendingTx = cache.pendingTx
            /\ cache'.utxos = cache.utxos /\ cache'.spentOutputs = cache.spentOutputs
            /\ BalanceInvalid(t)
         \/ /\ cache'.invalidTx = cache.invalidTx /\ cache'.pendingTx = cache.pendingTx \cup {t}
            /\ cache'.utxos = cache.utxos
            /\ cache'.spentOutputs = cache.spentOutputs \cup Inputs[t]
            /\ ~BalanceInvalid(t) /\ BalancePending(t)
         \/ /\ cache'.invalidTx = cache.invalidTx /\ cache'.pendingTx = cache.pendingTx
            /\ cache'.spentOutputs = cache.spentOutputs \cup Inputs[t]
            /\ cache'.utxos \subseteq (cache.utxos \cup {<<t, n>> : n \in OwnOutputs(t)})
                                          \ cache'.spentOutputs
            /\ ~BalanceInvalid(t)
      /\ DOMAIN cache' = DOMAIN cache
  <2>1. CASE BalanceSkipInvalid(t)
    <3>1. PICK h : cache' = [cache EXCEPT !.invalidTx = @ \cup {t}, !.balanceHist = h]
      BY <2>1, Zenon DEF BalanceSkipInvalid
    <3>2. BalanceInvalid(t)
      BY <2>1 DEF BalanceSkipInvalid
    <3> HIDE DEF t
    <3>3. /\ cache'.invalidTx = cache.invalidTx \cup {t} /\ cache'.pendingTx = cache.pendingTx
          /\ cache'.utxos = cache.utxos /\ cache'.spentOutputs = cache.spentOutputs
          /\ DOMAIN cache' = DOMAIN cache
      BY <1>6, <3>1
    <3>4. QED
      BY <3>2, <3>3
  <2>2. CASE BalanceSkipPending(t)
    <3>1. PICK h : cache' = [cache EXCEPT !.spentOutputs = @ \cup Inputs[t],
                               !.pendingTx = @ \cup {t}, !.balanceHist = h]
      BY <2>2, Zenon DEF BalanceSkipPending
    <3>2. ~BalanceInvalid(t) /\ BalancePending(t)
      BY <2>2 DEF BalanceSkipPending
    <3> HIDE DEF t
    <3>3. /\ cache'.invalidTx = cache.invalidTx /\ cache'.pendingTx = cache.pendingTx \cup {t}
          /\ cache'.utxos = cache.utxos
          /\ cache'.spentOutputs = cache.spentOutputs \cup Inputs[t]
          /\ DOMAIN cache' = DOMAIN cache
      BY <1>6, <3>1
    <3>4. QED
      BY <3>2, <3>3
  <2>3. CASE BalanceCount(t)
    <3> DEFINE own == {<<t, n>> : n \in OwnOutputs(t)}
               spent == cache.spentOutputs \cup Inputs[t]
               utxos == (cache.utxos \cup own) \ spent
    <3>1. PICK p, r, s, h : cache' = [cache EXCEPT !.utxos = utxos, !.spentOutputs = spent,
                               !.usedPKH = p, !.totalReceived = r, !.totalSent = s,
                               !.balanceHist = h]
      BY <2>3, Zenon DEF BalanceCount
    <3>2. ~BalanceInvalid(t)
      BY <2>3 DEF BalanceCount
    <3> HIDE DEF t, own, spent, utxos
    <3>3. /\ cache'.invalidTx = cache.invalidTx /\ cache'.pendingTx = cache.pendingTx
          /\ cache'.utxos = utxos
          /\ cache'.spentOutputs = spent
          /\ DOMAIN cache' = DOMAIN cache
      BY <1>6, <3>1
    <3>4. QED
      BY <3>2, <3>3 DEF own, spent, utxos
  <2>4. QED
    BY <1>1, <2>1, <2>2, <2>3
<1> HIDE DEF t
<1>8. LocalsOK'
  BY <1>1, <1>2, <1>3, <1>6, <1>7 DEF LocalsOK
<1>9. MarkedAreDone' /\ SpentByDone'
  BY <1>4, <1>7 DEF CacheInv, MarkedAreDone, SpentByDone
<1>10. UtxosUnspent'
  <2> SUFFICES ASSUME NEW o \in cache'.utxos, NEW u \in Done', o \in Inputs[u],
                      u \notin cache'.pendingTx \cup cache'.invalidTx
               PROVE  FALSE
    BY DEF UtxosUnspent
  <2>1. o \notin cache'.spentOutputs => FALSE
    BY <1>4, <1>7 DEF CacheInv, SpentByDone
  <2>2. CASE cache'.utxos = cache.utxos
    BY <1>4, <1>7, <2>1, <2>2 DEF CacheInv, UtxosUnspent
  <2>3. QED
    BY <1>7, <2>1, <2>2
<1>11. OneSpenderDone'
  <2>1. ASSUME NEW u \in Done \ cache'.invalidTx, t \notin cache'.invalidTx,
               Inputs[t] \cap Inputs[u] # {}
        PROVE  height[t] # TX_UNCONFIRMED /\ height[u] # TX_UNCONFIRMED
    <3>1. Inputs[u] \subseteq cache.spentOutputs /\ ~BalanceInvalid(t)
      BY <1>7, <2>1 DEF CacheInv, SpentByDone
    <3>2. height[t] # TX_UNCONFIRMED
      BY <2>1, <3>1 DEF BalanceInvalid
    <3>3. height[u] <= height[t] /\ height[t] <= TX_UNCONFIRMED /\ height[u] \in Nat /\ height[t] \in Nat
      BY <1>2, <1>4, <1>5
    <3>4. QED
      BY <1>2, <3>2, <3>3
  <2>2. ASSUME NEW u \in Done \ cache'.invalidTx, NEW v \in Done \ cache'.invalidTx,
               u # v, Inputs[u] \cap Inputs[v] # {}
        PROVE  height[v] # TX_UNCONFIRMED /\ height[u] # TX_UNCONFIRMED
    BY <1>7, <2>2 DEF CacheInv, OneSpenderDone
  <2>3. QED
    BY <1>1, <1>4, <2>1, <2>2 DEF OneSpenderDone
<1>12. MarkedUnconfirmed' /\ NoneUnconfirmed'
  BY <1>1, <1>7 DEF CacheInv, MarkedUnconfirmed, NoneUnconfirmed, BalanceInvalid, BalancePending
<1>13. QED
  BY <1>8, <1>9, <1>10, <1>11, <1>12 DEF CacheInv

\* The end of _BRWalletUpdateBalance: the whole list is accounted for.
LEMMA BalanceDoneKeepsCacheInv == ListInv /\ CacheInv /\ BalanceDone => CacheInv'
<1> SUFFICES ASSUME ListInv, CacheInv, BalanceDone PROVE CacheInv'
  OBVIOUS
<1>1. /\ UNCHANGED <<transactions, height, upd, cache>>
      /\ bal.i = Len(transactions) + 1 /\ bal' = NoBalance
      /\ Len(transactions) \in Nat
  BY LenProperties DEF BalanceDone, listVars, ListInv, ListTypeOK
<1>2. Done' = Done
  BY <1>1 DEF Done, Listed, NoBalance
<1>3. LocalsOK'
  BY <1>1 DEF CacheInv, LocalsOK, NoBalance
<1>4. MarkedAreDone' /\ SpentByDone' /\ UtxosUnspent'
  BY <1>1, <1>2 DEF CacheInv, MarkedAreDone, SpentByDone, UtxosUnspent
<1>5. OneSpenderDone' /\ MarkedUnconfirmed' /\ NoneUnconfirmed'
  BY <1>1, <1>2 DEF CacheInv, OneSpenderDone, MarkedUnconfirmed, NoneUnconfirmed
<1>6. QED
  BY <1>3, <1>4, <1>5 DEF CacheInv

\* One iteration of BRWalletUpdateTransactions: heights only go from unconfirmed
\* to confirmed, and needsUpdate is set when a marked transaction is confirmed.
LEMMA UpdateStepKeepsCacheInv == ListInv /\ CacheInv /\ UpdateStep => CacheInv'
<1> SUFFICES ASSUME ListInv, CacheInv, UpdateStep PROVE CacheInv'
  OBVIOUS
<1> DEFINE t == Head(upd.todo)
<1>1. /\ upd.todo \in Seq(Tx) /\ upd.todo # <<>> /\ bal.i = 0
      /\ UNCHANGED <<cache, bal>>
      /\ UpdateSkip(t) \/ UpdateSet(t)
  BY DEF ListInv, ListTypeOK, UpdateStep, UpdateLooping
<1>2. /\ t \in Tx /\ t = upd.todo[1] /\ Len(upd.todo) \in Nat /\ 1 \in 1..Len(upd.todo)
      /\ Tail(upd.todo) \in Seq(Tx) /\ Len(Tail(upd.todo)) = Len(upd.todo) - 1
      /\ \A i \in 1..Len(Tail(upd.todo)) :
            Tail(upd.todo)[i] = upd.todo[i + 1] /\ i + 1 \in 1..Len(upd.todo)
  BY <1>1, HeadTailProperties, LenProperties
<1> HIDE DEF t
<1>3. /\ upd \in [todo : Seq(Tx), height : Nat, timestamp : Nat, done : SUBSET Tx,
                  needsUpdate : BOOLEAN]
      /\ height \in [Tx -> Nat] /\ Done = Listed /\ Listed \subseteq Tx
      /\ \A i \in 1..Len(upd.todo) : upd.todo[i] \in Tx
      /\ transactions \in Seq(Tx)
  BY <1>1, ElementOfSeq DEF ListInv, ListTypeOK, Done, ListedAreRegistered
<1>4. /\ height' \in [Tx -> Nat] /\ transactions' \in Seq(Tx) /\ Listed' = Listed
      /\ \A u \in Tx \ {t} : height'[u] = height[u]
      /\ height'[t] = height[t] \/ height'[t] = upd.height \/ t \notin Listed
      /\ upd'.height = upd.height /\ upd'.todo = Tail(upd.todo)
      /\ height'[t] = height[t] \/ height'[t] = upd.height \/ height'[t] = TX_UNCONFIRMED
  <2>1. CASE UpdateSkip(t)
    <3>1. UNCHANGED <<height, transactions>> /\ upd' = [upd EXCEPT !.todo = Tail(@)]
      BY <2>1 DEF UpdateSkip
    <3>2. QED
      BY <1>3, <3>1 DEF Listed
  <2>2. CASE UpdateSet(t)
    <3>1. t \in Listed => ContainsTx(t)
      BY DEF ListInv, ListedAreOurs
    <3>2. t \in Listed => height'[t] = upd.height
      BY <1>2, <1>3, <2>2, <3>1 DEF UpdateSet
    <3>3. QED
      BY <1>1, <1>2, <2>2, <3>2, UpdateSetEffect
  <2>3. QED
    BY <1>1, <2>1, <2>2
<1>5. Done' = Done
  BY <1>1, <1>4 DEF Done
<1>6. Len(transactions') \in Nat
  BY <1>4, LenProperties
<1>7. LocalsOK'
  BY <1>1, <1>6 DEF CacheInv, LocalsOK
<1>8. MarkedAreDone' /\ SpentByDone' /\ UtxosUnspent'
  BY <1>1, <1>5 DEF CacheInv, MarkedAreDone, SpentByDone, UtxosUnspent
<1>9. upd.height = TX_UNCONFIRMED => height[t] = TX_UNCONFIRMED
  BY <1>2 DEF CacheInv, NoneUnconfirmed
<1>10. \A u \in Listed : height[u] # TX_UNCONFIRMED => height'[u] # TX_UNCONFIRMED
  BY <1>3, <1>4, <1>9
<1>11. OneSpenderDone'
  BY <1>1, <1>3, <1>5, <1>10 DEF CacheInv, OneSpenderDone
<1>12. MarkedUnconfirmed'
  <2>1. CASE t \in cache.pendingTx \cup cache.invalidTx
    <3>1. t \in Listed /\ ContainsTx(t)
      BY <1>3, <2>1 DEF CacheInv, MarkedAreDone, ListInv, ListedAreOurs
    <3>2. CASE UpdateSet(t)
      <4>1. upd' = [upd EXCEPT !.todo = Tail(@), !.done = @ \cup {t},
                         !.needsUpdate = @ \/ t \in cache.pendingTx \cup cache.invalidTx]
        BY <3>1, <3>2 DEF UpdateSet
      <4> DEFINE needs == upd.needsUpdate \/ t \in cache.pendingTx \cup cache.invalidTx
                 done == upd.done \cup {t}
      <4>2. needs
        BY <2>1
      <4>3. upd' = [upd EXCEPT !.todo = Tail(@), !.done = done, !.needsUpdate = needs]
        BY <4>1
      <4> HIDE DEF needs, done
      <4>4. upd'.needsUpdate = needs
        BY <1>3, <4>3
      <4>5. QED
        BY <4>2, <4>4 DEF MarkedUnconfirmed
    <3>3. CASE UpdateSkip(t)
      <4>1. UNCHANGED <<height, cache>> /\ upd' = [upd EXCEPT !.todo = Tail(@)]
        BY <1>1, <3>3 DEF UpdateSkip
      <4>2. upd'.needsUpdate = upd.needsUpdate
        BY <1>3, <4>1
      <4>3. QED
        BY <4>1, <4>2 DEF CacheInv, MarkedUnconfirmed
    <3>4. QED
      BY <1>1, <3>2, <3>3
  <2>2. CASE t \notin cache.pendingTx \cup cache.invalidTx
    <3>1. \A u \in cache.pendingTx \cup cache.invalidTx : height'[u] = height[u]
      BY <1>3, <1>4, <2>2 DEF CacheInv, MarkedAreDone
    <3>2. upd.needsUpdate => upd'.needsUpdate
      <4>1. CASE upd' = [upd EXCEPT !.todo = Tail(@)]
        BY <1>3, <4>1
      <4>2. CASE upd' = [upd EXCEPT !.todo = Tail(@), !.done = @ \cup {t},
                         !.needsUpdate = @ \/ t \in cache.pendingTx \cup cache.invalidTx]
        <5> DEFINE needs == upd.needsUpdate \/ t \in cache.pendingTx \cup cache.invalidTx
                   done == upd.done \cup {t}
        <5>1. upd.needsUpdate => needs
          OBVIOUS
        <5>2. upd' = [upd EXCEPT !.todo = Tail(@), !.done = done, !.needsUpdate = needs]
          BY <4>2
        <5> HIDE DEF needs, done
        <5>3. upd'.needsUpdate = needs
          BY <1>3, <5>2
        <5>4. QED
          BY <5>1, <5>3
      <4>3. QED
        BY <1>1, <4>1, <4>2 DEF UpdateSkip, UpdateSet
    <3>3. QED
      BY <1>1, <3>1, <3>2 DEF CacheInv, MarkedUnconfirmed
  <2>3. QED
    BY <2>1, <2>2
<1>13. NoneUnconfirmed'
  <2> SUFFICES ASSUME upd.height = TX_UNCONFIRMED, NEW i \in 1..Len(Tail(upd.todo))
               PROVE  height'[Tail(upd.todo)[i]] = TX_UNCONFIRMED
    BY <1>4 DEF NoneUnconfirmed
  <2>1. /\ Tail(upd.todo)[i] = upd.todo[i + 1] /\ upd.todo[i + 1] \in Tx
        /\ height[upd.todo[i + 1]] = TX_UNCONFIRMED
    BY <1>2, <1>3 DEF CacheInv, NoneUnconfirmed
  <2>2. \A u \in Tx : height[u] = TX_UNCONFIRMED => height'[u] = TX_UNCONFIRMED
    BY <1>4
  <2>3. QED
    BY <2>1, <2>2
<1>14. QED
  BY <1>7, <1>8, <1>11, <1>12, <1>13 DEF CacheInv

\* The end of that loop: the caches are rebuilt, or were right all the time.
LEMMA UpdateDoneKeepsCacheInv == ListInv /\ CacheInv /\ UpdateDone => CacheInv'
<1> SUFFICES ASSUME ListInv, CacheInv, UpdateDone PROVE CacheInv'
  OBVIOUS
<1>1. UNCHANGED <<transactions, height>> /\ upd' = NoUpdate /\ ListInv'
  BY UpdateDoneKeepsListInv DEF UpdateDone, listVars
<1>2. CASE upd.needsUpdate
  BY <1>1, <1>2, BeginBalanceCacheInv DEF UpdateDone
<1>3. CASE ~upd.needsUpdate
  <2>1. UNCHANGED <<cache, bal>> /\ Done' = Done
    BY <1>1, <1>3 DEF UpdateDone, Done, Listed
  <2>2. LocalsOK' /\ MarkedAreDone' /\ SpentByDone'
    BY <1>1, <2>1 DEF CacheInv, LocalsOK, MarkedAreDone, SpentByDone
  <2>3. UtxosUnspent' /\ OneSpenderDone'
    BY <1>1, <2>1 DEF CacheInv, UtxosUnspent, OneSpenderDone
  <2>4. MarkedUnconfirmed'
    BY <1>1, <1>3, <2>1 DEF CacheInv, MarkedUnconfirmed
  <2>5. NoneUnconfirmed'
    BY <1>1 DEF NoneUnconfirmed, NoUpdate
  <2>6. QED
    BY <2>2, <2>3, <2>4, <2>5 DEF CacheInv
<1>4. QED
  BY <1>2, <1>3

\* Entering BRWalletUpdateTransactions with hashes of one block, or with one hash
\* that is unconfirmed and stays so.
LEMMA UpdateTransactionsKeepsCacheInv ==
    ASSUME ListInv, CacheInv, NEW th \in Thread, NEW hashes, NEW h, NEW ts,
           h = TX_UNCONFIRMED => \A i \in 1..Len(hashes) : height[hashes[i]] = TX_UNCONFIRMED,
           UpdateTransactions(th, hashes, h, ts)
    PROVE  CacheInv'
<1>1. /\ UNCHANGED <<transactions, height, cache, bal>>
      /\ upd' = [NoUpdate EXCEPT !.todo = hashes, !.height = h, !.timestamp = ts]
      /\ upd = NoUpdate
  BY DEF UpdateTransactions, Idle, ListInv, OneLoop
<1>2. upd'.todo = hashes /\ upd'.height = h
  BY <1>1 DEF NoUpdate
<1>3. Done' = Done /\ ~upd.needsUpdate
  BY <1>1 DEF Done, Listed, NoUpdate
<1>4. LocalsOK' /\ MarkedAreDone' /\ SpentByDone'
  BY <1>1, <1>3 DEF CacheInv, LocalsOK, MarkedAreDone, SpentByDone
<1>5. UtxosUnspent' /\ OneSpenderDone'
  BY <1>1, <1>3 DEF CacheInv, UtxosUnspent, OneSpenderDone
<1>6. MarkedUnconfirmed'
  BY <1>1, <1>3 DEF CacheInv, MarkedUnconfirmed
<1>7. NoneUnconfirmed'
  BY <1>1, <1>2 DEF NoneUnconfirmed
<1>8. QED
  BY <1>4, <1>5, <1>6, <1>7 DEF CacheInv

\* The calls of the peer manager and of the application.
LEMMA CallKeepsCacheInv ==
    ASSUME ListInv, CacheInv, NEW th \in Thread, Call(th)
    PROVE  CacheInv'
<1>0. ListInv'
  BY CallKeepsListInv
<1>1. ASSUME NEW t \in Tx, RegisterTransaction(th, t) PROVE CacheInv'
  <2>1. upd' = upd /\ upd = NoUpdate /\ height' = height
    BY <1>1 DEF RegisterTransaction, Idle, ListInv, OneLoop
  <2>2. BeginBalance(th) \/ UNCHANGED <<transactions, cache, bal>>
    BY <1>1 DEF RegisterTransaction
  <2>3. QED
    BY <1>0, <2>1, <2>2, BeginBalanceCacheInv, CacheInvUnchanged
<1>2. ASSUME NEW t \in Listed, RemoveTransaction(th, t) PROVE CacheInv'
  BY <1>2, CacheInvUnchanged DEF RemoveTransaction, listVars, lockVars
<1>3. ASSUME NEW t \in allTx, NEW ts \in Timestamps, height[t] = TX_UNCONFIRMED,
             UpdateTransactions(th, <<t>>, TX_UNCONFIRMED, ts)
      PROVE  CacheInv'
  <2>1. \A i \in 1..Len(<<t>>) : height[<<t>>[i]] = TX_UNCONFIRMED
    BY <1>3
  <2>2. QED
    BY <1>3, <2>1, UpdateTransactionsKeepsCacheInv
<1>4. ASSUME NEW s \in Blocks, NEW h \in Heights, NEW ts \in Timestamps \ {0},
             UpdateTransactions(th, s, h, ts)
      PROVE  CacheInv'
  <2>1. h # TX_UNCONFIRMED
    BY ConstantAssumption
  <2>2. QED
    BY <1>4, <2>1, UpdateTransactionsKeepsCacheInv
<1>5. ASSUME NEW h \in Heights, SetTxUnconfirmedAfter(th, h) PROVE CacheInv'
  <2> DEFINE txs == {transactions[i] : i \in TailAfter(h)}
  <2>1. upd' = upd /\ upd = NoUpdate /\ transactions' = transactions
    BY <1>5 DEF SetTxUnconfirmedAfter, Idle, ListInv, OneLoop
  <2>2. CASE txs # {}
    <3>1. BeginBalance(th)
      BY <1>5, <2>2 DEF SetTxUnconfirmedAfter
    <3>2. QED
      BY <1>0, <2>1, <3>1, BeginBalanceCacheInv
  <2>3. CASE txs = {}
    <3>1. /\ UNCHANGED <<cache, bal>>
          /\ height' = [t \in Tx |-> IF t \in txs THEN TX_UNCONFIRMED ELSE height[t]]
      BY <1>5, <2>3 DEF SetTxUnconfirmedAfter
    <3> HIDE DEF txs
    <3>2. height' = height
      BY <2>3, <3>1 DEF ListInv, ListTypeOK
    <3>3. QED
      BY <2>1, <3>1, <3>2, CacheInvUnchanged
  <2>4. QED
    BY <2>2, <2>3
<1>6. ASSUME NEW c \in Chain, RequestAddrs(th, c, GapLimit[c] + ExtraGap) PROVE CacheInv'
  BY <1>6, CacheInvUnchanged DEF RequestAddrs, listVars, lockVars
<1>7. QED
  BY <1>1, <1>2, <1>3, <1>4, <1>5, <1>6 DEF Call

\* Every step of the wallet preserves it.
LEMMA NextKeepsCacheInv == ListInv /\ CacheInv /\ [Next]_vars => CacheInv'
<1> SUFFICES ASSUME ListInv, CacheInv, [Next]_vars PROVE CacheInv'
  OBVIOUS
<1>1. CASE Locked
  BY <1>1, UpdateStepKeepsCacheInv, UpdateDoneKeepsCacheInv, BalanceStepKeepsCacheInv,
     BalanceDoneKeepsCacheInv DEF Locked
<1>2. CASE Tick \/ UNCHANGED vars
  BY <1>2, CacheInvUnchanged DEF Tick, vars, listVars, lockVars
<1>3. ASSUME NEW th \in Thread, Call(th) PROVE CacheInv'
  BY <1>3, CallKeepsCacheInv
<1>4. ASSUME NEW th \in Thread, Continue(th) PROVE CacheInv'
  <2>1. CASE RemoveListed(th)
    <3>1. BeginBalance(th) /\ upd' = upd /\ lock = Free
      BY <2>1 DEF RemoveListed
    <3>2. upd' = NoUpdate
      BY <3>1 DEF ListInv, OneLoop
    <3>3. QED
      BY <2>1, <3>1, <3>2, RemoveListedKeepsListInv, BeginBalanceCacheInv
  <2>2. CASE NewAddrs(th) \/ RemoveDependents(th) \/ BalanceChanged(th) \/ TxAdded(th)
             \/ TxUpdated(th) \/ TxDeleted(th) \/ RegisterReturns(th)
    BY <2>2, CacheInvUnchanged DEF NewAddrs, RemoveDependents, BalanceChanged, TxAdded,
                 TxUpdated, TxDeleted, RegisterReturns, listVars, lockVars
  <2>3. QED
    BY <1>4, <2>1, <2>2 DEF Continue
<1>5. QED
  BY <1>1, <1>2, <1>3, <1>4 DEF Next

\* CacheInv holds in every reachable state, for all constants.
THEOREM CacheInvariance == Spec => []CacheInv
BY InitCacheInv, NextKeepsCacheInv, ListInvariance, PTL DEF Spec

\* Whenever the lock is free no output in wallet->utxos is spent by a listed
\* transaction that counts.
THEOREM NothingSpentIsSpendable == Spec => []SpendableIsUnspent
<1>1. ListInv /\ CacheInv => SpendableIsUnspent
  BY DEF ListInv, OneLoop, CacheInv, UtxosUnspent, Done, SpendableIsUnspent
<1>2. QED
  BY <1>1, ListInvariance, CacheInvariance, PTL

\* Whenever the lock is free two listed transactions that spend the same output
\* are not both valid, unless blocks have confirmed both.
THEOREM NoDoubleSpendCounts == Spec => []OneSpenderCounts
<1>1. ListInv /\ CacheInv => OneSpenderCounts
  <2> SUFFICES ASSUME ListInv, CacheInv, lock = Free, NEW t \in Listed, NEW u \in Listed,
                      t # u, Inputs[t] \cap Inputs[u] # {},
                      t \notin cache.invalidTx, u \notin cache.invalidTx
               PROVE  height[t] # TX_UNCONFIRMED /\ height[u] # TX_UNCONFIRMED
    BY DEF OneSpenderCounts
  <2>1. Done = Listed
    BY DEF ListInv, OneLoop, Done
  <2>2. QED
    BY <2>1 DEF CacheInv, OneSpenderDone
<1>2. QED
  BY <1>1, ListInvariance, CacheInvariance, PTL

\* Whenever the lock is free no confirmed transaction is marked invalid or
\* pending, although BRWalletUpdateTransactions rebuilds the sets only sometimes.
THEOREM ConfirmedAlwaysCounts == Spec => []ConfirmedCounts
<1>1. ListInv /\ CacheInv => ConfirmedCounts
  <2> SUFFICES ASSUME ListInv, CacheInv, lock = Free PROVE ConfirmedCounts
    BY DEF ConfirmedCounts
  <2>1. Done = Listed /\ ~upd.needsUpdate
    BY DEF ListInv, OneLoop, Done, NoUpdate
  <2>2. QED
    BY <2>1 DEF CacheInv, MarkedAreDone, MarkedUnconfirmed, ConfirmedCounts
<1>2. QED
  BY <1>1, ListInvariance, CacheInvariance, PTL

-----------------------------------------------------------------------------
(* What the balance is made of. *)

\* the outputs that there are
Outpoints == UNION {{t} \X (1..Len(Outputs[t])) : t \in Tx}

\* the balance of the part of the list the loop has seen
BalanceOfDone == IF bal.i = 0 THEN balance ELSE bal.balance

\* types of the fields that hold outputs, keys and amounts
AmountsOK ==
    /\ cache.spentOutputs \subseteq (Tx \cup {Foreign}) \X Nat
    /\ cache.usedPKH \subseteq Chain \X Nat
    /\ cache.totalSent \in Nat /\ cache.totalReceived \in Nat
    /\ balance \in Nat /\ shown \in Nat
    /\ bal.balance \in Nat /\ bal.prevBalance \in Nat
    /\ cache.balanceHist \in Seq(Nat)

\* spendable outputs exist and belong to transactions the loop has seen
UtxosAreOutputs == cache.utxos \subseteq Outpoints /\ \A o \in cache.utxos : o[1] \in Done

\* BalanceAddsUp for the part of the list the loop has seen
BalanceSoFar ==
    /\ BalanceOfDone = SumAmounts(cache.utxos)
    /\ BalanceOfDone = cache.totalReceived - cache.totalSent
    /\ bal.prevBalance = bal.balance
    /\ Len(cache.balanceHist) = IF bal.i = 0 THEN Len(transactions) ELSE bal.i - 1

AmountInv == AmountsOK /\ UtxosAreOutputs /\ BalanceSoFar

\* There are finitely many outputs, each with an amount that is a natural number,
\* so any set of them is worth finitely many satoshis.
LEMMA SatoshisFinite ==
    ASSUME NEW S \in SUBSET Outpoints
    PROVE  /\ IsFiniteSet(Satoshis(S))
           /\ \A o \in S : o[1] \in Tx /\ o[2] \in 1..Len(Outputs[o[1]])
<1>1. \A t \in Tx : Outputs[t] \in Seq([pkh : (Chain \X Nat) \cup {Foreign}, amount : Nat])
  BY ConstantAssumption
<1>2. IsFiniteSet(Outpoints)
  <2> DEFINE f == [t \in Tx |-> {t} \X (1..Len(Outputs[t]))]
  <2>1. ASSUME NEW t \in Tx PROVE IsFiniteSet(f[t])
    <3>1. Len(Outputs[t]) \in Nat
      BY <1>1, LenProperties
    <3>2. IsFiniteSet({t}) /\ IsFiniteSet(1..Len(Outputs[t]))
      <4>1. IsFiniteSet({t})
        BY FS_Singleton, Zenon
      <4>2. IsFiniteSet(1..Len(Outputs[t]))
        BY <3>1, FS_Interval
      <4>3. QED
        BY <4>1, <4>2
    <3>3. IsFiniteSet({t} \X (1..Len(Outputs[t])))
      BY <3>2, FS_Product
    <3>4. QED
      BY <3>3
  <2>2. Outpoints = UNION {f[t] : t \in Tx}
    BY DEF Outpoints
  <2>3. IsFiniteSet(Tx)
    BY ConstantAssumption
  <2> HIDE DEF f
  <2>4. QED
    BY <2>1, <2>2, <2>3, FiniteUnion
<1>3. IsFiniteSet(S)
  BY <1>2, FS_Subset
<1>4. \A o \in S : o[1] \in Tx /\ o[2] \in 1..Len(Outputs[o[1]])
  BY DEF Outpoints
<1>5. IsFiniteSet(Satoshis(S))
  <2> DEFINE f == [o \in S |-> {o} \X (1..Outputs[o[1]][o[2]].amount)]
  <2>1. ASSUME NEW o \in S PROVE IsFiniteSet(f[o])
    <3>1. Outputs[o[1]][o[2]] \in [pkh : (Chain \X Nat) \cup {Foreign}, amount : Nat]
      BY <1>1, <1>4, ElementOfSeq
    <3>2. Outputs[o[1]][o[2]].amount \in Nat
      BY <3>1
    <3>3. IsFiniteSet({o}) /\ IsFiniteSet(1..Outputs[o[1]][o[2]].amount)
      <4>1. IsFiniteSet({o})
        BY FS_Singleton, Zenon
      <4>2. IsFiniteSet(1..Outputs[o[1]][o[2]].amount)
        BY <3>2, FS_Interval
      <4>3. QED
        BY <4>1, <4>2
    <3>4. IsFiniteSet({o} \X (1..Outputs[o[1]][o[2]].amount))
      BY <3>3, FS_Product
    <3>5. QED
      BY <3>4
  <2>2. Satoshis(S) = UNION {f[o] : o \in S}
    BY DEF Satoshis
  <2> HIDE DEF f
  <2>3. QED
    BY <1>3, <2>1, <2>2, FiniteUnion
<1>6. QED
  BY <1>4, <1>5

\* What outputs are worth is a natural number, and adds up over disjoint sets.
LEMMA SumProperties ==
    /\ SumAmounts({}) = 0
    /\ \A S \in SUBSET Outpoints : SumAmounts(S) \in Nat
    /\ \A S, T \in SUBSET Outpoints :
          S \cap T = {} => SumAmounts(S \cup T) = SumAmounts(S) + SumAmounts(T)
<1>1. SumAmounts({}) = 0
  <2>1. Satoshis({}) = {}
    BY DEF Satoshis
  <2>2. QED
    BY <2>1, FS_EmptySet DEF SumAmounts
<1>2. \A S \in SUBSET Outpoints : SumAmounts(S) \in Nat
  BY SatoshisFinite, FS_CardinalityType DEF SumAmounts
<1>3. ASSUME NEW S \in SUBSET Outpoints, NEW T \in SUBSET Outpoints, S \cap T = {}
      PROVE  SumAmounts(S \cup T) = SumAmounts(S) + SumAmounts(T)
  <2> DEFINE A == Satoshis(S)
             B == Satoshis(T)
  <2>1. IsFiniteSet(A) /\ IsFiniteSet(B)
    BY SatoshisFinite
  <2>2. Satoshis(S \cup T) = A \cup B
    BY DEF Satoshis
  <2>3. A \cap B = {}
    <3> SUFFICES ASSUME NEW x \in A, x \in B PROVE FALSE
      OBVIOUS
    <3>1. PICK o \in S : x \in {o} \X (1..Outputs[o[1]][o[2]].amount)
      BY DEF Satoshis
    <3>2. PICK p \in T : x \in {p} \X (1..Outputs[p[1]][p[2]].amount)
      BY DEF Satoshis
    <3>3. x[1] = o /\ x[1] = p
      BY <3>1, <3>2
    <3>4. QED
      BY <1>3, <3>3
  <2> HIDE DEF A, B
  <2>4. Cardinality(A \cup B) = Cardinality(A) + Cardinality(B) - Cardinality(A \cap B)
    BY <2>1, FS_Union
  <2>5. Cardinality(A \cap B) = 0 /\ Cardinality(A) \in Nat /\ Cardinality(B) \in Nat
    BY <2>1, <2>3, FS_EmptySet, FS_CardinalityType
  <2>6. Cardinality(A \cup B) = Cardinality(A) + Cardinality(B)
    BY <2>4, <2>5
  <2>7. QED
    BY <2>2, <2>6 DEF SumAmounts, A, B
<1>4. QED
  BY <1>1, <1>2, <1>3

\* BRWalletNew establishes AmountInv.
LEMMA InitAmountInv == Init => AmountInv
<1> SUFFICES ASSUME Init PROVE AmountInv
  OBVIOUS
<1>1. /\ bal = [i |-> 0, balance |-> 0, prevBalance |-> 0] /\ cache = EmptyCache
      /\ balance = 0 /\ shown = 0 /\ transactions = <<>>
  BY DEF Init, NoBalance
<1>2. /\ cache.utxos = {} /\ cache.spentOutputs = {} /\ cache.usedPKH = {}
      /\ cache.totalSent = 0 /\ cache.totalReceived = 0 /\ cache.balanceHist = <<>>
  BY <1>1 DEF EmptyCache
<1>3. AmountsOK
  BY <1>1, <1>2 DEF AmountsOK
<1>4. UtxosAreOutputs
  BY <1>2 DEF UtxosAreOutputs
<1>5. BalanceSoFar
  <2>1. SumAmounts(cache.utxos) = 0
    BY <1>2, SumProperties
  <2>2. QED
    BY <1>1, <1>2, <2>1 DEF BalanceSoFar, BalanceOfDone
<1>6. QED
  BY <1>3, <1>4, <1>5 DEF AmountInv

\* Entering _BRWalletUpdateBalance.
LEMMA BeginBalanceAmountInv ==
    ASSUME AmountInv, NEW th, BeginBalance(th), UNCHANGED <<balance, shown>>
    PROVE  AmountInv'
<1>1. bal' = [i |-> 1, balance |-> 0, prevBalance |-> 0] /\ cache' = EmptyCache
  BY DEF BeginBalance, NoBalance
<1>2. /\ cache'.utxos = {} /\ cache'.spentOutputs = {} /\ cache'.usedPKH = {}
      /\ cache'.totalSent = 0 /\ cache'.totalReceived = 0 /\ cache'.balanceHist = <<>>
  BY <1>1 DEF EmptyCache
<1>3. AmountsOK'
  BY <1>1, <1>2 DEF AmountInv, AmountsOK
<1>4. UtxosAreOutputs'
  BY <1>2 DEF UtxosAreOutputs
<1>5. BalanceSoFar'
  <2>1. SumAmounts(cache'.utxos) = 0
    BY <1>2, SumProperties
  <2>2. QED
    BY <1>1, <1>2, <2>1 DEF BalanceSoFar, BalanceOfDone
<1>6. QED
  BY <1>3, <1>4, <1>5 DEF AmountInv

\* A step that leaves the caches and the balance alone and at most reorders the
\* list.
LEMMA AmountInvUnchanged ==
    ASSUME AmountInv, UNCHANGED <<cache, bal, balance>>, shown' \in Nat,
           Listed' = Listed, Len(transactions') = Len(transactions),
           bal.i # 0 => transactions' = transactions
    PROVE  AmountInv'
<1>1. Done' = Done
  BY DEF Done
<1>2. AmountsOK' /\ UtxosAreOutputs'
  BY <1>1 DEF AmountInv, AmountsOK, UtxosAreOutputs
<1>3. BalanceSoFar'
  BY DEF AmountInv, BalanceSoFar, BalanceOfDone
<1>4. QED
  BY <1>2, <1>3 DEF AmountInv

\* One iteration of _BRWalletUpdateBalance.  A counted transaction adds its own
\* outputs, none of which was counted before since it is listed once, and takes
\* off what the spent set has of all of them.
LEMMA BalanceStepKeepsAmountInv ==
    ListInv /\ CacheInv /\ AmountInv /\ BalanceStep => AmountInv'
<1> SUFFICES ASSUME ListInv, CacheInv, AmountInv, BalanceStep PROVE AmountInv'
  OBVIOUS
<1> DEFINE t == transactions[bal.i]
<1>1. /\ UNCHANGED <<transactions, balance, shown>>
      /\ bal.i \in 1..Len(transactions)
      /\ BalanceSkipInvalid(t) \/ BalanceSkipPending(t) \/ BalanceCount(t)
      /\ chain \in [Chain -> Nat]
  BY DEF BalanceStep, listVars, appVars, ListInv, ListTypeOK
<1>2. Len(transactions) \in Nat /\ \A i \in 1..Len(transactions) : transactions[i] \in Tx
  BY LenProperties, ElementOfSeq DEF ListInv, ListTypeOK
<1>3. /\ bal = [i |-> bal.i, balance |-> bal.balance, prevBalance |-> bal.prevBalance]
      /\ DOMAIN cache = {"utxos", "balanceHist", "spentOutputs", "invalidTx",
                         "pendingTx", "usedPKH", "totalSent", "totalReceived"}
  BY DEF CacheInv, LocalsOK
<1>4. /\ t \in Tx /\ t \notin Done /\ Done = {transactions[i] : i \in 1..(bal.i - 1)}
      /\ Inputs[t] \subseteq (Tx \cup {Foreign}) \X Nat
  <2>1. Done = {transactions[i] : i \in 1..(bal.i - 1)}
    BY <1>1, <1>2 DEF Done
  <2>2. \A i \in 1..(bal.i - 1) : i \in 1..Len(transactions) /\ i # bal.i
    BY <1>1, <1>2
  <2>3. t \notin Done
    BY <1>1, <2>1, <2>2 DEF ListInv, ListedAreRegistered
  <2>4. QED
    BY <1>1, <1>2, <2>1, <2>3, ConstantAssumption
<1>5. ASSUME bal'.i = bal.i + 1 PROVE Done \cup {t} \subseteq Done'
  <2>1. Done' = {transactions[i] : i \in 1..bal.i}
    <3>1. bal'.i # 0 /\ bal'.i - 1 = bal.i
      BY <1>1, <1>2, <1>5
    <3>2. QED
      BY <1>1, <3>1 DEF Done
  <2>2. bal.i \in 1..bal.i /\ \A i \in 1..(bal.i - 1) : i \in 1..bal.i
    BY <1>1, <1>2
  <2>3. QED
    BY <1>4, <2>1, <2>2
<1>6. /\ cache.spentOutputs \subseteq (Tx \cup {Foreign}) \X Nat
      /\ cache.usedPKH \subseteq Chain \X Nat
      /\ cache.totalSent \in Nat /\ cache.totalReceived \in Nat
      /\ balance \in Nat /\ shown \in Nat /\ bal.balance \in Nat
      /\ bal.prevBalance = bal.balance
      /\ cache.balanceHist \in Seq(Nat) /\ Len(cache.balanceHist) = bal.i - 1
      /\ bal.balance = SumAmounts(cache.utxos)
      /\ bal.balance = cache.totalReceived - cache.totalSent
  BY <1>1, <1>2 DEF AmountInv, AmountsOK, BalanceSoFar, BalanceOfDone
<1>7. cache.utxos \subseteq Outpoints /\ \A o \in cache.utxos : o[1] \in Done
  BY DEF AmountInv, UtxosAreOutputs
<1>8. ASSUME NEW b \in Nat
      PROVE  Append(cache.balanceHist, b) \in Seq(Nat) /\ Len(Append(cache.balanceHist, b)) = bal.i
  <2>1. PICK s : s = cache.balanceHist
    OBVIOUS
  <2>2. s \in Seq(Nat) /\ Len(s) = bal.i - 1
    BY <1>6, <2>1
  <2>3. Append(s, b) \in Seq(Nat) /\ Len(Append(s, b)) = Len(s) + 1
    BY <2>2, AppendProperties
  <2>4. QED
    BY <1>1, <1>2, <2>1, <2>2, <2>3
<1> HIDE DEF t
<1>9. CASE BalanceSkipInvalid(t) \/ BalanceSkipPending(t)
  <2>1. PICK h : h = Append(cache.balanceHist, bal.balance)
    OBVIOUS
  <2>2. /\ bal' = [bal EXCEPT !.i = @ + 1]
        /\ \/ cache' = [cache EXCEPT !.invalidTx = @ \cup {t}, !.balanceHist = h]
           \/ cache' = [cache EXCEPT !.spentOutputs = @ \cup Inputs[t],
                                     !.pendingTx = @ \cup {t}, !.balanceHist = h]
    BY <1>9, <2>1 DEF BalanceSkipInvalid, BalanceSkipPending
  <2>3. /\ bal'.i = bal.i + 1 /\ bal'.balance = bal.balance /\ bal'.prevBalance = bal.prevBalance
    BY <1>3, <2>2
  <2>4. /\ cache'.spentOutputs \subseteq cache.spentOutputs \cup Inputs[t]
        /\ cache'.usedPKH = cache.usedPKH /\ cache'.totalSent = cache.totalSent
        /\ cache'.totalReceived = cache.totalReceived /\ cache'.utxos = cache.utxos
        /\ cache'.balanceHist = h
    <3>1. CASE cache' = [cache EXCEPT !.invalidTx = @ \cup {t}, !.balanceHist = h]
      BY <1>3, <3>1
    <3>2. CASE cache' = [cache EXCEPT !.spentOutputs = @ \cup Inputs[t],
                                     !.pendingTx = @ \cup {t}, !.balanceHist = h]
      BY <1>3, <3>2
    <3>3. QED
      BY <2>2, <3>1, <3>2
  <2>5. h \in Seq(Nat) /\ Len(h) = bal.i
    BY <1>6, <1>8, <2>1, Zenon
  <2>6. AmountsOK'
    BY <1>1, <1>4, <1>6, <2>3, <2>4, <2>5 DEF AmountsOK
  <2>7. UtxosAreOutputs'
    BY <1>5, <1>7, <2>3, <2>4 DEF UtxosAreOutputs
  <2>8. BalanceSoFar'
    <3>1. bal'.i # 0 /\ bal'.i - 1 = bal.i
      BY <1>1, <1>2, <2>3
    <3>2. BalanceOfDone' = bal.balance
      BY <2>3, <3>1 DEF BalanceOfDone
    <3>3. SumAmounts(cache'.utxos) = bal.balance
      BY <1>6, <2>4
    <3>4. QED
      BY <1>6, <2>3, <2>4, <2>5, <3>1, <3>2, <3>3 DEF BalanceSoFar
  <2>9. QED
    BY <2>6, <2>7, <2>8 DEF AmountInv
<1>10. CASE BalanceCount(t)
  <2> DEFINE own == {<<t, n>> : n \in OwnOutputs(t)}
             spent == cache.spentOutputs \cup Inputs[t]
             utxos == cache.utxos \cup own
             newBal == bal.balance + SumAmounts(own) - SumAmounts(utxos \cap spent)
             used == cache.usedPKH \cup {Outputs[t][n].pkh : n \in OwnOutputs(t)}
             received == IF bal.prevBalance < newBal
                         THEN cache.totalReceived + newBal - bal.prevBalance
                         ELSE cache.totalReceived
             sent == IF newBal < bal.prevBalance
                     THEN cache.totalSent + bal.prevBalance - newBal
                     ELSE cache.totalSent
             hist == Append(cache.balanceHist, newBal)
             left == utxos \ spent
  <2>1. /\ cache' = [cache EXCEPT !.utxos = left, !.spentOutputs = spent, !.usedPKH = used,
                       !.totalReceived = received, !.totalSent = sent, !.balanceHist = hist]
        /\ bal' = [i |-> bal.i + 1, balance |-> newBal, prevBalance |-> newBal]
    BY <1>10, Zenon DEF BalanceCount
  <2>2. own \subseteq Outpoints /\ cache.utxos \cap own = {} /\ \A o \in own : o[1] = t
    <3>1. \A n \in OwnOutputs(t) : n \in 1..Len(Outputs[t])
      BY DEF OwnOutputs
    <3>2. QED
      BY <1>4, <1>7, <3>1 DEF Outpoints
  <2>3. used \subseteq Chain \X Nat
    <3> SUFFICES ASSUME NEW n \in OwnOutputs(t) PROVE Outputs[t][n].pkh \in Chain \X Nat
      BY <1>6
    <3>1. n \in 1..Len(Outputs[t]) /\ Outputs[t][n].pkh # Foreign
      BY DEF OwnOutputs
    <3>2. Outputs[t] \in Seq([pkh : (Chain \X Nat) \cup {Foreign}, amount : Nat])
      BY <1>4, ConstantAssumption
    <3>3. Outputs[t][n] \in [pkh : (Chain \X Nat) \cup {Foreign}, amount : Nat]
      BY <3>1, <3>2, ElementOfSeq
    <3>4. QED
      BY <3>1, <3>3
  <2>4. spent \subseteq (Tx \cup {Foreign}) \X Nat
    BY <1>4, <1>6
  <2>5. /\ left \subseteq Outpoints /\ utxos \cap spent \subseteq Outpoints
        /\ left \cap (utxos \cap spent) = {} /\ left \cup (utxos \cap spent) = utxos
        /\ left \subseteq cache.utxos \cup own
    BY <1>7, <2>2
  <2> HIDE DEF own, spent, used, left
  <2>6. /\ SumAmounts(cache.utxos \cup own) = SumAmounts(cache.utxos) + SumAmounts(own)
        /\ SumAmounts(left) \in Nat /\ SumAmounts(utxos \cap spent) \in Nat
        /\ SumAmounts(cache.utxos) \in Nat /\ SumAmounts(own) \in Nat
    BY <1>7, <2>2, <2>5, SumProperties
  <2>7. SumAmounts(utxos) = SumAmounts(left) + SumAmounts(utxos \cap spent)
    <3> HIDE DEF utxos
    <3>1. SumAmounts(left \cup (utxos \cap spent)) = SumAmounts(left) + SumAmounts(utxos \cap spent)
      BY <2>5, SumProperties
    <3>2. QED
      BY <2>5, <3>1, Zenon
  <2>8. newBal = SumAmounts(left) /\ newBal \in Nat
    BY <1>6, <2>6, <2>7
  <2> HIDE DEF newBal, utxos
  <2>9. received \in Nat /\ sent \in Nat /\ newBal = received - sent
    BY <1>6, <2>8
  <2>10. hist \in Seq(Nat) /\ Len(hist) = bal.i
    BY <1>8, <2>8
  <2> HIDE DEF received, sent, hist
  <2>11. bal'.i = bal.i + 1 /\ bal'.balance = newBal /\ bal'.prevBalance = newBal
    BY <2>1
  <2>12. /\ cache'.utxos = left /\ cache'.spentOutputs = spent /\ cache'.usedPKH = used
         /\ cache'.totalReceived = received /\ cache'.totalSent = sent
         /\ cache'.balanceHist = hist
    BY <1>3, <2>1
  <2>13. AmountsOK'
    BY <1>1, <1>6, <2>3, <2>4, <2>8, <2>9, <2>10, <2>11, <2>12 DEF AmountsOK
  <2>14. UtxosAreOutputs'
    BY <1>5, <1>7, <2>2, <2>5, <2>11, <2>12 DEF UtxosAreOutputs
  <2>15. BalanceSoFar'
    <3>1. bal'.i # 0 /\ bal'.i - 1 = bal.i
      BY <1>1, <1>2, <2>11
    <3>2. BalanceOfDone' = newBal
      BY <2>11, <3>1 DEF BalanceOfDone
    <3>3. SumAmounts(cache'.utxos) = newBal
      BY <2>8, <2>12
    <3>4. QED
      BY <2>9, <2>10, <2>11, <2>12, <3>1, <3>2, <3>3 DEF BalanceSoFar
  <2>16. QED
    BY <2>13, <2>14, <2>15 DEF AmountInv
<1>11. QED
  BY <1>1, <1>9, <1>10

\* The end of _BRWalletUpdateBalance: wallet->balance becomes the sum.
LEMMA BalanceDoneKeepsAmountInv ==
    ListInv /\ AmountInv /\ BalanceDone => AmountInv'
<1> SUFFICES ASSUME ListInv, AmountInv, BalanceDone PROVE AmountInv'
  OBVIOUS
<1>1. /\ UNCHANGED <<transactions, cache, shown>>
      /\ bal.i = Len(transactions) + 1 /\ Len(transactions) \in Nat
      /\ bal' = [i |-> 0, balance |-> 0, prevBalance |-> 0] /\ balance' = bal.balance
  BY LenProperties DEF BalanceDone, listVars, appVars, NoBalance, ListInv, ListTypeOK
<1>2. Done' = Done
  BY <1>1 DEF Done, Listed
<1>3. AmountsOK' /\ UtxosAreOutputs'
  BY <1>1, <1>2 DEF AmountInv, AmountsOK, UtxosAreOutputs
<1>4. BalanceSoFar'
  BY <1>1 DEF AmountInv, BalanceSoFar, BalanceOfDone
<1>5. QED
  BY <1>3, <1>4 DEF AmountInv

\* Every step of the wallet preserves AmountInv.
LEMMA NextKeepsAmountInv ==
    ListInv /\ ListInv' /\ CacheInv /\ AmountInv /\ [Next]_vars => AmountInv'
<1> SUFFICES ASSUME ListInv, ListInv', CacheInv, AmountInv, [Next]_vars PROVE AmountInv'
  OBVIOUS
<1>0. shown \in Nat /\ balance \in Nat
  BY DEF AmountInv, AmountsOK
<1>1. ASSUME UNCHANGED <<transactions, cache, bal, balance>>, shown' \in Nat PROVE AmountInv'
  <2>1. Listed' = Listed
    BY <1>1 DEF Listed
  <2>2. QED
    BY <1>1, <2>1, AmountInvUnchanged
<1>2. CASE UpdateStep
  <2>1. UNCHANGED <<cache, bal, balance, shown>> /\ bal.i = 0
    BY <1>2 DEF UpdateStep, UpdateLooping, appVars
  <2>2. Listed' = Listed
    <3>1. upd.todo \in Seq(Tx) /\ upd.todo # <<>>
      BY <1>2 DEF UpdateStep, ListInv, ListTypeOK
    <3>2. Head(upd.todo) \in Tx
      BY <3>1, HeadTailProperties
    <3>3. CASE UpdateSkip(Head(upd.todo))
      BY <3>3 DEF UpdateSkip, Listed
    <3>4. CASE UpdateSet(Head(upd.todo))
      BY <3>1, <3>2, <3>4, UpdateSetEffect
    <3>5. QED
      BY <1>2, <3>3, <3>4 DEF UpdateStep
  <2>3. Cardinality(Listed) = Len(transactions)
    BY LengthOfDistinct DEF ListInv, ListTypeOK, ListedAreRegistered, Listed
  <2>4. Cardinality(Listed') = Len(transactions')
    <3>1. /\ transactions' \in Seq(Tx)
          /\ \A i, j \in 1..Len(transactions') : transactions'[i] = transactions'[j] => i = j
      BY DEF ListInv, ListTypeOK, ListedAreRegistered
    <3>2. Listed' = {transactions'[i] : i \in 1..Len(transactions')}
      BY DEF Listed
    <3>3. QED
      BY <3>1, <3>2, LengthOfDistinct
  <2>5. QED
    BY <1>0, <2>1, <2>2, <2>3, <2>4, AmountInvUnchanged
<1>3. CASE UpdateDone
  <2>1. UNCHANGED <<transactions, balance, shown>>
    BY <1>3 DEF UpdateDone, listVars, appVars
  <2>2. BeginBalance(lock) \/ UNCHANGED <<cache, bal>>
    BY <1>3 DEF UpdateDone
  <2>3. QED
    BY <1>0, <1>1, <2>1, <2>2, BeginBalanceAmountInv
<1>4. CASE BalanceStep
  BY <1>4, BalanceStepKeepsAmountInv
<1>5. CASE BalanceDone
  BY <1>5, BalanceDoneKeepsAmountInv
<1>6. CASE Tick \/ UNCHANGED vars
  BY <1>0, <1>1, <1>6 DEF Tick, vars, listVars, lockVars, appVars
<1>7. ASSUME NEW th \in Thread, Call(th) PROVE AmountInv'
  <2>1. /\ UNCHANGED <<balance, shown>>
        /\ BeginBalance(th) \/ UNCHANGED <<transactions, cache, bal>>
    <3>1. ASSUME NEW t \in Tx, RegisterTransaction(th, t)
          PROVE  /\ UNCHANGED <<balance, shown>>
                 /\ BeginBalance(th) \/ UNCHANGED <<transactions, cache, bal>>
      BY <3>1 DEF RegisterTransaction, appVars
    <3>2. ASSUME NEW h, SetTxUnconfirmedAfter(th, h)
          PROVE  /\ UNCHANGED <<balance, shown>>
                 /\ BeginBalance(th) \/ UNCHANGED <<transactions, cache, bal>>
      BY <3>2 DEF SetTxUnconfirmedAfter, appVars
    <3>3. ASSUME NEW hashes, NEW h, NEW ts, UpdateTransactions(th, hashes, h, ts)
          PROVE  UNCHANGED <<balance, shown, transactions, cache, bal>>
      BY <3>3 DEF UpdateTransactions, appVars
    <3>4. ASSUME NEW t, RemoveTransaction(th, t)
          PROVE  UNCHANGED <<balance, shown, transactions, cache, bal>>
      BY <3>4 DEF RemoveTransaction, appVars, listVars, lockVars
    <3>5. ASSUME NEW c, NEW gap, RequestAddrs(th, c, gap)
          PROVE  UNCHANGED <<balance, shown, transactions, cache, bal>>
      BY <3>5 DEF RequestAddrs, appVars, listVars, lockVars
    <3>6. QED
      BY <1>7, <3>1, <3>2, <3>3, <3>4, <3>5 DEF Call
  <2>2. QED
    BY <1>0, <1>1, <2>1, BeginBalanceAmountInv
<1>8. ASSUME NEW th \in Thread, Continue(th) PROVE AmountInv'
  <2>1. CASE RemoveListed(th)
    <3>1. BeginBalance(th) /\ UNCHANGED <<balance, shown>>
      BY <2>1 DEF RemoveListed, appVars
    <3>2. QED
      BY <3>1, BeginBalanceAmountInv
  <2>2. CASE BalanceChanged(th)
    BY <1>0, <1>1, <2>2 DEF BalanceChanged, listVars, lockVars
  <2>3. CASE NewAddrs(th) \/ RemoveDependents(th) \/ TxAdded(th)
             \/ TxUpdated(th) \/ TxDeleted(th) \/ RegisterReturns(th)
    <3>1. UNCHANGED <<transactions, cache, bal, balance, shown>>
      BY <2>3 DEF NewAddrs, RemoveDependents, TxAdded, TxUpdated, TxDeleted, RegisterReturns,
                  listVars, lockVars, appVars
    <3>2. QED
      BY <1>0, <1>1, <3>1
  <2>4. QED
    BY <1>8, <2>1, <2>2, <2>3 DEF Continue
<1>9. QED
  BY <1>2, <1>3, <1>4, <1>5, <1>6, <1>7, <1>8 DEF Next, Locked

\* AmountInv holds in every reachable state, for all constants.
THEOREM AmountInvariance == Spec => []AmountInv
BY InitAmountInv, NextKeepsAmountInv, ListInvariance, CacheInvariance, PTL DEF Spec

\* Whenever the lock is free wallet->balance is what wallet->utxos are worth and
\* what was received less what was sent, with one history entry per transaction.
THEOREM BalanceIsSum == Spec => []BalanceAddsUp
<1>1. ListInv /\ AmountInv => BalanceAddsUp
  BY DEF ListInv, OneLoop, AmountInv, BalanceSoFar, BalanceOfDone, BalanceAddsUp
<1>2. QED
  BY <1>1, ListInvariance, AmountInvariance, PTL

-----------------------------------------------------------------------------
(* What the threads have left to do, and the wallet manager's files. *)

CallFrame ==
    [op : {"remove", "added", "deleted"}, tx : Tx]
      \cup [op : {"registered"}, tx : Tx, r : BOOLEAN]
      \cup [op : {"updated"}, txs : SUBSET Tx]
      \cup [op : {"addrs"}, chain : Chain]
      \cup [op : {"balance"}]

\* a transaction being removed stays registered, since it is the wallet's, and one
\* that has been removed is never listed again
FrameHolds(f) ==
    /\ f.op \in {"remove", "deleted"} => f.tx \in allTx /\ ContainsTx(f.tx)
    /\ f.op = "deleted" => f.tx \notin Listed

\* a thread in the loop of BRWalletUpdateTransactions has nothing else to do
LoopsAlone == UpdateLooping => calls[lock] = <<>>

FramesInv ==
    /\ calls \in [Thread -> Seq(CallFrame)]
    /\ stored \subseteq Tx
    /\ LoopsAlone
    /\ \A th \in Thread : \A f \in Elems(calls[th]) : FrameHolds(f)
    /\ \A t \in Listed : t \in stored \/ \E th \in Thread : Frame("added", t) \in Elems(calls[th])

\* A registered transaction of the wallet stays registered and the wallet's, and
\* a registered one that is not listed never gets listed.
LEMMA RegisteredKept ==
    ASSUME ListInv, [Next]_vars, NEW t \in allTx
    PROVE  /\ ContainsTx(t) => t \in allTx' /\ ContainsTx(t)'
           /\ t \notin Listed => t \notin Listed'
<1>0. /\ allTx \subseteq Tx /\ chain \in [Chain -> Nat] /\ transactions \in Seq(Tx)
      /\ height \in [Tx -> Nat]
      /\ SortedOn(height, transactions) /\ NoDuplicates(transactions)
      /\ Listed = Elems(transactions) /\ Listed' = Elems(transactions')
  BY ListedAsSequence, ListedAsSequenceNext DEF ListInv, ListTypeOK
<1>1. chain' \in [Chain -> Nat] /\ \A c \in Chain : chain[c] <= chain'[c]
  <2>1. CASE chain' = chain
    BY <1>0, <2>1
  <2>2. CASE chain' # chain
    <3>1. PICK c, gap : UnusedAddrs(c, gap) /\ (c \in Chain => gap \in Nat)
      <4>1. ASSUME NEW th \in Thread, NewAddrs(th)
            PROVE  \E c, gap : UnusedAddrs(c, gap) /\ (c \in Chain => gap \in Nat)
        <5>1. PICK c : UnusedAddrs(c, GapLimit[c])
          BY <4>1 DEF NewAddrs
        <5>2. c \in Chain => GapLimit[c] \in Nat
          BY ConstantAssumption
        <5>3. QED
          BY <5>1, <5>2
      <4>2. ASSUME NEW th \in Thread, NEW c \in Chain, RequestAddrs(th, c, GapLimit[c] + ExtraGap)
            PROVE  \E d, gap : UnusedAddrs(d, gap) /\ (d \in Chain => gap \in Nat)
        <5>1. UnusedAddrs(c, GapLimit[c] + ExtraGap)
          BY <4>2 DEF RequestAddrs
        <5>2. GapLimit[c] + ExtraGap \in Nat
          BY ConstantAssumption
        <5>3. QED
          BY <5>1, <5>2
      <4>3. CASE Locked \/ Tick \/ UNCHANGED vars
        BY <2>2, <4>3 DEF Locked, UpdateStep, UpdateDone, BalanceStep, BalanceDone, Tick, vars
      <4>4. ASSUME NEW th \in Thread, Call(th)
            PROVE  \E c \in Chain : RequestAddrs(th, c, GapLimit[c] + ExtraGap)
        BY <2>2, <4>4 DEF Call, RegisterTransaction, RemoveTransaction, UpdateTransactions,
                          SetTxUnconfirmedAfter
      <4>5. ASSUME NEW th \in Thread, Continue(th) PROVE NewAddrs(th)
        BY <2>2, <4>5 DEF Continue, RemoveDependents, RemoveListed, BalanceChanged, TxAdded,
                          TxUpdated, TxDeleted, RegisterReturns
      <4>6. QED
        BY <4>1, <4>2, <4>3, <4>4, <4>5 DEF Next
    <3>2. QED
      BY <1>0, <3>1, UnusedAddrsGrows
  <2>3. QED
    BY <2>1, <2>2
<1>2. ASSUME UpdateStep
      PROVE  Listed' = Listed /\ \A u \in allTx \ allTx' : ~ContainsTx(u)
  <2>1. upd.todo \in Seq(Tx) /\ upd.todo # <<>>
    BY <1>2 DEF UpdateStep, ListInv, ListTypeOK
  <2>2. Head(upd.todo) \in Tx
    BY <2>1, HeadTailProperties
  <2>3. CASE UpdateSkip(Head(upd.todo))
    BY <2>3 DEF UpdateSkip, Listed
  <2>4. CASE UpdateSet(Head(upd.todo))
    BY <2>1, <2>2, <2>4, UpdateSetEffect
  <2>5. QED
    BY <1>2, <2>3, <2>4 DEF UpdateStep
<1>3. ASSUME NEW th \in Thread, NEW u \in Tx, RegisterTransaction(th, u)
      PROVE  allTx \subseteq allTx' /\ Listed' \cap allTx \subseteq Listed
  <2>1. allTx \subseteq allTx'
    BY <1>3 DEF RegisterTransaction
  <2>2. \/ transactions' = transactions
        \/ transactions' = InsertTx(height, allTx', transactions, u) /\ u \notin allTx
    BY <1>3 DEF RegisterTransaction
  <2>3. Elems(InsertTx(height, allTx', transactions, u)) = Elems(transactions) \cup {u}
    BY <1>0, InsertTxProperties
  <2>4. QED
    BY <1>0, <2>1, <2>2, <2>3
<1>4. /\ \A u \in allTx \ allTx' : ~ContainsTx(u)
      /\ Listed' \cap allTx \subseteq Listed
  <2>1. CASE Locked
    BY <1>2, <2>1 DEF Locked, UpdateDone, BalanceStep, BalanceDone, listVars, Listed
  <2>2. CASE Tick \/ UNCHANGED vars
    BY <2>2 DEF Tick, vars, listVars, Listed
  <2>3. ASSUME NEW th \in Thread, Call(th)
        PROVE  allTx \subseteq allTx' /\ Listed' \cap allTx \subseteq Listed
    <3>1. CASE \E u \in Tx : RegisterTransaction(th, u)
      BY <1>3, <3>1
    <3>2. CASE ~\E u \in Tx : RegisterTransaction(th, u)
      <4>1. UNCHANGED <<allTx, transactions>>
        BY <2>3, <3>2 DEF Call, RemoveTransaction, UpdateTransactions, SetTxUnconfirmedAfter,
                          RequestAddrs, listVars
      <4>2. QED
        BY <1>0, <4>1
    <3>3. QED
      BY <3>1, <3>2
  <2>4. ASSUME NEW th \in Thread, Continue(th)
        PROVE  allTx' = allTx /\ Listed' \subseteq Listed
    <3>1. CASE RemoveListed(th)
      <4>1. allTx' = allTx
        BY <3>1 DEF RemoveListed
      <4>2. PICK u \in allTx : transactions' = RemoveTx(transactions, u)
        BY <3>1 DEF RemoveListed
      <4>3. u \in Tx
        BY <1>0
      <4>4. Elems(RemoveTx(transactions, u)) = Elems(transactions) \ {u}
        BY <1>0, <4>3, RemoveTxProperties, Zenon
      <4>5. QED
        BY <1>0, <4>1, <4>2, <4>4
    <3>2. CASE ~RemoveListed(th)
      <4>1. UNCHANGED <<allTx, transactions>>
        BY <2>4, <3>2 DEF Continue, RemoveDependents, NewAddrs, BalanceChanged, TxAdded,
                          TxUpdated, TxDeleted, RegisterReturns, listVars
      <4>2. QED
        BY <1>0, <4>1
    <3>3. QED
      BY <3>1, <3>2
  <2>5. QED
    BY <2>1, <2>2, <2>3, <2>4 DEF Next
<1>5. ContainsTx(t) => t \in allTx'
  BY <1>4
<1>6. ContainsTx(t) => ContainsTx(t)'
  BY <1>0, <1>1, <1>4, ContainsTxKept
<1>7. QED
  BY <1>4, <1>5, <1>6

\* The frames of the calls.
LEMMA FrameTypes ==
    /\ \A t \in Tx : /\ Frame("remove", t) \in CallFrame /\ Frame("added", t) \in CallFrame
                     /\ Frame("deleted", t) \in CallFrame
    /\ \A t \in Tx : \A r \in BOOLEAN : [op |-> "registered", tx |-> t, r |-> r] \in CallFrame
    /\ \A txs \in SUBSET Tx : [op |-> "updated", txs |-> txs] \in CallFrame
    /\ \A c \in Chain : [op |-> "addrs", chain |-> c] \in CallFrame
    /\ [op |-> "balance"] \in CallFrame
<1>1. \A t \in Tx : /\ Frame("remove", t) \in CallFrame /\ Frame("added", t) \in CallFrame
                    /\ Frame("deleted", t) \in CallFrame
  BY DEF Frame, CallFrame
<1>2. \A t \in Tx : \A r \in BOOLEAN : [op |-> "registered", tx |-> t, r |-> r] \in CallFrame
  BY DEF CallFrame
<1>3. \A txs \in SUBSET Tx : [op |-> "updated", txs |-> txs] \in CallFrame
  BY DEF CallFrame
<1>4. \A c \in Chain : [op |-> "addrs", chain |-> c] \in CallFrame
  BY DEF CallFrame
<1>5. [op |-> "balance"] \in CallFrame
  BY DEF CallFrame
<1>6. QED
  BY <1>1, <1>2, <1>3, <1>4, <1>5

\* A step that replaces part of one thread's stack by frames that hold, drops no
\* txAdded callback before it has run, lists nothing without one, and takes no
\* listed transaction out of the files.
LEMMA FramesStep ==
    ASSUME ListInv, FramesInv, [Next]_vars, NEW th \in Thread,
           NEW new \in Seq(CallFrame), NEW rest \in Seq(CallFrame),
           calls' = [calls EXCEPT ![th] = new \o rest],
           Elems(rest) \subseteq Elems(calls[th]),
           \A f \in Elems(calls[th]) \ Elems(rest) : f.op = "added" => f.tx \in stored',
           \A f \in Elems(new) : FrameHolds(f)',
           \A t \in Listed' \ Listed : Frame("added", t) \in Elems(new),
           stored' \subseteq Tx, \A t \in stored \ stored' : t \notin Listed',
           LoopsAlone'
    PROVE  FramesInv'
<1>0. calls \in [Thread -> Seq(CallFrame)]
  BY DEF FramesInv
<1>1. new \o rest \in Seq(CallFrame) /\ Elems(new \o rest) = Elems(new) \cup Elems(rest)
  BY ElemsOfConcat
<1>2. PICK s : s = new \o rest
  OBVIOUS
<1>3. s \in Seq(CallFrame) /\ Elems(s) = Elems(new) \cup Elems(rest)
  BY <1>1, <1>2
<1>4. /\ calls' \in [Thread -> Seq(CallFrame)] /\ calls'[th] = s
      /\ \A u \in Thread \ {th} : calls'[u] = calls[u]
  <2>1. calls' = [calls EXCEPT ![th] = s]
    BY <1>2
  <2>2. QED
    BY <1>0, <1>3, <2>1
<1>5. ASSUME NEW u \in Thread, NEW f \in Elems(calls[u]) PROVE FrameHolds(f)'
  <2>1. FrameHolds(f)
    BY DEF FramesInv
  <2>2. QED
    BY <2>1, RegisteredKept DEF FrameHolds
<1>6. \A u \in Thread : \A f \in Elems(calls'[u]) : FrameHolds(f)'
  <2> SUFFICES ASSUME NEW u \in Thread, NEW f \in Elems(calls'[u]) PROVE FrameHolds(f)'
    OBVIOUS
  <2>1. CASE u = th
    BY <1>3, <1>4, <1>5, <2>1
  <2>2. CASE u # th
    BY <1>4, <1>5, <2>2
  <2>3. QED
    BY <2>1, <2>2
<1>7. ASSUME NEW t \in Listed'
      PROVE  t \in stored' \/ \E u \in Thread : Frame("added", t) \in Elems(calls'[u])
  <2>1. CASE t \notin Listed
    BY <1>3, <1>4, <2>1
  <2>2. CASE t \in Listed /\ t \in stored
    BY <1>7, <2>2
  <2>3. CASE t \in Listed /\ t \notin stored
    <3>1. PICK u \in Thread : Frame("added", t) \in Elems(calls[u])
      BY <2>3 DEF FramesInv
    <3>2. CASE u # th
      BY <1>4, <3>1, <3>2
    <3>3. CASE u = th /\ Frame("added", t) \in Elems(rest)
      BY <1>3, <1>4, <3>3
    <3>4. CASE u = th /\ Frame("added", t) \notin Elems(rest)
      <4>1. Frame("added", t).op = "added" /\ Frame("added", t).tx = t
        BY DEF Frame
      <4>2. QED
        BY <3>1, <3>4, <4>1
    <3>5. QED
      BY <3>2, <3>3, <3>4
  <2>4. QED
    BY <2>1, <2>2, <2>3
<1>8. QED
  BY <1>4, <1>6, <1>7 DEF FramesInv

\* A thread that runs the loop of BRWalletUpdateTransactions is inside its call,
\* with no frame of its own; the others leave its stack alone.
LEMMA LoopsAloneKept ==
    ASSUME ListInv, CacheInv, FramesInv, [Next]_vars
    PROVE  LoopsAlone'
<1>0. calls \in [Thread -> Seq(CallFrame)] /\ LoopsAlone
  BY DEF FramesInv
<1>1. ASSUME UNCHANGED <<lock, bal, calls>> PROVE LoopsAlone'
  BY <1>0, <1>1 DEF LoopsAlone, UpdateLooping
<1>2. ASSUME lock' = Free \/ bal'.i # 0 PROVE LoopsAlone'
  BY <1>2 DEF LoopsAlone, UpdateLooping
<1>3. ASSUME NEW th, BeginBalance(th) PROVE LoopsAlone'
  BY <1>2, <1>3 DEF BeginBalance, NoBalance
<1>4. CASE BalanceStep
  <2>1. bal = [i |-> bal.i, balance |-> bal.balance, prevBalance |-> bal.prevBalance]
    BY DEF CacheInv, LocalsOK
  <2>2. \/ bal' = [bal EXCEPT !.i = @ + 1]
        \/ \E b : bal' = [i |-> bal.i + 1, balance |-> b, prevBalance |-> b]
    BY <1>4, Zenon DEF BalanceStep, BalanceSkipInvalid, BalanceSkipPending, BalanceCount
  <2>3. bal'.i = bal.i + 1
    BY <2>1, <2>2
  <2>4. bal.i \in 1..Len(transactions) /\ Len(transactions) \in Nat
    BY <1>4, LenProperties DEF BalanceStep, ListInv, ListTypeOK
  <2>5. QED
    BY <1>2, <2>3, <2>4
<1>5. CASE Locked
  BY <1>1, <1>2, <1>3, <1>4, <1>5 DEF Locked, UpdateStep, UpdateDone, BalanceDone
<1>6. CASE Tick \/ UNCHANGED vars
  BY <1>1, <1>6 DEF Tick, vars, lockVars
<1>7. ASSUME NEW th \in Thread, Call(th) PROVE LoopsAlone'
  <2>1. CASE \E hashes, h, ts : UpdateTransactions(th, hashes, h, ts)
    BY <2>1 DEF UpdateTransactions, Idle, LoopsAlone
  <2>2. CASE ~\E hashes, h, ts : UpdateTransactions(th, hashes, h, ts)
    <3>1. BeginBalance(th) \/ lock' = Free
      BY <1>7, <2>2 DEF Call, RegisterTransaction, RemoveTransaction, SetTxUnconfirmedAfter,
                        RequestAddrs, Idle, lockVars
    <3>2. QED
      BY <1>2, <1>3, <3>1
  <2>3. QED
    BY <2>1, <2>2
<1>8. ASSUME NEW th \in Thread, Continue(th) PROVE LoopsAlone'
  <2>1. CASE RemoveListed(th)
    BY <1>3, <2>1 DEF RemoveListed
  <2>2. CASE ~RemoveListed(th)
    <3>1. UNCHANGED <<lock, bal>> /\ calls[th] # <<>>
      BY <1>8, <2>2 DEF Continue, RemoveDependents, NewAddrs, BalanceChanged, TxAdded, TxUpdated,
                        TxDeleted, RegisterReturns, lockVars, Top
    <3>2. \E s : calls' = [calls EXCEPT ![th] = s]
      BY <1>8, <2>2, Zenon DEF Continue, RemoveDependents, NewAddrs, BalanceChanged, TxAdded,
                        TxUpdated, TxDeleted, RegisterReturns, Return
    <3>3. UpdateLooping => lock \in Thread /\ lock # th
      BY <1>0, <3>1 DEF LoopsAlone, UpdateLooping, ListInv, ListTypeOK
    <3>4. QED
      BY <1>0, <3>1, <3>2, <3>3 DEF LoopsAlone, UpdateLooping
  <2>3. QED
    BY <2>1, <2>2
<1>9. QED
  BY <1>5, <1>6, <1>7, <1>8 DEF Next

\* A step that leaves the stacks, the list and the files alone.
LEMMA FramesUnchanged ==
    ASSUME ListInv, FramesInv, [Next]_vars, UNCHANGED <<calls, stored>>, Listed' = Listed,
           LoopsAlone'
    PROVE  FramesInv'
<1>1. \A th \in Thread : \A f \in Elems(calls[th]) : FrameHolds(f)'
  BY RegisteredKept DEF FramesInv, FrameHolds
<1>2. QED
  BY <1>1 DEF FramesInv

\* The dependents that BRWalletRemoveTransaction finds are listed.
LEMMA DependentsListed ==
    ASSUME ListInv, NEW t
    PROVE  Dependents(t) \in Seq(Listed)
<1> DEFINE found == {i \in TailAfter(height[t] - 1) :
                       transactions[i] # t /\ t \in Parents(transactions[i])}
<1>1. Len(transactions) \in Nat
  BY LenProperties DEF ListInv, ListTypeOK
<1>2. found \in SUBSET (1..Len(transactions)) /\ Dependents(t) = OldestFirst(found)
  BY DEF TailAfter, Dependents
<1> HIDE DEF found
<1>3. IsFiniteSet(found) /\ found \in SUBSET Nat
  <2>1. IsFiniteSet(1..Len(transactions))
    BY <1>1, FS_Interval
  <2>2. IsFiniteSet(found)
    BY <1>2, <2>1, FS_Subset
  <2>3. QED
    BY <1>1, <1>2, <2>2
<1>4. Cardinality(found) \in Nat
  BY <1>3, FS_CardinalityType
<1> DEFINE at(n) == CHOOSE i \in found : Cardinality({j \in found : j <= i}) = n
<1>5. ASSUME NEW n \in 1..Cardinality(found) PROVE transactions[at(n)] \in Listed
  <2>1. \E i \in found : Cardinality({j \in found : j <= i}) = n
    BY <1>3, RankTaken
  <2>2. at(n) \in found
    BY <2>1
  <2> HIDE DEF at
  <2>3. QED
    BY <1>2, <2>2 DEF Listed
<1>6. OldestFirst(found) = [n \in 1..Cardinality(found) |-> transactions[at(n)]]
  BY DEF OldestFirst
<1> HIDE DEF at
<1>7. OldestFirst(found) \in [1..Cardinality(found) -> Listed]
  BY <1>5, <1>6
<1>8. QED
  BY <1>2, <1>4, <1>7

\* The calls of the peer manager and of the application.
LEMMA CallKeepsFramesInv ==
    ASSUME ListInv, CacheInv, FramesInv, NEW th \in Thread, Call(th)
    PROVE  FramesInv'
<1>0. /\ calls \in [Thread -> Seq(CallFrame)] /\ stored \subseteq Tx
      /\ LoopsAlone' /\ [Next]_vars
  BY LoopsAloneKept DEF FramesInv, Next
<1>1. <<>> \in Seq(CallFrame) /\ Elems(<<>>) = {} /\ stored' = stored
  <2>1. stored' = stored
    BY DEF Call, RegisterTransaction, RemoveTransaction, UpdateTransactions,
           SetTxUnconfirmedAfter, RequestAddrs, appVars
  <2>2. QED
    BY <2>1 DEF Elems
<1>2. ASSUME NEW new \in Seq(CallFrame), calls[th] = <<>>,
             calls' = [calls EXCEPT ![th] = new],
             \A f \in Elems(new) : FrameHolds(f)',
             \A t \in Listed' \ Listed : Frame("added", t) \in Elems(new)
      PROVE  FramesInv'
  <2>1. new \o <<>> = new
    BY ConcatEmptySeq
  <2>2. calls' = [calls EXCEPT ![th] = new \o <<>>]
    BY <1>2, <2>1
  <2>3. Elems(calls[th]) = {}
    BY <1>1, <1>2
  <2>4. QED
    BY <1>0, <1>1, <1>2, <2>2, <2>3, FramesStep
<1>3. ASSUME NEW t \in Tx, NEW r \in BOOLEAN
      PROVE  /\ Registered(t, r) \in Seq(CallFrame)
             /\ \A f \in Elems(Registered(t, r)) : FrameHolds(f)'
  <2>1. PICK f : f = [op |-> "registered", tx |-> t, r |-> r]
    OBVIOUS
  <2>2. f \in CallFrame /\ f.op = "registered" /\ Registered(t, r) = <<f>>
    BY <2>1, FrameTypes DEF Registered
  <2>3. <<f>> \in Seq(CallFrame) /\ Elems(<<f>>) = {f}
    BY <2>2, ElemsOfOne
  <2>4. FrameHolds(f)'
    BY <2>2 DEF FrameHolds
  <2>5. QED
    BY <2>2, <2>3, <2>4
<1>4. ASSUME NEW t \in Tx, RegisterTransaction(th, t) PROVE FramesInv'
  <2>1. calls[th] = <<>>
    BY <1>4 DEF RegisterTransaction, Idle
  <2>2. CASE ~(t \notin allTx /\ ContainsTx(t))
    <3>1. /\ UNCHANGED transactions
          /\ \E r \in BOOLEAN : calls' = [calls EXCEPT ![th] = Registered(t, r)]
      BY <1>4, <2>2 DEF RegisterTransaction
    <3>2. Listed' = Listed
      BY <3>1 DEF Listed
    <3>3. QED
      BY <1>2, <1>3, <2>1, <3>1, <3>2
  <2>3. CASE t \notin allTx /\ ContainsTx(t)
    <3>1. /\ transactions' = InsertTx(height, allTx', transactions, t)
          /\ calls' = [calls EXCEPT ![th] = AddedFrames(t)]
      BY <1>4, <2>3 DEF RegisterTransaction
    <3>2. Listed' = Listed \cup {t}
      <4>1. /\ height \in [Tx -> Nat] /\ transactions \in Seq(Tx)
            /\ SortedOn(height, transactions)
            /\ Listed = Elems(transactions) /\ Listed' = Elems(transactions')
        BY ListedAsSequence, ListedAsSequenceNext DEF ListInv, ListTypeOK
      <4>2. Elems(InsertTx(height, allTx', transactions, t)) = Elems(transactions) \cup {t}
        BY <4>1, InsertTxProperties
      <4>3. QED
        BY <3>1, <4>1, <4>2
    <3>3. PICK a, b, c, d : /\ a = [op |-> "addrs", chain |-> "external"]
                            /\ b = [op |-> "addrs", chain |-> "internal"]
                            /\ c = [op |-> "balance"] /\ d = Frame("added", t)
      OBVIOUS
    <3>4. a \in CallFrame /\ b \in CallFrame /\ c \in CallFrame /\ d \in CallFrame
      BY <3>3, FrameTypes DEF Chain
    <3>5. a.op = "addrs" /\ b.op = "addrs" /\ c.op = "balance" /\ d.op = "added"
      BY <3>3 DEF Frame
    <3>6. <<a, b, c, d>> \in Seq(CallFrame) /\ Elems(<<a, b, c, d>>) = {a, b, c, d}
      BY <3>4 DEF Elems
    <3>7. AddedFrames(t) = <<a, b, c, d>> \o Registered(t, TRUE)
      BY <3>3 DEF AddedFrames
    <3>8. PICK p : p = <<a, b, c, d>>
      OBVIOUS
    <3>9. /\ p \o Registered(t, TRUE) \in Seq(CallFrame)
          /\ Elems(p \o Registered(t, TRUE)) = Elems(p) \cup Elems(Registered(t, TRUE))
      <4>1. p \in Seq(CallFrame)
        BY <3>6, <3>8
      <4>2. PICK q : q = Registered(t, TRUE)
        OBVIOUS
      <4>3. q \in Seq(CallFrame)
        BY <1>3, <4>2
      <4>4. p \o q \in Seq(CallFrame) /\ Elems(p \o q) = Elems(p) \cup Elems(q)
        BY <4>1, <4>3, ElemsOfConcat
      <4>5. QED
        BY <4>2, <4>4
    <3>10. /\ AddedFrames(t) \in Seq(CallFrame)
           /\ Elems(AddedFrames(t)) = {a, b, c, d} \cup Elems(Registered(t, TRUE))
      BY <3>6, <3>7, <3>8, <3>9, Zenon
    <3>11. \A f \in {a, b, c, d} : FrameHolds(f)'
      BY <3>5 DEF FrameHolds
    <3>12. \A f \in Elems(AddedFrames(t)) : FrameHolds(f)'
      BY <1>3, <3>10, <3>11
    <3>13. Frame("added", t) \in Elems(AddedFrames(t))
      BY <3>3, <3>10
    <3>14. QED
      BY <1>2, <2>1, <3>1, <3>2, <3>10, <3>12, <3>13
  <2>4. QED
    BY <2>2, <2>3
<1>5. ASSUME NEW t \in Listed, RemoveTransaction(th, t) PROVE FramesInv'
  <2>1. /\ calls[th] = <<>> /\ calls' = [calls EXCEPT ![th] = <<Frame("remove", t)>>]
        /\ UNCHANGED <<transactions, allTx, chain>>
    BY <1>5 DEF RemoveTransaction, Idle, listVars
  <2>2. t \in Tx /\ t \in allTx /\ ContainsTx(t) /\ Listed' = Listed
    BY <2>1 DEF ListInv, ListTypeOK, ListedAreRegistered, ListedAreOurs, Listed
  <2>3. PICK f : f = Frame("remove", t)
    OBVIOUS
  <2>4. f \in CallFrame /\ f.op = "remove" /\ f.tx = t
    <3>1. f \in CallFrame
      BY <2>2, <2>3, FrameTypes
    <3>2. QED
      BY <2>3, <3>1 DEF Frame
  <2>5. <<f>> \in Seq(CallFrame) /\ Elems(<<f>>) = {f}
    BY <2>4, ElemsOfOne
  <2>6. FrameHolds(f)'
    <3>1. t \in allTx' /\ ContainsTx(t)'
      BY <1>0, <2>2, RegisteredKept
    <3>2. QED
      BY <2>4, <3>1 DEF FrameHolds
  <2>7. QED
    BY <1>2, <2>1, <2>2, <2>3, <2>5, <2>6
<1>6. ASSUME NEW hashes, NEW h, NEW ts, UpdateTransactions(th, hashes, h, ts) PROVE FramesInv'
  <2>1. UNCHANGED <<calls, transactions>>
    BY <1>6 DEF UpdateTransactions
  <2>2. Listed' = Listed
    BY <2>1 DEF Listed
  <2>3. QED
    BY <1>0, <1>1, <2>1, <2>2, FramesUnchanged
<1>7. ASSUME NEW h \in Heights, SetTxUnconfirmedAfter(th, h) PROVE FramesInv'
  <2> DEFINE txs == {transactions[i] : i \in TailAfter(h)}
  <2>1. /\ calls[th] = <<>> /\ calls' = [calls EXCEPT ![th] = UpdatedFrames(txs)]
        /\ transactions' = transactions
    BY <1>7 DEF SetTxUnconfirmedAfter, Idle
  <2>2. txs \in SUBSET Tx
    BY ElementOfSeq DEF ListInv, ListTypeOK, TailAfter
  <2> HIDE DEF txs
  <2>3. UpdatedFrames(txs) \in Seq(CallFrame) /\ \A f \in Elems(UpdatedFrames(txs)) : FrameHolds(f)'
    <3>1. CASE txs = {}
      BY <1>1, <3>1 DEF UpdatedFrames
    <3>2. CASE txs # {}
      <4>1. PICK f : f = [op |-> "updated", txs |-> txs]
        OBVIOUS
      <4>2. f \in CallFrame /\ f.op = "updated" /\ UpdatedFrames(txs) = <<f>>
        BY <2>2, <3>2, <4>1, FrameTypes DEF UpdatedFrames
      <4>3. <<f>> \in Seq(CallFrame) /\ Elems(<<f>>) = {f}
        BY <4>2, ElemsOfOne
      <4>4. QED
        BY <4>2, <4>3 DEF FrameHolds
    <3>3. QED
      BY <3>1, <3>2
  <2>4. Listed' = Listed
    BY <2>1 DEF Listed
  <2>5. QED
    BY <1>2, <2>1, <2>3, <2>4
<1>8. ASSUME NEW c, NEW gap, RequestAddrs(th, c, gap) PROVE FramesInv'
  <2>1. UNCHANGED <<calls, transactions>>
    BY <1>8 DEF RequestAddrs, listVars
  <2>2. Listed' = Listed
    BY <2>1 DEF Listed
  <2>3. QED
    BY <1>0, <1>1, <2>1, <2>2, FramesUnchanged
<1>9. QED
  BY <1>4, <1>5, <1>6, <1>7, <1>8 DEF Call

\* What a call does after it has released the lock: one frame leaves the stack.
LEMMA ContinueKeepsFramesInv ==
    ASSUME ListInv, CacheInv, FramesInv, NEW th \in Thread, Continue(th)
    PROVE  FramesInv'
<1>0. /\ calls \in [Thread -> Seq(CallFrame)] /\ stored \subseteq Tx
      /\ LoopsAlone' /\ [Next]_vars
  BY LoopsAloneKept DEF FramesInv, Next
<1>1. calls[th] # <<>>
  BY DEF Continue, RemoveDependents, RemoveListed, NewAddrs, BalanceChanged, TxAdded, TxUpdated,
         TxDeleted, RegisterReturns, Top
<1>2. PICK f, rest : f = Head(calls[th]) /\ rest = Tail(calls[th])
  OBVIOUS
<1>3. /\ f \in CallFrame /\ rest \in Seq(CallFrame) /\ Elems(calls[th]) = {f} \cup Elems(rest)
      /\ f \in Elems(calls[th])
  <2>1. calls[th] \in Seq(CallFrame)
    BY <1>0
  <2>2. QED
    BY <1>1, <1>2, <2>1, ElemsOfTail
<1>4. FrameHolds(f)
  BY <1>3 DEF FramesInv
<1>5. <<>> \in Seq(CallFrame) /\ Elems(<<>>) = {}
  BY DEF Elems
<1>6. ASSUME NEW new \in Seq(CallFrame), Return(th, new), f.op = "added" => f.tx \in stored',
             \A g \in Elems(new) : FrameHolds(g)', Listed' \subseteq Listed,
             stored' \subseteq Tx, \A t \in stored \ stored' : t \notin Listed'
      PROVE  FramesInv'
  <2>1. calls' = [calls EXCEPT ![th] = new \o rest]
    BY <1>2, <1>6 DEF Return
  <2>2. \A g \in Elems(calls[th]) \ Elems(rest) : g.op = "added" => g.tx \in stored'
    BY <1>3, <1>6
  <2>3. Elems(rest) \subseteq Elems(calls[th])
    BY <1>3
  <2>4. QED
    BY <1>0, <1>3, <1>6, <2>1, <2>2, <2>3, FramesStep
<1>7. CASE NewAddrs(th) \/ BalanceChanged(th) \/ TxAdded(th) \/ TxUpdated(th) \/ TxDeleted(th)
           \/ RegisterReturns(th)
  <2>1. Return(th, <<>>) /\ transactions' = transactions
    BY <1>7 DEF NewAddrs, BalanceChanged, TxAdded, TxUpdated, TxDeleted, RegisterReturns, listVars
  <2>2. Listed' = Listed
    BY <2>1 DEF Listed
  <2>3. /\ f.op = "added" => f.tx \in stored'
        /\ stored' \subseteq Tx /\ \A t \in stored \ stored' : t \notin Listed'
    <3>1. CASE TxAdded(th)
      <4>1. stored' = stored \cup {f.tx} /\ f.op = "added"
        BY <1>2, <3>1 DEF TxAdded, Top
      <4>2. f.tx \in Tx
        BY <1>3, <4>1 DEF CallFrame
      <4>3. QED
        BY <1>0, <4>1, <4>2
    <3>2. CASE TxUpdated(th)
      <4>1. stored' = stored \cup f.txs /\ f.op = "updated"
        BY <1>2, <3>2 DEF TxUpdated, Top
      <4>2. f.txs \in SUBSET Tx
        BY <1>3, <4>1 DEF CallFrame
      <4>3. QED
        BY <1>0, <4>1, <4>2
    <3>3. CASE TxDeleted(th)
      <4>1. stored' = stored \ {f.tx} /\ f.op = "deleted"
        BY <1>2, <3>3 DEF TxDeleted, Top
      <4>2. f.tx \notin Listed
        BY <1>4, <4>1 DEF FrameHolds
      <4>3. QED
        BY <1>0, <2>2, <4>1, <4>2
    <3>4. CASE NewAddrs(th) \/ BalanceChanged(th) \/ RegisterReturns(th)
      <4>1. stored' = stored
        BY <3>4 DEF NewAddrs, BalanceChanged, RegisterReturns, appVars
      <4>2. f.op \in {"addrs", "balance", "registered"}
        BY <1>2, <3>4 DEF NewAddrs, BalanceChanged, RegisterReturns, Top
      <4>3. QED
        BY <1>0, <4>1, <4>2
    <3>5. QED
      BY <1>7, <3>1, <3>2, <3>3, <3>4
  <2>4. QED
    BY <1>5, <1>6, <2>1, <2>2, <2>3
<1>8. CASE RemoveListed(th)
  <2>1. PICK t : t = f.tx
    OBVIOUS
  <2>2. /\ t \in allTx /\ transactions' = RemoveTx(transactions, t)
        /\ Return(th, <<[op |-> "balance"], Frame("deleted", t)>>)
        /\ stored' = stored /\ f.op = "remove"
    BY <1>2, <1>8, <2>1 DEF RemoveListed, appVars, Top
  <2>3. /\ t \in Tx /\ transactions \in Seq(Tx) /\ NoDuplicates(transactions)
        /\ Listed = Elems(transactions) /\ Listed' = Elems(transactions')
    BY <2>2, ListedAsSequence, ListedAsSequenceNext DEF ListInv, ListTypeOK
  <2>4. Elems(RemoveTx(transactions, t)) = Elems(transactions) \ {t}
    BY <2>3, RemoveTxProperties, Zenon
  <2>5. Listed' = Listed \ {t}
    BY <2>2, <2>3, <2>4
  <2>6. PICK a, b : a = [op |-> "balance"] /\ b = Frame("deleted", t)
    OBVIOUS
  <2>7. a \in CallFrame /\ b \in CallFrame
    BY <2>3, <2>6, FrameTypes
  <2>8. a.op = "balance" /\ b.op = "deleted" /\ b.tx = t
    BY <2>6 DEF Frame
  <2>9. <<a, b>> \in Seq(CallFrame) /\ Elems(<<a, b>>) = {a, b}
    BY <2>7 DEF Elems
  <2>10. FrameHolds(a)' /\ FrameHolds(b)'
    <3>1. ContainsTx(t)
      BY <1>4, <2>1, <2>2 DEF FrameHolds
    <3>2. t \in allTx' /\ ContainsTx(t)'
      BY <1>0, <2>2, <3>1, RegisteredKept
    <3>3. QED
      BY <2>5, <2>8, <3>2 DEF FrameHolds
  <2>11. Return(th, <<a, b>>)
    BY <2>2, <2>6
  <2>12. Listed' \subseteq Listed /\ f.op # "added" /\ stored' \subseteq Tx
         /\ \A t_1 \in stored \ stored' : t_1 \notin Listed'
    BY <1>0, <2>2, <2>5
  <2>13. QED
    BY <1>6, <2>9, <2>10, <2>11, <2>12
<1>9. CASE RemoveDependents(th)
  <2>1. PICK t : t = f.tx
    OBVIOUS
  <2>2. PICK deps : deps = Dependents(t)
    OBVIOUS
  <2>3. deps \in Seq(Listed)
    BY <2>2, DependentsListed
  <2>4. /\ Return(th, IF t \in allTx
                      THEN [i \in 1..Len(deps) |-> Frame("remove", deps[i])]
                                \o <<Frame("remove", t)>>
                      ELSE <<>>)
        /\ stored' = stored /\ f.op = "remove" /\ transactions' = transactions
    BY <1>2, <1>9, <2>1, <2>2 DEF RemoveDependents, appVars, listVars, Top
  <2>5. Listed' = Listed
    BY <2>4 DEF Listed
  <2>6. CASE t \notin allTx
    <3>1. Return(th, <<>>)
      BY <2>4, <2>6
    <3>2. QED
      BY <1>0, <1>5, <1>6, <2>4, <2>5, <3>1
  <2>7. CASE t \in allTx
    <3>1. ASSUME NEW u \in allTx, ContainsTx(u)
          PROVE  Frame("remove", u) \in CallFrame /\ FrameHolds(Frame("remove", u))'
      <4>1. PICK g : g = Frame("remove", u)
        OBVIOUS
      <4>2. g \in CallFrame
        BY <4>1, FrameTypes DEF ListInv, ListTypeOK
      <4>3. g.op = "remove" /\ g.tx = u
        BY <4>1 DEF Frame
      <4>4. u \in allTx' /\ ContainsTx(u)'
        BY <1>0, <3>1, RegisteredKept
      <4>5. FrameHolds(g)'
        BY <4>3, <4>4 DEF FrameHolds
      <4>6. QED
        BY <4>1, <4>2, <4>5, Zenon
    <3>2. PICK s : s = [i \in 1..Len(deps) |-> Frame("remove", deps[i])]
      OBVIOUS
    <3>3. /\ Len(deps) \in Nat
          /\ \A i \in 1..Len(deps) : deps[i] \in allTx /\ ContainsTx(deps[i])
      BY <2>3, LenProperties, ElementOfSeq DEF ListInv, ListedAreRegistered, ListedAreOurs
    <3>4. \A i \in 1..Len(deps) : s[i] \in CallFrame /\ FrameHolds(s[i])'
      BY <3>1, <3>2, <3>3
    <3>5. s \in Seq(CallFrame) /\ Len(s) = Len(deps)
      BY <3>2, <3>3, <3>4
    <3>6. \A g \in Elems(s) : FrameHolds(g)'
      BY <3>4, <3>5 DEF Elems
    <3>7. PICK g : g = Frame("remove", t)
      OBVIOUS
    <3>8. g \in CallFrame /\ FrameHolds(g)'
      <4>1. ContainsTx(t)
        BY <1>4, <2>1, <2>4 DEF FrameHolds
      <4>2. QED
        BY <2>7, <3>1, <3>7, <4>1
    <3>9. <<g>> \in Seq(CallFrame) /\ Elems(<<g>>) = {g}
      BY <3>8, ElemsOfOne
    <3>10. s \o <<g>> \in Seq(CallFrame) /\ Elems(s \o <<g>>) = Elems(s) \cup Elems(<<g>>)
      BY <3>5, <3>9, ElemsOfConcat
    <3>11. \A e \in Elems(s \o <<g>>) : FrameHolds(e)'
      BY <3>6, <3>8, <3>9, <3>10
    <3>12. Return(th, s \o <<g>>)
      BY <2>4, <2>7, <3>2, <3>7
    <3>13. Listed' \subseteq Listed /\ f.op # "added" /\ stored' \subseteq Tx
           /\ \A u \in stored \ stored' : u \notin Listed'
      BY <1>0, <2>4, <2>5
    <3>14. QED
      BY <1>6, <3>10, <3>11, <3>12, <3>13
  <2>8. QED
    BY <2>6, <2>7
<1>10. QED
  BY <1>7, <1>8, <1>9 DEF Continue

\* Every step of the wallet preserves FramesInv.
LEMMA NextKeepsFramesInv ==
    ListInv /\ CacheInv /\ FramesInv /\ [Next]_vars => FramesInv'
<1> SUFFICES ASSUME ListInv, CacheInv, FramesInv, [Next]_vars PROVE FramesInv'
  OBVIOUS
<1>0. LoopsAlone' /\ calls \in [Thread -> Seq(CallFrame)] /\ stored \subseteq Tx
  BY LoopsAloneKept DEF FramesInv
<1>1. ASSUME UNCHANGED <<calls, stored, transactions>> PROVE FramesInv'
  <2>1. Listed' = Listed
    BY <1>1 DEF Listed
  <2>2. QED
    BY <1>0, <1>1, <2>1, FramesUnchanged
<1>2. CASE UpdateStep
  <2>1. upd.todo \in Seq(Tx) /\ upd.todo # <<>> /\ UNCHANGED <<calls, stored>>
    BY <1>2 DEF UpdateStep, ListInv, ListTypeOK, appVars
  <2>2. Head(upd.todo) \in Tx
    BY <2>1, HeadTailProperties
  <2>3. Listed' = Listed
    <3>1. CASE UpdateSkip(Head(upd.todo))
      BY <3>1 DEF UpdateSkip, Listed
    <3>2. CASE UpdateSet(Head(upd.todo))
      BY <2>1, <2>2, <3>2, UpdateSetEffect
    <3>3. QED
      BY <1>2, <3>1, <3>2 DEF UpdateStep
  <2>4. QED
    BY <1>0, <2>1, <2>3, FramesUnchanged
<1>3. CASE UpdateDone
  <2>1. /\ UpdateLooping /\ calls' = [calls EXCEPT ![lock] = UpdatedFrames(upd.done)]
        /\ UNCHANGED <<stored, transactions>>
    BY <1>3 DEF UpdateDone, appVars, listVars
  <2>2. lock \in Thread /\ calls[lock] = <<>> /\ upd.done \in SUBSET Tx
    BY <2>1 DEF FramesInv, LoopsAlone, UpdateLooping, ListInv, ListTypeOK
  <2>3. PICK txs : txs = upd.done
    OBVIOUS
  <2>4. <<>> \in Seq(CallFrame) /\ Elems(<<>>) = {}
    BY DEF Elems
  <2>5. /\ UpdatedFrames(txs) \in Seq(CallFrame)
        /\ \A f \in Elems(UpdatedFrames(txs)) : FrameHolds(f)'
    <3>1. CASE txs = {}
      BY <2>4, <3>1 DEF UpdatedFrames
    <3>2. CASE txs # {}
      <4>1. PICK f : f = [op |-> "updated", txs |-> txs]
        OBVIOUS
      <4>2. f \in CallFrame /\ f.op = "updated" /\ UpdatedFrames(txs) = <<f>>
        BY <2>2, <2>3, <3>2, <4>1, FrameTypes DEF UpdatedFrames
      <4>3. <<f>> \in Seq(CallFrame) /\ Elems(<<f>>) = {f}
        BY <4>2, ElemsOfOne
      <4>4. QED
        BY <4>2, <4>3 DEF FrameHolds
    <3>3. QED
      BY <3>1, <3>2
  <2>6. UpdatedFrames(txs) \o <<>> = UpdatedFrames(txs)
    BY <2>5, ConcatEmptySeq
  <2>7. calls' = [calls EXCEPT ![lock] = UpdatedFrames(txs) \o <<>>]
    BY <2>1, <2>3, <2>6
  <2>8. Listed' = Listed
    BY <2>1 DEF Listed
  <2>9. Elems(calls[lock]) = {}
    BY <2>2, <2>4
  <2>10. QED
    BY <1>0, <2>1, <2>2, <2>4, <2>5, <2>7, <2>8, <2>9, FramesStep
<1>4. CASE BalanceStep \/ BalanceDone \/ Tick \/ UNCHANGED vars
  BY <1>1, <1>4 DEF BalanceStep, BalanceDone, Tick, vars, listVars, appVars
<1>5. ASSUME NEW th \in Thread, Call(th) PROVE FramesInv'
  BY <1>5, CallKeepsFramesInv
<1>6. ASSUME NEW th \in Thread, Continue(th) PROVE FramesInv'
  BY <1>6, ContinueKeepsFramesInv
<1>7. QED
  BY <1>2, <1>3, <1>4, <1>5, <1>6 DEF Next, Locked

\* BRWalletNew establishes it.
LEMMA InitFramesInv == Init => FramesInv
<1> SUFFICES ASSUME Init PROVE FramesInv
  OBVIOUS
<1>1. calls \in [Thread -> Seq(CallFrame)] /\ \A th \in Thread : Elems(calls[th]) = {}
  BY DEF Init, Elems
<1>2. stored \subseteq Tx /\ LoopsAlone /\ Listed = {}
  BY DEF Init, LoopsAlone, UpdateLooping, Listed
<1>3. QED
  BY <1>1, <1>2 DEF FramesInv

\* FramesInv holds in every reachable state, for all constants.
THEOREM FramesInvariance == Spec => []FramesInv
BY InitFramesInv, NextKeepsFramesInv, ListInvariance, CacheInvariance, PTL DEF Spec

\* Every listed transaction is in the wallet manager's files or on its way to the
\* txAdded callback, with any number of threads registering and removing.
THEOREM NothingListedIsLost == Spec => []ListedIsStored
<1>1. FramesInv => ListedIsStored
  BY DEF FramesInv, ListedIsStored, Elems
<1>2. QED
  BY <1>1, FramesInvariance, PTL

\* The wallet's fields, the loops' locals and the frames have their types in every
\* reachable state; in particular no amount, none of them a difference that could
\* wrap as a uint64_t, is negative.
THEOREM WalletTyped == Spec => []TypeOK
<1>1. ListInv /\ CacheInv /\ AmountInv /\ FramesInv => TypeOK
  <2> SUFFICES ASSUME ListInv, CacheInv, AmountInv, FramesInv PROVE TypeOK
    OBVIOUS
  <2>1. ListTypeOK /\ Len(transactions) \in Nat /\ Listed \subseteq Tx
    BY LenProperties DEF ListInv, ListTypeOK, ListedAreRegistered
  <2>2. Done \subseteq Tx
    <3>1. CASE bal.i = 0
      BY <2>1, <3>1 DEF Done
    <3>2. CASE bal.i # 0
      <4>1. \A i \in 1..(bal.i - 1) : i \in 1..Len(transactions)
        BY <2>1, <3>2 DEF CacheInv, LocalsOK
      <4>2. QED
        BY <2>1, <3>2, <4>1 DEF Done, Listed
    <3>3. QED
      BY <3>1, <3>2
  <2>3. cache.invalidTx \subseteq Tx /\ cache.pendingTx \subseteq Tx /\ bal.i \in Nat
    BY <2>1, <2>2 DEF CacheInv, MarkedAreDone, LocalsOK
  <2>4. cache.utxos \subseteq Tx \X Nat
    <3> SUFFICES ASSUME NEW o \in Outpoints PROVE o \in Tx \X Nat
      BY DEF AmountInv, UtxosAreOutputs
    <3>1. PICK t \in Tx : o \in {t} \X (1..Len(Outputs[t]))
      BY DEF Outpoints
    <3>2. Len(Outputs[t]) \in Nat
      BY ConstantAssumption, LenProperties
    <3>3. QED
      BY <3>1, <3>2
  <2>5. /\ cache.spentOutputs \subseteq (Tx \cup {Foreign}) \X Nat
        /\ cache.usedPKH \subseteq Chain \X Nat
        /\ cache.totalSent \in Nat /\ cache.totalReceived \in Nat
        /\ balance \in Nat /\ shown \in Nat
        /\ bal.balance \in Nat /\ bal.prevBalance \in Nat
    BY DEF AmountInv, AmountsOK
  <2>6. stored \subseteq Tx
    BY DEF FramesInv
  <2>7. ASSUME NEW f \in CallFrame PROVE FrameOK(f)
    BY DEF CallFrame, FrameOK
  <2>8. ASSUME NEW th \in Thread, NEW i \in 1..Len(calls[th]) PROVE FrameOK(calls[th][i])
    <3>1. calls[th] \in Seq(CallFrame)
      BY DEF FramesInv
    <3>2. calls[th][i] \in CallFrame
      BY <3>1, ElementOfSeq
    <3>3. QED
      BY <2>7, <3>2
  <2>9. QED
    BY <2>1, <2>3, <2>4, <2>5, <2>6, <2>8 DEF TypeOK
<1>2. QED
  BY <1>1, ListInvariance, CacheInvariance, AmountInvariance, FramesInvariance, PTL
=============================================================================
