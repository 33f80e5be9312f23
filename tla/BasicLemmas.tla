---------------------------- MODULE BasicLemmas ----------------------------
(* Facts about numbers, sets and sequences that the proofs of several      *)
(* components use.                                                         *)
EXTENDS Integers, Sequences, FiniteSets, FiniteSetsExt, SequencesExt, TLAPS,
        FiniteSetTheorems, SequenceTheorems, WellFoundedInduction

\* A non-empty set of naturals has a least element, and Min returns it.
LEMMA MinProperties ==
    ASSUME NEW S \in SUBSET Nat, S # {}
    PROVE  Min(S) \in S /\ \A y \in S : Min(S) <= y
<1> DEFINE R == OpToRel(<, Nat)
<1>0. IsWellFoundedOn(R, Nat)
  BY NatLessThanWellFounded
<1> HIDE DEF R
<1>1. PICK x \in S : \A y \in S : ~(<<y, x>> \in R)
  BY <1>0, WFMin, Zenon
<1>2. ASSUME NEW y \in S PROVE x <= y
  <2>1. <<y, x>> \in Nat \X Nat
    OBVIOUS
  <2>2. <<y, x>> \in R <=> y < x
    BY <2>1 DEF R, OpToRel
  <2>3. QED
    BY <1>1, <2>2
<1>3. QED
  BY <1>2 DEF Min

\* A non-empty set of naturals with a bound has a greatest element, and Max returns it.
LEMMA MaxProperties ==
    ASSUME NEW S \in SUBSET Nat, S # {}, NEW n \in Nat, \A y \in S : y <= n
    PROVE  Max(S) \in S /\ \A y \in S : y <= Max(S)
<1> DEFINE D == {n - y : y \in S}
<1>0. \A y \in S : n - y \in Nat
  OBVIOUS
<1>1. D \in SUBSET Nat /\ D # {}
  <2>1. D \subseteq Nat
    BY <1>0
  <2>2. PICK y : y \in S
    OBVIOUS
  <2>3. n - y \in D
    BY <2>2
  <2>4. QED
    BY <2>1, <2>3
<1>2. Min(D) \in D /\ \A d \in D : Min(D) <= d
  BY <1>1, MinProperties
<1>3. PICK x \in S : Min(D) = n - x
  BY <1>2
<1>4. ASSUME NEW y \in S PROVE x >= y
  <2>1. n - x <= n - y
    BY <1>2, <1>3
  <2>2. QED
    BY <2>1
<1>5. QED
  BY <1>4 DEF Max

\* The larger and the smaller of two numbers
LEMMA MaxOfTwo ==
    ASSUME NEW a \in Int, NEW b \in Int
    PROVE  Max({a, b}) = IF a >= b THEN a ELSE b
<1>1. \E x \in {a, b} : \A y \in {a, b} : x >= y
  OBVIOUS
<1>2. Max({a, b}) \in {a, b} /\ \A y \in {a, b} : Max({a, b}) >= y
  BY <1>1 DEF Max
<1>3. QED
  BY <1>2

LEMMA MinOfTwo ==
    ASSUME NEW a \in Int, NEW b \in Int
    PROVE  Min({a, b}) = IF a <= b THEN a ELSE b
<1>1. \E x \in {a, b} : \A y \in {a, b} : x <= y
  OBVIOUS
<1>2. Min({a, b}) \in {a, b} /\ \A y \in {a, b} : Min({a, b}) <= y
  BY <1>1 DEF Min
<1>3. QED
  BY <1>2

\* Each sequence SetToSeqs makes of a finite set has every element of the set.
LEMMA SetToSeqsProperties ==
    ASSUME NEW T, IsFiniteSet(T), NEW s \in SetToSeqs(T)
    PROVE  /\ s \in Seq(T) /\ Len(s) = Cardinality(T)
           /\ \A t \in T : \E i \in 1..Len(s) : s[i] = t
<1> DEFINE n == Cardinality(T)
<1>1. n \in Nat
  BY FS_CardinalityType
<1>2. s \in [1..n -> T] /\ \A i, j \in 1..n : i # j => s[i] # s[j]
  BY DEF SetToSeqs
<1>3. Cardinality(1..n) = n
  BY <1>1, FS_Interval
<1> HIDE DEF n
<1>4. s \in Injection(1..n, T)
  BY <1>2 DEF Injection, IsInjective
<1>5. s \in Surjection(1..n, T)
  BY <1>3, <1>4, FS_Injection DEF n
<1>6. s \in Seq(T) /\ Len(s) = n
  BY <1>1, <1>2
<1>7. QED
  BY <1>5, <1>6 DEF Surjection, n

\* The union of finitely many finite sets is finite.
LEMMA FiniteUnion ==
    ASSUME NEW S, IsFiniteSet(S), NEW f, \A x \in S : IsFiniteSet(f[x])
    PROVE  IsFiniteSet(UNION {f[x] : x \in S})
<1> DEFINE R == {f[x] : x \in S}
           g == [x \in S |-> f[x]]
<1>1. g \in Surjection(S, R)
  BY DEF Surjection
<1>2. IsFiniteSet(R)
  <2> HIDE DEF R, g
  <2>1. QED
    BY <1>1, FS_Surjection
<1>3. \A T \in R : IsFiniteSet(T)
  OBVIOUS
<1>4. QED
  <2> HIDE DEF R
  <2>1. IsFiniteSet(UNION R)
    BY <1>2, <1>3, FS_UNION
  <2>2. QED
    BY <2>1 DEF R

\* A sequence without duplicates is as long as the set of its elements is large.
LEMMA LengthOfDistinct ==
    ASSUME NEW S, NEW s \in Seq(S), \A i, j \in 1..Len(s) : s[i] = s[j] => i = j
    PROVE  Cardinality({s[i] : i \in 1..Len(s)}) = Len(s)
<1> DEFINE R == {s[i] : i \in 1..Len(s)}
           D == 1..Len(s)
<1>1. Len(s) \in Nat /\ DOMAIN s = D
  BY LenProperties
<1>2. IsFiniteSet(D) /\ Cardinality(D) = Len(s)
  BY <1>1, FS_Interval
<1>3. s \in Bijection(D, R)
  <2>1. s \in [D -> R]
    BY <1>1
  <2>2. s \in Injection(D, R) /\ s \in Surjection(D, R)
    BY <2>1 DEF Injection, IsInjective, Surjection
  <2>3. QED
    BY <2>2 DEF Bijection
<1> HIDE DEF R, D
<1>4. Cardinality(R) = Cardinality(D)
  BY <1>2, <1>3, FS_Bijection DEF ExistsBijection
<1>5. QED
  BY <1>2, <1>4 DEF R

\* Every rank among finitely many numbers is taken.
LEMMA RankTaken ==
    ASSUME NEW F \in SUBSET Nat, IsFiniteSet(F), NEW n \in 1..Cardinality(F)
    PROVE  \E i \in F : Cardinality({j \in F : j <= i}) = n
<1> DEFINE upTo(i) == {j \in F : j <= i}
           N == Cardinality(F)
           rank == [i \in F |-> Cardinality(upTo(i))]
<1>1. N \in Nat
  BY FS_CardinalityType
<1>2. ASSUME NEW i \in F
      PROVE  IsFiniteSet(upTo(i)) /\ Cardinality(upTo(i)) \in 1..N
  <2>1. upTo(i) \in SUBSET F /\ i \in upTo(i)
    OBVIOUS
  <2> HIDE DEF upTo
  <2>2. IsFiniteSet(upTo(i)) /\ Cardinality(upTo(i)) <= N
    BY <2>1, FS_Subset
  <2>3. Cardinality(upTo(i)) \in Nat /\ Cardinality(upTo(i)) # 0
    BY <2>1, <2>2, FS_CardinalityType, FS_EmptySet
  <2>4. QED
    BY <1>1, <2>2, <2>3
<1>3. ASSUME NEW i \in F, NEW j \in F, i < j PROVE Cardinality(upTo(i)) # Cardinality(upTo(j))
  <2>1. upTo(i) \in SUBSET upTo(j) /\ upTo(i) # upTo(j)
    <3>1. \A k \in F : k <= i => k <= j
      BY <1>3
    <3>2. j \in upTo(j) /\ j \notin upTo(i)
      BY <1>3
    <3>3. QED
      BY <3>1, <3>2
  <2>2. IsFiniteSet(upTo(j))
    BY <1>2
  <2> HIDE DEF upTo
  <2>3. QED
    BY <2>1, <2>2, FS_Subset
<1>4. rank \in Injection(F, 1..N)
  <2>1. rank \in [F -> 1..N]
    BY <1>2
  <2>2. ASSUME NEW i \in F, NEW j \in F, rank[i] = rank[j] PROVE i = j
    <3>1. ~(i < j) /\ ~(j < i)
      BY <1>3, <2>2
    <3>2. QED
      BY <3>1
  <2>3. QED
    BY <2>1, <2>2 DEF Injection, IsInjective
<1>5. Cardinality(1..N) = N /\ IsFiniteSet(1..N)
  BY <1>1, FS_Interval
<1>6. rank \in Surjection(F, 1..N)
  <2> HIDE DEF rank
  <2>1. Cardinality(F) = Cardinality(1..N)
    BY <1>5
  <2>2. QED
    BY <1>4, <1>5, <2>1, FS_Injection
<1>7. PICK i \in F : rank[i] = n
  BY <1>6 DEF Surjection
<1>8. QED
  BY <1>7

\* The elements of a sequence.
Elems(s) == {s[i] : i \in 1..Len(s)}

LEMMA ElemsOfConcat ==
    ASSUME NEW S, NEW s \in Seq(S), NEW r \in Seq(S)
    PROVE  s \o r \in Seq(S) /\ Elems(s \o r) = Elems(s) \cup Elems(r)
<1>1. Len(s) \in Nat /\ Len(r) \in Nat
  BY LenProperties
<1>2. /\ s \o r \in Seq(S) /\ Len(s \o r) = Len(s) + Len(r)
      /\ \A i \in 1..(Len(s) + Len(r)) :
            (s \o r)[i] = IF i <= Len(s) THEN s[i] ELSE r[i - Len(s)]
  BY ConcatProperties
<1> DEFINE c == s \o r
<1> HIDE DEF c
<1>3. /\ Len(c) = Len(s) + Len(r)
      /\ \A i \in 1..(Len(s) + Len(r)) : c[i] = IF i <= Len(s) THEN s[i] ELSE r[i - Len(s)]
  BY <1>2 DEF c
<1>4. ASSUME NEW i \in 1..Len(c) PROVE c[i] \in Elems(s) \cup Elems(r)
  <2>1. CASE i <= Len(s)
    BY <1>1, <1>3, <2>1 DEF Elems
  <2>2. CASE i > Len(s)
    <3>1. i - Len(s) \in 1..Len(r) /\ c[i] = r[i - Len(s)]
      BY <1>1, <1>3, <2>2
    <3>2. QED
      BY <3>1 DEF Elems
  <2>3. QED
    BY <1>1, <2>1, <2>2
<1>5. ASSUME NEW i \in 1..Len(s) PROVE s[i] \in Elems(c)
  <2>1. i \in 1..Len(c) /\ c[i] = s[i]
    BY <1>1, <1>3
  <2>2. QED
    BY <2>1 DEF Elems
<1>6. ASSUME NEW i \in 1..Len(r) PROVE r[i] \in Elems(c)
  <2>1. Len(s) + i \in 1..Len(c) /\ ~(Len(s) + i <= Len(s)) /\ (Len(s) + i) - Len(s) = i
    BY <1>1, <1>3
  <2>2. c[Len(s) + i] = r[(Len(s) + i) - Len(s)]
    BY <1>3, <2>1
  <2>3. c[Len(s) + i] = r[i]
    BY <2>1, <2>2
  <2>4. QED
    BY <2>1, <2>3 DEF Elems
<1>7. Elems(c) = Elems(s) \cup Elems(r)
  BY <1>4, <1>5, <1>6 DEF Elems
<1>8. QED
  BY <1>2, <1>7 DEF c

LEMMA ElemsOfTail ==
    ASSUME NEW S, NEW s \in Seq(S), s # <<>>
    PROVE  /\ Head(s) \in S /\ Tail(s) \in Seq(S)
           /\ Elems(s) = {Head(s)} \cup Elems(Tail(s))
<1>1. /\ Head(s) \in S /\ Head(s) = s[1] /\ Tail(s) \in Seq(S)
      /\ Len(s) \in Nat /\ Len(s) >= 1 /\ Len(Tail(s)) = Len(s) - 1
      /\ \A i \in 1..Len(Tail(s)) : Tail(s)[i] = s[i + 1]
  BY HeadTailProperties, LenProperties
<1> DEFINE r == Tail(s)
<1> HIDE DEF r
<1>2. Len(r) = Len(s) - 1 /\ \A i \in 1..Len(r) : r[i] = s[i + 1]
  BY <1>1 DEF r
<1>3. ASSUME NEW i \in 1..Len(s) PROVE s[i] \in {Head(s)} \cup Elems(r)
  <2>1. CASE i = 1
    BY <1>1, <2>1
  <2>2. CASE i # 1
    <3>1. i - 1 \in 1..Len(r) /\ (i - 1) + 1 = i
      BY <1>1, <1>2, <2>2
    <3>2. r[i - 1] = s[i]
      BY <1>2, <3>1
    <3>3. QED
      BY <3>1, <3>2 DEF Elems
  <2>3. QED
    BY <2>1, <2>2
<1>4. ASSUME NEW i \in 1..Len(r) PROVE r[i] \in Elems(s)
  <2>1. i + 1 \in 1..Len(s) /\ r[i] = s[i + 1]
    BY <1>1, <1>2
  <2>2. QED
    BY <2>1 DEF Elems
<1>5. Head(s) \in Elems(s)
  BY <1>1 DEF Elems
<1>6. Elems(s) = {Head(s)} \cup Elems(r)
  BY <1>3, <1>4, <1>5 DEF Elems
<1>7. QED
  BY <1>1, <1>6 DEF r

LEMMA ElemsOfOne ==
    ASSUME NEW S, NEW x \in S
    PROVE  <<x>> \in Seq(S) /\ Elems(<<x>>) = {x}
BY DEF Elems

-----------------------------------------------------------------------------
(* Inserting into a sequence and removing from it. *)

\* r is s with e put at position i
IsInsertion(r, s, i, e) ==
    /\ Len(r) = Len(s) + 1
    /\ \A j \in 1..(Len(s) + 1) :
          r[j] = IF j < i THEN s[j] ELSE IF j = i THEN e ELSE s[j - 1]

\* Inserting at position i shifts what was at i and after by one.
LEMMA InsertAtProperties ==
    ASSUME NEW S, NEW s \in Seq(S), NEW i \in 1..(Len(s) + 1), NEW e \in S
    PROVE  /\ InsertAt(s, i, e) \in Seq(S)
           /\ IsInsertion(InsertAt(s, i, e), s, i, e)
<1> DEFINE pre == SubSeq(s, 1, i - 1)
           post == SubSeq(s, i, Len(s))
<1>1. Len(s) \in Nat
  BY LenProperties
<1>2. /\ pre \in Seq(S)
      /\ Len(pre) = i - 1
      /\ \A j \in 1..(i - 1) : pre[j] = s[j]
  BY <1>1, SubSeqProperties
<1>3. /\ post \in Seq(S)
      /\ Len(post) = Len(s) - i + 1
      /\ \A j \in 1..(Len(s) - i + 1) : post[j] = s[i + j - 1]
  BY <1>1, SubSeqProperties
<1>4. /\ <<e>> \in Seq(S)
      /\ Len(<<e>>) = 1
      /\ <<e>>[1] = e
  OBVIOUS
<1> HIDE DEF pre, post
<1>5. /\ pre \o <<e>> \in Seq(S)
      /\ Len(pre \o <<e>>) = Len(pre) + Len(<<e>>)
      /\ \A j \in 1..(Len(pre) + Len(<<e>>)) : (pre \o <<e>>)[j] =
             IF j <= Len(pre) THEN pre[j] ELSE <<e>>[j - Len(pre)]
  BY <1>2, <1>4, ConcatProperties, Zenon
<1> DEFINE left == pre \o <<e>>
<1>6. /\ left \in Seq(S)
      /\ Len(left) = i
      /\ \A j \in 1..i : left[j] = IF j < i THEN s[j] ELSE e
  BY <1>1, <1>2, <1>4, <1>5
<1> HIDE DEF left
<1>7. /\ left \o post \in Seq(S)
      /\ Len(left \o post) = Len(left) + Len(post)
      /\ \A j \in 1..(Len(left) + Len(post)) : (left \o post)[j] =
             IF j <= Len(left) THEN left[j] ELSE post[j - Len(left)]
  BY <1>3, <1>6, ConcatProperties, Zenon
<1> DEFINE all == left \o post
<1> HIDE DEF all
<1>8. /\ all \in Seq(S)
      /\ Len(all) = Len(s) + 1
      /\ \A j \in 1..(Len(s) + 1) :
            all[j] = IF j < i THEN s[j] ELSE IF j = i THEN e ELSE s[j - 1]
  <2>1. /\ all \in Seq(S)
        /\ Len(all) = Len(left) + Len(post)
        /\ \A j \in 1..(Len(left) + Len(post)) : all[j] =
             IF j <= Len(left) THEN left[j] ELSE post[j - Len(left)]
    BY <1>7, Zenon DEF all
  <2>2. Len(all) = Len(s) + 1
    BY <1>1, <1>3, <1>6, <2>1
  <2>3. ASSUME NEW j \in 1..(Len(s) + 1)
        PROVE  all[j] = IF j < i THEN s[j] ELSE IF j = i THEN e ELSE s[j - 1]
    <3>1. CASE j <= i
      BY <1>1, <1>3, <1>6, <2>1, <3>1
    <3>2. CASE j > i
      <4>1. all[j] = post[j - i]
        BY <1>1, <1>3, <1>6, <2>1, <3>2
      <4>2. j - i \in 1..(Len(s) - i + 1) /\ i + (j - i) - 1 = j - 1
        BY <1>1, <3>2
      <4>3. QED
        BY <1>1, <1>3, <3>2, <4>1, <4>2
    <3>3. QED
      BY <1>1, <3>1, <3>2
  <2>4. QED
    BY <2>1, <2>2, <2>3
<1>9. InsertAt(s, i, e) = all
  BY Zenon DEF InsertAt, all, left, pre, post
<1>10. all \in Seq(S) /\ IsInsertion(all, s, i, e)
  BY <1>8 DEF IsInsertion
<1>11. QED
  BY <1>9, <1>10, Zenon

\* Removing position i shifts what was after it by one.
LEMMA RemoveAtProperties ==
    ASSUME NEW S, NEW s \in Seq(S), NEW i \in 1..Len(s)
    PROVE  /\ RemoveAt(s, i) \in Seq(S)
           /\ Len(RemoveAt(s, i)) = Len(s) - 1
           /\ \A j \in 1..(Len(s) - 1) :
                 RemoveAt(s, i)[j] = IF j < i THEN s[j] ELSE s[j + 1]
<1> DEFINE pre == SubSeq(s, 1, i - 1)
           post == SubSeq(s, i + 1, Len(s))
<1>1. Len(s) \in Nat
  BY LenProperties
<1>2. /\ pre \in Seq(S)
      /\ Len(pre) = i - 1
      /\ \A j \in 1..(i - 1) : pre[j] = s[j]
  BY <1>1, SubSeqProperties
<1>3. /\ post \in Seq(S)
      /\ Len(post) = Len(s) - i
      /\ \A j \in 1..(Len(s) - i) : post[j] = s[i + j]
  BY <1>1, SubSeqProperties
<1> HIDE DEF pre, post
<1>4. /\ pre \o post \in Seq(S)
      /\ Len(pre \o post) = Len(pre) + Len(post)
      /\ \A j \in 1..(Len(pre) + Len(post)) : (pre \o post)[j] =
             IF j <= Len(pre) THEN pre[j] ELSE post[j - Len(pre)]
  BY <1>2, <1>3, ConcatProperties, Zenon
<1> DEFINE all == pre \o post
<1> HIDE DEF all
<1>5. /\ all \in Seq(S)
      /\ Len(all) = Len(s) - 1
      /\ \A j \in 1..(Len(s) - 1) : all[j] = IF j < i THEN s[j] ELSE s[j + 1]
  <2>1. /\ all \in Seq(S)
        /\ Len(all) = Len(pre) + Len(post)
        /\ \A j \in 1..(Len(pre) + Len(post)) : all[j] =
             IF j <= Len(pre) THEN pre[j] ELSE post[j - Len(pre)]
    BY <1>4, Zenon DEF all
  <2>2. Len(all) = Len(s) - 1
    BY <1>1, <1>2, <1>3, <2>1
  <2>3. ASSUME NEW j \in 1..(Len(s) - 1)
        PROVE  all[j] = IF j < i THEN s[j] ELSE s[j + 1]
    <3>0. /\ j \in 1..(Len(pre) + Len(post))
          /\ j <= Len(pre) <=> j < i
          /\ j - Len(pre) = j - (i - 1)
      BY <1>1, <1>2, <1>3
    <3>1. CASE j < i
      <4>1. all[j] = pre[j]
        BY <2>1, <3>0, <3>1
      <4>2. QED
        BY <1>1, <1>2, <3>1, <4>1
    <3>2. CASE j >= i
      <4>1. all[j] = post[j - (i - 1)]
        <5>1. ~(j <= Len(pre))
          BY <1>1, <3>0, <3>2
        <5>2. all[j] = post[j - Len(pre)]
          BY <2>1, <3>0, <5>1
        <5>3. QED
          BY <3>0, <5>2, Zenon
      <4>2. j - (i - 1) \in 1..(Len(s) - i) /\ i + (j - (i - 1)) = j + 1
        BY <1>1, <3>2
      <4>3. QED
        BY <1>1, <1>3, <3>2, <4>1, <4>2
    <3>3. QED
      BY <1>1, <3>1, <3>2
  <2>4. QED
    BY <2>1, <2>2, <2>3
<1>6. RemoveAt(s, i) = all
  BY Zenon DEF RemoveAt, all, pre, post
<1>7. QED
  BY <1>5, <1>6, Zenon

-----------------------------------------------------------------------------
(* Flattening a sequence of sequences. *)

\* g is what FlattenSeq computes on its way through f, up to k
Flattens(g, f, k) == g = [i \in 1..k |-> IF i = 1 THEN f[i] ELSE g[i - 1] \o f[i]]

\* The recursive function in FlattenSeq exists: by a least length that has none.
LEMMA FlattenExists ==
    ASSUME NEW f, NEW n \in Nat, NEW k \in 1..n
    PROVE  \E g : Flattens(g, f, k)
<1>1. PICK bad : bad = {j \in 1..n : ~\E g : Flattens(g, f, j)}
  OBVIOUS
<1>2. SUFFICES ASSUME bad # {}
               PROVE  FALSE
  BY <1>1
<1>3. bad \in SUBSET Nat
  BY <1>1
<1>4. PICK j : j = Min(bad)
  OBVIOUS
<1>5. j \in bad /\ \A i \in bad : j <= i
  BY <1>2, <1>3, <1>4, MinProperties
<1>6. j \in 1..n /\ ~\E g : Flattens(g, f, j)
  BY <1>1, <1>5
<1>7. CASE j = 1
  <2>1. PICK g : g = [i \in 1..1 |-> f[i]]
    OBVIOUS
  <2>2. Flattens(g, f, 1)
    BY <2>1 DEF Flattens
  <2> QED
    BY <1>6, <1>7, <2>2
<1>8. CASE j > 1
  <2>1. j - 1 \in 1..n /\ j - 1 \notin bad
    BY <1>5, <1>6, <1>8
  <2>2. PICK g : Flattens(g, f, j - 1)
    BY <1>1, <2>1
  <2>3. \A i \in 1..(j - 1) : g[i] = IF i = 1 THEN f[i] ELSE g[i - 1] \o f[i]
    BY <2>2 DEF Flattens
  <2>4. PICK e : e = [i \in 1..j |-> IF i < j THEN g[i] ELSE g[j - 1] \o f[j]]
    OBVIOUS
  <2>5. \A i \in 1..j : e[i] = IF i = 1 THEN f[i] ELSE e[i - 1] \o f[i]
    <3> TAKE i \in 1..j
    <3>1. CASE i < j
      <4>1. e[i] = g[i] /\ (i > 1 => e[i - 1] = g[i - 1])
        BY <1>6, <2>4, <3>1
      <4> QED
        BY <1>6, <2>3, <3>1, <4>1
    <3>2. CASE i = j
      BY <1>6, <1>8, <2>4, <3>2
    <3> QED
      BY <1>6, <3>1, <3>2
  <2>6. e = [i \in 1..j |-> IF i = 1 THEN f[i] ELSE e[i - 1] \o f[i]]
    BY <2>4, <2>5
  <2> QED
    BY <1>6, <2>6 DEF Flattens
<1> QED
  BY <1>6, <1>7, <1>8

\* FlattenSeq concatenates one sequence after the other.
LEMMA FlattenSteps ==
    ASSUME NEW S, NEW f \in Seq(S), f # <<>>
    PROVE  \E g : /\ FlattenSeq(f) = g[Len(f)] /\ g[1] = f[1]
                  /\ \A i \in 2..Len(f) : g[i] = g[i - 1] \o f[i]
<1>1. PICK n : n = Len(f)
  OBVIOUS
<1>2. n \in Nat /\ n >= 1
  BY <1>1, EmptySeq, LenProperties
<1>3. PICK g : g = CHOOSE e : e = [i \in 1..n |-> IF i = 1 THEN f[i] ELSE e[i - 1] \o f[i]]
  OBVIOUS
<1>4. \E e : e = [i \in 1..n |-> IF i = 1 THEN f[i] ELSE e[i - 1] \o f[i]]
  <2>1. n \in 1..n
    BY <1>2
  <2> QED
    BY <1>2, <2>1, FlattenExists DEF Flattens
<1>5. g = [i \in 1..n |-> IF i = 1 THEN f[i] ELSE g[i - 1] \o f[i]]
  BY <1>3, <1>4
<1>6. FlattenSeq(f) = g[n]
  BY <1>1, <1>2, <1>3 DEF FlattenSeq
<1>7. \A i \in 1..n : g[i] = IF i = 1 THEN f[i] ELSE g[i - 1] \o f[i]
  BY <1>5
<1>8. g[1] = f[1]
  BY <1>2, <1>7
<1>9. \A i \in 2..n : g[i] = g[i - 1] \o f[i]
  <2> TAKE i \in 2..n
  <2>1. i \in 1..n /\ i # 1
    BY <1>2
  <2> QED
    BY <1>7, <2>1, Zenon
<1> QED
  BY <1>1, <1>6, <1>8, <1>9
-----------------------------------------------------------------------------
(* Iterating a step that stays in a set. *)

\* f is what the steps compute from s on, up to k
Iterates(f, step, s, k) == f = [i \in 0..k |-> IF i = 0 THEN s ELSE step[i][f[i - 1]]]

\* What every step keeps in the set is in the set all along.
LEMMA IterationStays ==
    ASSUME NEW S, NEW n \in Nat, NEW f, f[0] \in S,
           \A i \in 1..n : f[i - 1] \in S => f[i] \in S
    PROVE  \A i \in 0..n : f[i] \in S
<1>1. PICK bad : bad = {j \in 0..n : f[j] \notin S}
  OBVIOUS
<1>2. SUFFICES ASSUME bad # {}
               PROVE  FALSE
  BY <1>1
<1>3. bad \in SUBSET Nat
  BY <1>1
<1>4. PICK j : j = Min(bad)
  OBVIOUS
<1>5. j \in bad /\ \A i \in bad : j <= i
  BY <1>2, <1>3, <1>4, MinProperties
<1>6. j \in 1..n /\ f[j] \notin S
  BY <1>1, <1>5
<1>7. j - 1 \in 0..n /\ j - 1 \notin bad
  BY <1>5, <1>6
<1>8. f[j - 1] \in S
  BY <1>1, <1>7
<1> QED
  BY <1>6, <1>8

\* The iteration exists: by a least number of steps that has none.
LEMMA IterationExists ==
    ASSUME NEW n \in Nat, NEW s, NEW step, NEW k \in 0..n
    PROVE  \E f : Iterates(f, step, s, k)
<1>1. PICK bad : bad = {j \in 0..n : ~\E f : Iterates(f, step, s, j)}
  OBVIOUS
<1>2. SUFFICES ASSUME bad # {}
               PROVE  FALSE
  BY <1>1
<1>3. bad \in SUBSET Nat
  BY <1>1
<1>4. PICK j : j = Min(bad)
  OBVIOUS
<1>5. j \in bad /\ \A i \in bad : j <= i
  BY <1>2, <1>3, <1>4, MinProperties
<1>6. j \in 0..n /\ ~\E f : Iterates(f, step, s, j)
  BY <1>1, <1>5
<1>7. CASE j = 0
  <2>1. PICK f : f = [i \in 0..0 |-> s]
    OBVIOUS
  <2>2. Iterates(f, step, s, 0)
    BY <2>1 DEF Iterates
  <2> QED
    BY <1>6, <1>7, <2>2
<1>8. CASE j > 0
  <2>1. j - 1 \in 0..n /\ j - 1 \notin bad
    BY <1>5, <1>6, <1>8
  <2>2. PICK g : Iterates(g, step, s, j - 1)
    BY <1>1, <2>1
  <2>3. \A i \in 0..(j - 1) : g[i] = IF i = 0 THEN s ELSE step[i][g[i - 1]]
    BY <2>2 DEF Iterates
  <2>4. PICK e : e = [i \in 0..j |-> IF i < j THEN g[i] ELSE step[j][g[j - 1]]]
    OBVIOUS
  <2>5. \A i \in 0..j : e[i] = IF i = 0 THEN s ELSE step[i][e[i - 1]]
    <3> TAKE i \in 0..j
    <3>1. CASE i < j
      <4>1. e[i] = g[i] /\ (i > 0 => e[i - 1] = g[i - 1])
        BY <1>6, <2>4, <3>1
      <4> QED
        BY <1>6, <2>3, <3>1, <4>1
    <3>2. CASE i = j
      <4>1. e[i] = step[j][g[j - 1]] /\ e[i - 1] = g[i - 1]
        BY <1>6, <1>8, <2>4, <3>2
      <4> QED
        BY <1>6, <1>8, <3>2, <4>1
    <3> QED
      BY <1>6, <3>1, <3>2
  <2>6. e = [i \in 0..j |-> IF i = 0 THEN s ELSE step[i][e[i - 1]]]
    BY <2>4, <2>5
  <2> QED
    BY <1>6, <2>6 DEF Iterates
<1> QED
  BY <1>6, <1>7, <1>8

\* One of finitely many elements has the greatest value.
LEMMA GreatestOfFinite ==
    ASSUME NEW S, IsFiniteSet(S), S # {}, NEW f, \A x \in S : f[x] \in Nat
    PROVE  \E x \in S : \A y \in S : f[y] <= f[x]
<1>1. PICK bad : bad = {n \in Nat : \E T \in SUBSET S :
                           /\ T # {} /\ Cardinality(T) = n
                           /\ ~\E x \in T : \A y \in T : f[y] <= f[x]}
  OBVIOUS
<1>2. \A T \in SUBSET S : IsFiniteSet(T) /\ Cardinality(T) \in Nat
  BY FS_Subset, FS_CardinalityType
<1>3. SUFFICES ASSUME ~\E x \in S : \A y \in S : f[y] <= f[x]
               PROVE  FALSE
  OBVIOUS
<1>4. Cardinality(S) \in bad
  BY <1>1, <1>2, <1>3
<1>5. bad \in SUBSET Nat /\ bad # {}
  BY <1>1, <1>4
<1>6. PICK n : n = Min(bad)
  OBVIOUS
<1>7. n \in bad /\ \A m \in bad : n <= m
  BY <1>5, <1>6, MinProperties
<1>8. PICK T \in SUBSET S : /\ T # {} /\ Cardinality(T) = n
                            /\ ~\E x \in T : \A y \in T : f[y] <= f[x]
  BY <1>1, <1>7
<1>9. PICK x : x \in T
  BY <1>8
<1>10. PICK U : U = T \ {x}
  OBVIOUS
<1>11. CASE U = {}
  <2>1. \A y \in T : y = x
    BY <1>10, <1>11
  <2>2. \A y \in T : f[y] <= f[x]
    BY <1>9, <2>1
  <2> QED
    BY <1>8, <1>9, <2>2
<1>12. CASE U # {}
  <2>1. Cardinality(U) = n - 1
    BY <1>2, <1>8, <1>9, <1>10, FS_RemoveElement
  <2>2. U \in SUBSET S /\ n \in Nat
    BY <1>1, <1>7, <1>10
  <2>3. Cardinality(U) \in Nat /\ Cardinality(U) \notin bad
    BY <1>2, <1>7, <2>1, <2>2
  <2>4. PICK u \in U : \A y \in U : f[y] <= f[u]
    BY <1>1, <1>12, <2>2, <2>3
  <2>5. f[u] \in Nat /\ f[x] \in Nat /\ u \in T
    BY <1>9, <1>10, <2>2
  <2>6. \A y \in T : y = x \/ y \in U
    BY <1>10
  <2>7. CASE f[u] <= f[x]
    <3>1. ASSUME NEW y \in T PROVE f[y] <= f[x]
      BY <2>4, <2>5, <2>6, <2>7
    <3> QED
      BY <1>8, <1>9, <3>1
  <2>8. CASE ~(f[u] <= f[x])
    <3>1. ASSUME NEW y \in T PROVE f[y] <= f[u]
      BY <2>4, <2>5, <2>6, <2>8
    <3> QED
      BY <1>8, <2>5, <3>1
  <2> QED
    BY <2>7, <2>8
<1> QED
  BY <1>11, <1>12
\* Counting up from 0.
LEMMA CountUp ==
    ASSUME NEW n \in Nat, NEW T, 0 \in T, \A i \in 1..n : i - 1 \in T => i \in T
    PROVE  \A i \in 0..n : i \in T
<1>1. PICK f : f = [i \in 0..n |-> i]
  OBVIOUS
<1>2. f[0] \in T /\ \A i \in 1..n : f[i - 1] \in T => f[i] \in T
  BY <1>1
<1>3. \A i \in 0..n : f[i] \in T
  BY <1>2, IterationStays
<1> QED
  BY <1>1, <1>3
=============================================================================
