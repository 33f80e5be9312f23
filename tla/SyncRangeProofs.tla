-------------------------- MODULE SyncRangeProofs ---------------------------
(***************************************************************************)
(* What TLAPS proves of SyncRange for every chain, every account and every *)
(* value of the limits that satisfies RangeAssumption:                     *)
(*                                                                         *)
(*  - SearchLosesNothing: a sync that runs to its end has reported every   *)
(*    block that changes the account;                                      *)
(*  - ProgressForward: the progress told to the client goes forward;       *)
(*  - RangesAreFeed: the ranges implement the feed the slice relies on.    *)
(*                                                                         *)
(* The invariant is about the leaves that remain: they are in order, they  *)
(* hold every change that was not reported, and the last one is linear and *)
(* reaches back far enough.                                                *)
(***************************************************************************)
EXTENDS SyncRange, BasicLemmas

-----------------------------------------------------------------------------
(* Sequences of ranges *)

\* a range is not empty, and an n-ary one is a number of whole steps
GoodRange ==
    {r \in [type : {Small, NAry}, tail : Nat, head : Nat, step : Nat] :
        /\ r.tail < r.head
        /\ r.type = NAry => r.step # 0 /\ \E n \in Nat : r.head = r.tail + r.step * n}

\* the ranges of s are between a and b and in order
Spans(s, a, b) ==
    /\ s \in Seq(GoodRange)
    /\ \A i \in 1..Len(s) : a <= s[i].tail /\ s[i].head <= b
    /\ \A i, j \in 1..Len(s) : i < j => s[i].head <= s[j].tail

\* one of them holds the block b
Finds(s, b) == \E i \in 1..Len(s) : s[i].tail < b /\ b <= s[i].head

FindsAll(s, t, h) == \A b \in Nat : t < b /\ b <= h => Finds(s, b)

\* linear ranges without a gap from a to b
Adjacent(s, a, b) ==
    /\ s # <<>>
    /\ \A i \in 1..Len(s) : s[i].type = Small
    /\ s[1].tail = a /\ s[Len(s)].head = b
    /\ \A i \in 1..(Len(s) - 1) : s[i + 1].tail = s[i].head

\* the last one is linear and ends at h
EndsSmall(s, h) == s # <<>> /\ s[Len(s)].type = Small /\ s[Len(s)].head = h

\* a linear range by itself
LEMMA OneSmall ==
    ASSUME NEW t \in Nat, NEW h \in Nat, t < h
    PROVE  LET s == <<NewRange(Small, t, h, 1)>>
           IN  /\ Spans(s, t, h) /\ FindsAll(s, t, h) /\ Adjacent(s, t, h) /\ EndsSmall(s, h)
               /\ s[Len(s)].tail = t
<1>1. PICK r : r = NewRange(Small, t, h, 1)
  OBVIOUS
<1>2. /\ r \in GoodRange /\ r.tail = t /\ r.head = h /\ r.type = Small
  BY <1>1 DEF NewRange, GoodRange, Small, NAry
<1>3. PICK s : s = <<r>>
  OBVIOUS
<1>4. s \in Seq(GoodRange) /\ Len(s) = 1 /\ s[1] = r /\ s # <<>>
  BY <1>2, <1>3
<1>5. Spans(s, t, h)
  BY <1>2, <1>4 DEF Spans
<1>6. FindsAll(s, t, h)
  BY <1>2, <1>4 DEF FindsAll, Finds
<1>7. Adjacent(s, t, h) /\ EndsSmall(s, h) /\ s[Len(s)].tail = t
  BY <1>2, <1>4 DEF Adjacent, EndsSmall
<1> QED
  BY <1>1, <1>3, <1>5, <1>6, <1>7

\* r spans a to c and is the sequence s and then t
Joined(r, s, t, a, c) ==
    /\ Spans(r, a, c)
    /\ \A x \in Nat : Finds(s, x) \/ Finds(t, x) => Finds(r, x)
    /\ t # <<>> => r # <<>> /\ r[Len(r)] = t[Len(t)]

\* one sequence after the other
LEMMA SpansConcat ==
    ASSUME NEW a \in Nat, NEW b \in Nat, NEW c \in Nat, a <= b, b <= c,
           NEW s, NEW t, Spans(s, a, b), Spans(t, b, c), NEW r, r = s \o t
    PROVE  Joined(r, s, t, a, c)
<1>1. s \in Seq(GoodRange) /\ t \in Seq(GoodRange)
  BY DEF Spans
<1>2. Len(s) \in Nat /\ Len(t) \in Nat
  BY <1>1, LenProperties
<1>3. /\ r \in Seq(GoodRange) /\ Len(r) = Len(s) + Len(t)
      /\ \A i \in 1..Len(r) : r[i] = IF i <= Len(s) THEN s[i] ELSE t[i - Len(s)]
  BY <1>1, ConcatProperties
<1>0. \A g \in GoodRange : g.tail \in Nat /\ g.head \in Nat
  BY DEF GoodRange
<1>4. \A i \in 1..Len(s) : r[i] = s[i] /\ i \in 1..Len(r)
  BY <1>2, <1>3
<1>5. \A i \in 1..Len(t) : r[i + Len(s)] = t[i] /\ i + Len(s) \in 1..Len(r)
  BY <1>2, <1>3
<1>6. \A i \in 1..Len(r) : i \in 1..Len(s) \/ (i > Len(s) /\ \E j \in 1..Len(t) : i = j + Len(s))
  <2> TAKE i \in 1..Len(r)
  <2>1. i > Len(s) => i - Len(s) \in 1..Len(t) /\ i = (i - Len(s)) + Len(s)
    BY <1>2, <1>3
  <2>2. i <= Len(s) => i \in 1..Len(s)
    BY <1>2, <1>3
  <2> QED
    BY <1>2, <2>1, <2>2
<1>7. \A i \in 1..Len(s) : /\ a <= s[i].tail /\ s[i].head <= b
                           /\ s[i].tail \in Nat /\ s[i].head \in Nat
  BY <1>0, <1>1, ElementOfSeq DEF Spans
<1>8. \A i \in 1..Len(t) : /\ b <= t[i].tail /\ t[i].head <= c
                           /\ t[i].tail \in Nat /\ t[i].head \in Nat
  BY <1>0, <1>1, ElementOfSeq DEF Spans
<1>9. \A i \in 1..Len(r) : a <= r[i].tail /\ r[i].head <= c
  <2> TAKE i \in 1..Len(r)
  <2>1. CASE i \in 1..Len(s)
    <3>1. r[i] = s[i]
      BY <1>4, <2>1
    <3> QED
      BY <1>7, <2>1, <3>1
  <2>2. CASE i \notin 1..Len(s)
    <3>1. PICK j \in 1..Len(t) : i = j + Len(s)
      BY <1>6, <2>2
    <3>2. r[i] = t[j]
      BY <1>5, <3>1
    <3> QED
      BY <1>8, <3>1, <3>2
  <2> QED
    BY <2>1, <2>2
<1>10. ASSUME NEW i \in 1..Len(r), NEW j \in 1..Len(r), i < j
       PROVE  r[i].head <= r[j].tail
  <2>1. CASE j \in 1..Len(s)
    <3>1. i \in 1..Len(s)
      BY <1>2, <1>3, <1>10, <2>1
    <3>2. r[i] = s[i] /\ r[j] = s[j]
      BY <1>4, <2>1, <3>1
    <3>3. s[i].head <= s[j].tail
      BY <1>10, <2>1, <3>1 DEF Spans
    <3> QED
      BY <3>2, <3>3
  <2>2. CASE j \notin 1..Len(s)
    <3>1. PICK l \in 1..Len(t) : j = l + Len(s)
      BY <1>6, <2>2
    <3>2. r[j] = t[l]
      BY <1>5, <3>1
    <3>3. CASE i \in 1..Len(s)
      <4>1. r[i] = s[i]
        BY <1>4, <3>3
      <4> QED
        BY <1>7, <1>8, <3>1, <3>2, <3>3, <4>1
    <3>4. CASE i \notin 1..Len(s)
      <4>1. PICK k \in 1..Len(t) : i = k + Len(s)
        BY <1>6, <3>4
      <4>2. r[i] = t[k] /\ k < l
        BY <1>2, <1>5, <1>10, <3>1, <4>1
      <4>3. t[k].head <= t[l].tail
        BY <3>1, <4>1, <4>2 DEF Spans
      <4> QED
        BY <3>2, <4>2, <4>3
    <3> QED
      BY <3>3, <3>4
  <2> QED
    BY <2>1, <2>2
<1>11. ASSUME NEW x \in Nat, Finds(s, x) \/ Finds(t, x)
       PROVE  Finds(r, x)
  <2>1. CASE Finds(s, x)
    <3>1. PICK i \in 1..Len(s) : s[i].tail < x /\ x <= s[i].head
      BY <2>1 DEF Finds
    <3>2. i \in 1..Len(r) /\ r[i] = s[i]
      BY <1>4
    <3> QED
      BY <3>1, <3>2 DEF Finds
  <2>2. CASE Finds(t, x)
    <3>1. PICK i \in 1..Len(t) : t[i].tail < x /\ x <= t[i].head
      BY <2>2 DEF Finds
    <3>2. i + Len(s) \in 1..Len(r) /\ r[i + Len(s)] = t[i]
      BY <1>5
    <3> QED
      BY <3>1, <3>2 DEF Finds
  <2> QED
    BY <1>11, <2>1, <2>2
<1>12. ASSUME t # <<>>
       PROVE  r # <<>> /\ r[Len(r)] = t[Len(t)]
  <2>1. Len(t) >= 1 /\ Len(t) \in 1..Len(t)
    BY <1>1, <1>2, <1>12, EmptySeq
  <2>2. r[Len(t) + Len(s)] = t[Len(t)] /\ Len(r) = Len(t) + Len(s)
    BY <1>2, <1>3, <1>5, <2>1
  <2>3. r # <<>>
    BY <1>2, <1>3, <2>1
  <2> QED
    BY <2>2, <2>3
<1> QED
  BY <1>3, <1>9, <1>10, <1>11, <1>12 DEF Spans, Joined

-----------------------------------------------------------------------------
(* How a range is split *)

LEMMA DivProperties ==
    ASSUME NEW a \in Nat, NEW c \in Nat \ {0}
    PROVE  a \div c \in Nat /\ c * (a \div c) <= a /\ a < c * (a \div c) + c
<1>1. a \div c \in Nat
  OBVIOUS
<1>2. c * (a \div c) <= a
  OBVIOUS
<1>3. a < c * (a \div c) + c
  OBVIOUS
<1> QED
  BY <1>1, <1>2, <1>3

LEMMA MultMonotone ==
    ASSUME NEW a \in Nat, NEW b \in Nat, NEW s \in Nat, a <= b
    PROVE  s * a <= s * b /\ s * a \in Nat /\ s * b \in Nat
OBVIOUS

LEMMA DivExact ==
    ASSUME NEW c \in Nat, NEW s \in Nat \ {0}
    PROVE  (s * c) \div s = c
OBVIOUS

\* the smallest of the bounds of consecutive intervals that is not below x
LEMMA FirstAbove ==
    ASSUME NEW n \in Nat, n # 0, NEW low \in [0..n -> Nat], NEW x \in Nat,
           low[0] < x, x <= low[n]
    PROVE  \E i \in 1..n : low[i - 1] < x /\ x <= low[i]
<1>1. PICK S : S = {i \in 1..n : x <= low[i]}
  OBVIOUS
<1>2. S \in SUBSET Nat /\ S # {}
  BY <1>1
<1>3. PICK i : i = Min(S)
  OBVIOUS
<1>4. i \in S /\ \A j \in S : i <= j
  BY <1>2, <1>3, MinProperties
<1>5. i \in 1..n /\ x <= low[i]
  BY <1>1, <1>4
<1>6. low[i - 1] < x
  <2>1. CASE i = 1
    BY <2>1
  <2>2. CASE i > 1
    <3>1. i - 1 \in 1..n /\ i - 1 \notin S
      BY <1>4, <1>5, <2>2
    <3>2. ~(x <= low[i - 1]) /\ low[i - 1] \in Nat
      BY <1>1, <3>1
    <3> QED
      BY <3>2
  <2> QED
    BY <1>5, <2>1, <2>2
<1> QED
  BY <1>5, <1>6

\* SYNC_LINEAR_LARGE: small ranges without a gap
LEMMA SmallRangesProperties ==
    ASSUME NEW t \in Nat, NEW h \in Nat, t < h, NEW s, s = SmallRanges(t, h)
    PROVE  Spans(s, t, h) /\ FindsAll(s, t, h) /\ Adjacent(s, t, h) /\ EndsSmall(s, h)
<1>0. RequestMax \in Nat \ {0}
  BY RangeAssumption
<1>1. PICK n : n = (h - t + RequestMax - 1) \div RequestMax
  OBVIOUS
<1>2. n \in Nat /\ RequestMax * n <= h - t + RequestMax - 1 /\ h - t <= RequestMax * n
  <2>1. h - t + RequestMax - 1 \in Nat
    BY <1>0
  <2>2. /\ n \in Nat /\ RequestMax * n <= h - t + RequestMax - 1
        /\ h - t + RequestMax - 1 < RequestMax * n + RequestMax
    BY <1>0, <1>1, <2>1, DivProperties
  <2>3. RequestMax * n \in Nat
    BY <1>0, <2>2
  <2> QED
    BY <1>0, <2>2, <2>3
<1>3. n # 0
  BY <1>0, <1>2
<1>4. PICK low : low = [i \in 0..n |-> t + i * RequestMax]
  OBVIOUS
<1>5. low \in [0..n -> Nat] /\ low[0] = t /\ low[n] >= h
  BY <1>0, <1>2, <1>4
<1>6. \A i, j \in 0..n : i <= j => low[i] <= low[j]
  <2> SUFFICES ASSUME NEW i \in 0..n, NEW j \in 0..n, i <= j
               PROVE  low[i] <= low[j]
    OBVIOUS
  <2>1. RequestMax * i <= RequestMax * j
    BY <1>0, <1>2, MultMonotone
  <2> QED
    BY <1>0, <1>2, <1>4, <2>1
<1>7. \A i \in 1..n : low[i - 1] < h
  <2>1. low[n - 1] < h
    <3>1. (n - 1) * RequestMax = RequestMax * n - RequestMax /\ n - 1 \in 0..n
      BY <1>0, <1>2, <1>3
    <3> QED
      BY <1>0, <1>2, <1>4, <3>1
  <2> TAKE i \in 1..n
  <2>2. i - 1 \in 0..n /\ n - 1 \in 0..n /\ i - 1 <= n - 1
    BY <1>2, <1>3
  <2>3. low[i - 1] <= low[n - 1] /\ low[i - 1] \in Nat /\ low[n - 1] \in Nat
    BY <1>5, <1>6, <2>2
  <2> QED
    BY <2>1, <2>3
<1>8. \A i \in 1..n : low[i - 1] < low[i]
  <2> TAKE i \in 1..n
  <2>1. i * RequestMax = (i - 1) * RequestMax + RequestMax /\ (i - 1) * RequestMax \in Nat
    BY <1>0, <1>2
  <2> QED
    BY <1>0, <1>2, <1>4, <2>1
<1>9. /\ s = [i \in 1..n |-> NewRange(Small, t + (i - 1) * RequestMax,
                                      Min({t + i * RequestMax, h}), 1)]
  BY <1>1 DEF SmallRanges
<1>10. \A i \in 1..n : /\ s[i] \in GoodRange /\ s[i].type = Small /\ s[i].tail = low[i - 1]
                       /\ s[i].head = IF low[i] <= h THEN low[i] ELSE h
  <2> TAKE i \in 1..n
  <2>1. i \in 0..n /\ i - 1 \in 0..n
    BY <1>2
  <2>2. low[i] = t + i * RequestMax /\ low[i - 1] = t + (i - 1) * RequestMax
    BY <1>4, <2>1
  <2>3. low[i] \in Nat /\ low[i - 1] \in Nat
    BY <1>5, <2>1
  <2>4. PICK m : m = Min({low[i], h})
    OBVIOUS
  <2>5. m = IF low[i] <= h THEN low[i] ELSE h
    BY <2>3, <2>4, MinOfTwo
  <2>6. s[i] = NewRange(Small, low[i - 1], m, 1)
    BY <1>9, <2>2, <2>4
  <2>7. low[i - 1] < m /\ m \in Nat
    BY <1>7, <1>8, <2>3, <2>5
  <2> QED
    BY <2>3, <2>5, <2>6, <2>7 DEF NewRange, GoodRange, Small, NAry
<1>11. s \in Seq(GoodRange) /\ Len(s) = n /\ s # <<>>
  <2>1. \A i \in 1..n : s[i] \in GoodRange
    BY <1>10
  <2>2. s \in [1..n -> GoodRange]
    BY <1>9, <2>1
  <2>3. s \in Seq(GoodRange) /\ Len(s) = n
    BY <1>2, <2>2, SeqDef, LenProperties
  <2> QED
    BY <1>3, <2>3
<1>12. Spans(s, t, h)
  <2>1. \A i \in 1..n : t <= s[i].tail /\ s[i].head <= h
    <3> TAKE i \in 1..n
    <3>1. i \in 0..n /\ i - 1 \in 0..n /\ 0 \in 0..n /\ 0 <= i - 1
      BY <1>2
    <3>2. t <= low[i - 1] /\ low[i] \in Nat
      BY <1>5, <1>6, <3>1
    <3> QED
      BY <1>10, <3>2
  <2>2. ASSUME NEW i \in 1..n, NEW j \in 1..n, i < j
        PROVE  s[i].head <= s[j].tail
    <3>1. i \in 0..n /\ j - 1 \in 0..n /\ i <= j - 1
      BY <1>2, <2>2
    <3>2. low[i] <= low[j - 1] /\ low[i] \in Nat /\ low[j - 1] \in Nat
      BY <1>5, <1>6, <3>1
    <3> QED
      BY <1>10, <3>2
  <2> QED
    BY <1>11, <2>1, <2>2 DEF Spans
<1>13. FindsAll(s, t, h)
  <2> SUFFICES ASSUME NEW b \in Nat, t < b, b <= h
               PROVE  \E i \in 1..n : s[i].tail < b /\ b <= s[i].head
    BY <1>11 DEF FindsAll, Finds
  <2>1. n \in 0..n /\ low[n] \in Nat
    BY <1>2, <1>5
  <2>2. b <= low[n] /\ low[0] < b
    BY <1>5, <2>1
  <2>3. PICK i \in 1..n : low[i - 1] < b /\ b <= low[i]
    BY <1>2, <1>3, <1>5, <2>2, FirstAbove
  <2> QED
    BY <1>10, <2>3
<1>14. s[n].head = h
  <2>1. n \in 1..n /\ n \in 0..n
    BY <1>2, <1>3
  <2>2. low[n] \in Nat
    BY <1>5, <2>1
  <2> QED
    BY <1>5, <1>10, <2>1, <2>2
<1>15. Adjacent(s, t, h)
  <2>1. s[1].tail = t
    BY <1>2, <1>3, <1>5, <1>10
  <2>2. ASSUME NEW i \in 1..(n - 1)
        PROVE  s[i + 1].tail = s[i].head
    <3>1. i \in 1..n /\ i + 1 \in 1..n /\ (i + 1) - 1 = i /\ i \in 0..n
      BY <1>2
    <3>2. low[i] < h /\ low[i] \in Nat
      BY <1>5, <1>7, <3>1
    <3>3. s[i + 1].tail = low[i]
      BY <1>10, <3>1
    <3>4. s[i].head = low[i]
      BY <1>10, <3>1, <3>2
    <3> QED
      BY <3>3, <3>4
  <2> QED
    BY <1>10, <1>11, <1>14, <2>1, <2>2 DEF Adjacent
<1>16. EndsSmall(s, h)
  BY <1>2, <1>3, <1>10, <1>11, <1>14 DEF EndsSmall
<1> QED
  BY <1>12, <1>13, <1>15, <1>16

\* a range by itself
LEMMA OneRange ==
    ASSUME NEW r \in GoodRange, NEW s, s = <<r>>
    PROVE  Spans(s, r.tail, r.head) /\ FindsAll(s, r.tail, r.head)
<1>1. s \in Seq(GoodRange) /\ Len(s) = 1 /\ s[1] = r
  OBVIOUS
<1>2. r.tail \in Nat /\ r.head \in Nat
  BY DEF GoodRange
<1>3. Spans(s, r.tail, r.head)
  BY <1>1, <1>2 DEF Spans
<1>4. FindsAll(s, r.tail, r.head)
  BY <1>1, <1>2 DEF FindsAll, Finds
<1> QED
  BY <1>3, <1>4

\* computeOptimalStep picks one of the counts there are
LEMMA OptimalCountProperties ==
    ASSUME NEW n \in Nat
    PROVE  OptimalCount(n) \in NAryMin..(NAryMax - 1)
<1>0. /\ NAryMin \in Nat /\ NAryMax \in Nat /\ 2 <= NAryMin /\ NAryMin < NAryMax
  BY RangeAssumption
<1>1. PICK C : C = NAryMin..(NAryMax - 1)
  OBVIOUS
<1>2. C \in SUBSET (Nat \ {0}) /\ NAryMin \in C /\ \A c \in C : c <= NAryMax
  BY <1>0, <1>1
<1>3. PICK R : R = {n % c : c \in C}
  OBVIOUS
<1>4. R \in SUBSET Nat
  <2>1. \A c \in C : n % c \in Nat
    BY <1>2
  <2> QED
    BY <1>3, <2>1
<1>5. R # {}
  BY <1>2, <1>3
<1>6. PICK least : least = Min(R)
  OBVIOUS
<1>7. least \in R
  BY <1>4, <1>5, <1>6, MinProperties
<1>8. PICK B : B = {c \in C : n % c = least}
  OBVIOUS
<1>9. B \in SUBSET Nat /\ B # {} /\ \A c \in B : c <= NAryMax
  BY <1>2, <1>3, <1>7, <1>8
<1>10. Max(B) \in B
  BY <1>0, <1>9, MaxProperties
<1>11. OptimalCount(n) = Max(B)
  BY <1>1, <1>3, <1>6, <1>8 DEF OptimalCount
<1> QED
  BY <1>1, <1>8, <1>10, <1>11

\* SYNC_N_ARY: whole steps, and the remainder
LEMMA NAryRangesProperties ==
    ASSUME NEW t \in Nat, NEW h \in Nat, h - t > RequestMax, NEW s, s = NAryRanges(t, h)
    PROVE  Spans(s, t, h) /\ FindsAll(s, t, h) /\ s # <<>>
<1>0. /\ RequestMax \in Nat /\ NAryMin \in Nat /\ NAryMax \in Nat /\ 2 <= NAryMin
      /\ NAryMin < NAryMax /\ NAryMax <= RequestMax
  BY RangeAssumption
<1>1. h - t \in Nat
  BY <1>0
<1>2. PICK count : count = OptimalCount(h - t)
  OBVIOUS
<1>3. count \in Nat \ {0} /\ count < NAryMax
  <2>1. count \in NAryMin..(NAryMax - 1)
    BY <1>1, <1>2, OptimalCountProperties
  <2> QED
    BY <1>0, <2>1
<1>4. PICK step : step = (h - t) \div count
  OBVIOUS
<1>5. step \in Nat /\ count * step <= h - t /\ h - t < count * step + count
  BY <1>1, <1>3, <1>4, DivProperties
<1>6. step # 0
  <2>1. SUFFICES ASSUME step = 0
                 PROVE  FALSE
    OBVIOUS
  <2>2. count * step = 0
    BY <1>3, <2>1
  <2> QED
    BY <1>0, <1>3, <1>5, <2>2
<1>7. PICK split : split = t + step * count
  OBVIOUS
<1>8. split \in Nat /\ split <= h /\ t < split
  <2>1. step * count = count * step /\ count * step \in Nat /\ count * step # 0
    BY <1>3, <1>5, <1>6
  <2> QED
    BY <1>5, <1>7, <2>1
<1>9. PICK r : r = NewRange(NAry, t, split, step)
  OBVIOUS
<1>10. r \in GoodRange /\ r.tail = t /\ r.head = split
  BY <1>3, <1>5, <1>6, <1>7, <1>8, <1>9 DEF NewRange, GoodRange, NAry, Small
<1>11. PICK u : u = <<r>>
  OBVIOUS
<1>12. Spans(u, t, split) /\ FindsAll(u, t, split)
  BY <1>10, <1>11, OneRange
<1>13. PICK v : v = IF split = h THEN <<>> ELSE <<NewRange(Small, split, h, 1)>>
  OBVIOUS
<1>14. s = u \o v
  BY <1>2, <1>4, <1>7, <1>9, <1>11, <1>13 DEF NAryRanges
<1>15. Spans(v, split, h) /\ FindsAll(v, split, h)
  <2>1. CASE split = h
    <3>1. v = <<>> /\ v \in Seq(GoodRange) /\ Len(v) = 0
      BY <1>13, <2>1
    <3> QED
      BY <1>8, <2>1, <3>1 DEF Spans, FindsAll
  <2>2. CASE split # h
    <3>1. split < h
      BY <1>8, <2>2
    <3>2. v = <<NewRange(Small, split, h, 1)>>
      BY <1>13, <2>2
    <3> QED
      BY <1>8, <3>1, <3>2, OneSmall
  <2> QED
    BY <2>1, <2>2
<1>16. Spans(s, t, h) /\ \A x \in Nat : Finds(u, x) \/ Finds(v, x) => Finds(s, x)
  <2>1. t <= split /\ split <= h /\ split \in Nat
    BY <1>8
  <2>2. Spans(u, t, split) /\ Spans(v, split, h)
    BY <1>12, <1>15
  <2>3. Joined(s, u, v, t, h)
    BY <1>14, <2>1, <2>2, SpansConcat
  <2> QED
    BY <2>3 DEF Joined
<1>17. FindsAll(s, t, h)
  <2> SUFFICES ASSUME NEW x \in Nat, t < x, x <= h
               PROVE  Finds(s, x)
    BY DEF FindsAll
  <2>1. x <= split \/ split < x
    BY <1>8
  <2>2. Finds(u, x) \/ Finds(v, x)
    BY <1>12, <1>15, <2>1 DEF FindsAll
  <2> QED
    BY <1>16, <2>2
<1>18. s # <<>>
  <2>1. Len(u) = 1 /\ Len(v) \in Nat /\ u \in Seq(GoodRange) /\ v \in Seq(GoodRange)
    BY <1>10, <1>11, <1>15, LenProperties DEF Spans
  <2>2. Len(s) = 1 + Len(v)
    BY <1>14, <2>1, ConcatProperties
  <2> QED
    BY <2>1, <2>2
<1> QED
  BY <1>16, <1>17, <1>18

\* syncRangeCreate: whatever the type, nothing is lost; a linear one is adjacent
LEMMA LeavesProperties ==
    ASSUME NEW t \in Nat, NEW h \in Nat, t < h, NEW l \in Nat, NEW s, s = Leaves(t, h, l)
    PROVE  /\ Spans(s, t, h) /\ FindsAll(s, t, h) /\ s # <<>>
           /\ h - t <= l \/ h - t <= RequestMax => Adjacent(s, t, h) /\ EndsSmall(s, h)
           /\ h - t <= RequestMax => s[Len(s)].tail = t
<1>0. RequestMax \in Nat
  BY RangeAssumption
<1>1. CASE h - t <= RequestMax
  <2>1. s = <<NewRange(Small, t, h, 1)>>
    BY <1>1 DEF Leaves
  <2>2. /\ Spans(s, t, h) /\ FindsAll(s, t, h) /\ Adjacent(s, t, h) /\ EndsSmall(s, h)
        /\ s[Len(s)].tail = t
    BY <2>1, OneSmall
  <2> QED
    BY <2>2 DEF EndsSmall
<1>2. CASE ~(h - t <= RequestMax) /\ h - t <= l
  <2>1. s = SmallRanges(t, h)
    BY <1>2 DEF Leaves
  <2>2. Spans(s, t, h) /\ FindsAll(s, t, h) /\ Adjacent(s, t, h) /\ EndsSmall(s, h)
    BY <2>1, SmallRangesProperties
  <2> QED
    BY <1>2, <2>2 DEF EndsSmall
<1>3. CASE ~(h - t <= RequestMax) /\ ~(h - t <= l)
  <2>1. s = NAryRanges(t, h) /\ h - t > RequestMax
    BY <1>0, <1>3 DEF Leaves
  <2>2. Spans(s, t, h) /\ FindsAll(s, t, h) /\ s # <<>>
    BY <2>1, NAryRangesProperties
  <2> QED
    BY <1>3, <2>2
<1> QED
  BY <1>1, <1>2, <1>3

\* how far back the last range goes: RequestMax blocks, or all linear from a on
ReachesBack(s, a, h) ==
    s[Len(s)].tail + RequestMax <= h \/ Adjacent(s, a, h)

\* bcsSyncStart
LEMMA PlanProperties ==
    ASSUME NEW t \in Nat, NEW h \in Nat, t < h, NEW s, s = Plan(t, h)
    PROVE  Spans(s, t, h) /\ FindsAll(s, t, h) /\ EndsSmall(s, h) /\ ReachesBack(s, t, h)
<1>0. RequestMax \in Nat \ {0} /\ LinearLimit \in Nat /\ RequestMax < LinearLimit
  BY RangeAssumption
<1>1. CASE h - t < LinearLimit
  <2>1. s = Leaves(t, h, LinearLimit) /\ h - t <= LinearLimit
    BY <1>0, <1>1 DEF Plan
  <2>2. Spans(s, t, h) /\ FindsAll(s, t, h) /\ Adjacent(s, t, h) /\ EndsSmall(s, h)
    BY <1>0, <2>1, LeavesProperties
  <2> QED
    BY <2>2 DEF ReachesBack
<1>2. CASE ~(h - t < LinearLimit)
  <2>1. PICK m : m = h - RequestMax
    OBVIOUS
  <2>2. m \in Nat /\ t < m /\ m < h /\ h - m <= RequestMax /\ m + RequestMax = h
    BY <1>0, <1>2, <2>1
  <2>3. PICK u : u = Leaves(t, m, LinearLimit)
    OBVIOUS
  <2>4. PICK v : v = Leaves(m, h, LinearLimit)
    OBVIOUS
  <2>5. s = u \o v
    BY <1>2, <2>1, <2>3, <2>4 DEF Plan
  <2>6. Spans(u, t, m) /\ FindsAll(u, t, m)
    BY <1>0, <2>2, <2>3, LeavesProperties
  <2>7. Spans(v, m, h) /\ FindsAll(v, m, h) /\ EndsSmall(v, h) /\ v[Len(v)].tail = m
    BY <1>0, <2>2, <2>4, LeavesProperties
  <2>8. /\ Spans(s, t, h) /\ \A x \in Nat : Finds(u, x) \/ Finds(v, x) => Finds(s, x)
        /\ s # <<>> /\ s[Len(s)] = v[Len(v)]
    <3>1. v # <<>> /\ t <= m /\ m <= h
      BY <2>2, <2>7 DEF EndsSmall
    <3>2. Spans(u, t, m) /\ Spans(v, m, h) /\ m \in Nat
      BY <2>2, <2>6, <2>7
    <3>3. Joined(s, u, v, t, h)
      BY <2>5, <3>1, <3>2, SpansConcat
    <3> QED
      BY <3>1, <3>3 DEF Joined
  <2>9. FindsAll(s, t, h)
    <3> SUFFICES ASSUME NEW x \in Nat, t < x, x <= h
                 PROVE  Finds(s, x)
      BY DEF FindsAll
    <3>1. x <= m \/ m < x
      BY <2>2
    <3>2. Finds(u, x) \/ Finds(v, x)
      BY <2>6, <2>7, <3>1 DEF FindsAll
    <3> QED
      BY <2>8, <3>2
  <2>10. EndsSmall(s, h)
    BY <2>7, <2>8 DEF EndsSmall
  <2>11. s[Len(s)].tail + RequestMax <= h
    BY <1>0, <2>2, <2>7, <2>8
  <2> QED
    BY <2>8, <2>9, <2>10, <2>11 DEF ReachesBack
<1> QED
  BY <1>1, <1>2

-----------------------------------------------------------------------------
(* Searching an n-ary range *)

\* the sequences of f are one after the other, bounded by A
InSteps(f, A, n) == \A i \in 1..n : A[i - 1] <= A[i] /\ Spans(f[i], A[i - 1], A[i])

\* the sequence g is what the first k sequences of f hold
Gathers(g, f, A, k) ==
    /\ A[0] <= A[k] /\ Spans(g, A[0], A[k])
    /\ \A i \in 1..k : \A x \in Nat : Finds(f[i], x) => Finds(g, x)

LEMMA FlattenGathers ==
    ASSUME NEW n \in Nat, n # 0, NEW f \in Seq(Seq(GoodRange)), Len(f) = n,
           NEW A \in [0..n -> Nat], InSteps(f, A, n)
    PROVE  Gathers(FlattenSeq(f), f, A, n)
<1>0. \A i \in 1..n : /\ A[i - 1] <= A[i] /\ Spans(f[i], A[i - 1], A[i])
                      /\ i - 1 \in 0..n /\ i \in 0..n
                      /\ A[i - 1] \in Nat /\ A[i] \in Nat
  BY DEF InSteps
<1>1. f # <<>>
  BY EmptySeq
<1>2. PICK g : /\ FlattenSeq(f) = g[n] /\ g[1] = f[1]
               /\ \A i \in 2..n : g[i] = g[i - 1] \o f[i]
  BY <1>1, FlattenSteps
<1>3. PICK bad : bad = {k \in 1..n : ~Gathers(g[k], f, A, k)}
  OBVIOUS
<1>4. SUFFICES ASSUME bad # {}
               PROVE  FALSE
  <2>1. n \in 1..n
    OBVIOUS
  <2> QED
    BY <1>2, <1>3, <2>1
<1>5. bad \in SUBSET Nat
  BY <1>3
<1>6. PICK k : k = Min(bad)
  OBVIOUS
<1>7. k \in bad /\ \A i \in bad : k <= i
  BY <1>4, <1>5, <1>6, MinProperties
<1>8. k \in 1..n /\ ~Gathers(g[k], f, A, k)
  BY <1>3, <1>7
<1>9. CASE k = 1
  <2>1. A[0] <= A[1] /\ Spans(f[1], A[0], A[1])
    BY <1>0, <1>8, <1>9
  <2>2. \A i \in 1..1 : i = 1
    OBVIOUS
  <2>3. Gathers(g[1], f, A, 1)
    BY <1>2, <2>1, <2>2, Zenon DEF Gathers
  <2> QED
    BY <1>8, <1>9, <2>3
<1>10. CASE k > 1
  <2>1. k - 1 \in 1..n /\ k - 1 \notin bad /\ k \in 2..n
    BY <1>7, <1>8, <1>10
  <2>2. Gathers(g[k - 1], f, A, k - 1)
    BY <1>3, <2>1
  <2>3. g[k] = g[k - 1] \o f[k]
    BY <1>2, <2>1
  <2>4. PICK a, b, c : a = A[0] /\ b = A[k - 1] /\ c = A[k]
    OBVIOUS
  <2>5. a \in Nat /\ b \in Nat /\ c \in Nat /\ a <= b /\ b <= c /\ a <= c
    <3>1. 0 \in 0..n
      OBVIOUS
    <3>2. a \in Nat /\ b \in Nat /\ c \in Nat /\ b <= c
      BY <1>0, <1>8, <2>4, <3>1
    <3>3. a <= b
      BY <2>2, <2>4 DEF Gathers
    <3> QED
      BY <3>2, <3>3
  <2>6. Spans(g[k - 1], a, b) /\ Spans(f[k], b, c)
    BY <1>0, <1>8, <2>2, <2>4 DEF Gathers
  <2>7. Joined(g[k], g[k - 1], f[k], a, c)
    BY <2>3, <2>5, <2>6, SpansConcat
  <2>8. ASSUME NEW i \in 1..k, NEW x \in Nat, Finds(f[i], x)
        PROVE  Finds(g[k], x)
    <3>1. CASE i = k
      <4>1. Finds(f[k], x)
        BY <2>8, <3>1
      <4> QED
        BY <2>7, <4>1, Zenon DEF Joined
    <3>2. CASE i # k
      <4>1. i \in 1..(k - 1)
        BY <1>8, <3>2
      <4>2. Finds(g[k - 1], x)
        BY <2>2, <2>8, <4>1 DEF Gathers
      <4> QED
        BY <2>7, <4>2, Zenon DEF Joined
    <3> QED
      BY <3>1, <3>2
  <2>9. Spans(g[k], a, c)
    BY <2>7 DEF Joined
  <2>10. Gathers(g[k], f, A, k)
    BY <2>4, <2>5, <2>8, <2>9, Zenon DEF Gathers
  <2> QED
    BY <1>8, <2>10
<1> QED
  BY <1>8, <1>9, <1>10

\* every change between the bounds of the range is in a subrange
LEMMA DifferingProperties ==
    ASSUME NEW r \in GoodRange, r.type = NAry, NEW D, D = Differing(r)
    PROVE  /\ Spans(D, r.tail, r.head)
           /\ \A b \in changed : b \in Nat /\ r.tail < b /\ b <= r.head => Finds(D, b)
<1>0. LimitIfNAry \in Nat
  BY RangeAssumption
<1>1. PICK t, h, step : t = r.tail /\ h = r.head /\ step = r.step
  OBVIOUS
<1>2. t \in Nat /\ h \in Nat /\ step \in Nat \ {0} /\ t < h
  BY <1>1 DEF GoodRange
<1>3. PICK n \in Nat : h = t + step * n
  BY <1>1 DEF GoodRange
<1>4. n # 0
  BY <1>2, <1>3
<1>5. (h - t) \div step = n
  <2>1. h - t = step * n
    BY <1>2, <1>3
  <2> QED
    BY <1>2, <2>1, DivExact
<1>6. PICK A : A = [i \in 0..n |-> t + i * step]
  OBVIOUS
<1>7. A \in [0..n -> Nat] /\ A[0] = t /\ A[n] = h
  BY <1>2, <1>3, <1>6
<1>8. \A i \in 1..n : /\ A[i - 1] \in Nat /\ A[i] \in Nat /\ A[i - 1] < A[i]
                      /\ A[i - 1] = t + (i - 1) * step /\ A[i] = t + i * step
  <2> TAKE i \in 1..n
  <2>1. i * step = (i - 1) * step + step /\ (i - 1) * step \in Nat
    BY <1>2
  <2>2. i \in 0..n /\ i - 1 \in 0..n
    OBVIOUS
  <2> QED
    BY <1>2, <1>6, <2>1, <2>2
<1>9. PICK f : f = [i \in 1..n |-> IF Differ(A[i - 1], A[i])
                                    THEN Leaves(A[i - 1], A[i], LimitIfNAry) ELSE <<>>]
  OBVIOUS
<1>10. D = FlattenSeq(f)
  <2>1. f = [i \in 1..n |-> IF Differ(t + (i - 1) * step, t + i * step)
                            THEN Leaves(t + (i - 1) * step, t + i * step, LimitIfNAry)
                            ELSE <<>>]
    BY <1>8, <1>9
  <2> QED
    BY <1>1, <1>5, <2>1 DEF Differing
<1>11. \A i \in 1..n : /\ Spans(f[i], A[i - 1], A[i])
                       /\ Differ(A[i - 1], A[i]) => FindsAll(f[i], A[i - 1], A[i])
  <2> TAKE i \in 1..n
  <2>1. PICK a, b : a = A[i - 1] /\ b = A[i]
    OBVIOUS
  <2>2. a \in Nat /\ b \in Nat /\ a < b
    BY <1>8, <2>1
  <2>3. f[i] = IF Differ(a, b) THEN Leaves(a, b, LimitIfNAry) ELSE <<>>
    BY <1>9, <2>1, Zenon
  <2>4. CASE Differ(a, b)
    <3>1. f[i] = Leaves(a, b, LimitIfNAry)
      BY <2>3, <2>4
    <3>2. Spans(f[i], a, b) /\ FindsAll(f[i], a, b)
      BY <1>0, <2>2, <3>1, LeavesProperties
    <3> QED
      BY <2>1, <3>2
  <2>5. CASE ~Differ(a, b)
    <3>1. f[i] = <<>> /\ f[i] \in Seq(GoodRange) /\ Len(f[i]) = 0
      BY <2>3, <2>5
    <3>2. Spans(f[i], a, b)
      BY <3>1 DEF Spans
    <3> QED
      BY <2>1, <2>5, <3>2
  <2> QED
    BY <2>4, <2>5
<1>12. f \in Seq(Seq(GoodRange)) /\ Len(f) = n
  <2>1. \A i \in 1..n : f[i] \in Seq(GoodRange)
    BY <1>11 DEF Spans
  <2>2. f \in [1..n -> Seq(GoodRange)]
    BY <1>9, <2>1
  <2> QED
    BY <2>2, SeqDef, LenProperties
<1>13. InSteps(f, A, n)
  BY <1>8, <1>11 DEF InSteps
<1>14. Gathers(D, f, A, n)
  BY <1>4, <1>7, <1>10, <1>12, <1>13, FlattenGathers
<1>15. ASSUME NEW b \in changed, b \in Nat, t < b, b <= h
       PROVE  Finds(D, b)
  <2>1. PICK i \in 1..n : A[i - 1] < b /\ b <= A[i]
    BY <1>4, <1>7, <1>15, FirstAbove
  <2>2. Differ(A[i - 1], A[i])
    BY <1>15, <2>1 DEF Differ
  <2>3. Finds(f[i], b)
    BY <1>11, <1>15, <2>1, <2>2 DEF FindsAll
  <2> QED
    BY <1>14, <1>15, <2>3 DEF Gathers
<1>16. Spans(D, t, h)
  BY <1>7, <1>14 DEF Gathers
<1> QED
  BY <1>1, <1>15, <1>16

-----------------------------------------------------------------------------
(* The invariant *)

\* the sync rt is under way: the ranges s remain, l is the last header handed
\* over, f where its run begins, rep what was reported of the changes ch
Running(rt, s, l, f, rep, ch) ==
    /\ rt \in [tail: BlockNumber, head: BlockNumber] /\ rt.tail < rt.head
    /\ l \in Nat /\ f \in Nat /\ rt.tail <= f /\ f <= l
    /\ Spans(s, l, rt.head) /\ EndsSmall(s, rt.head)
    /\ \/ s[Len(s)].tail + RequestMax <= rt.head
       \/ f = rt.tail /\ Adjacent(s, l, rt.head)
    /\ \A b \in ch : rt.tail < b /\ b <= rt.head => b \in rep \/ Finds(s, b)

\* what was told is in order, and before m
ToldBefore(pr, m) ==
    /\ pr \in Seq(Nat)
    /\ \A i, j \in 1..Len(pr) : i < j => pr[i] < pr[j]
    /\ \A i \in 1..Len(pr) : pr[i] < m

LEMMA ToldAppend ==
    ASSUME NEW pr, NEW m \in Nat, ToldBefore(pr, m), NEW x \in Nat, m <= x
    PROVE  ToldBefore(Append(pr, x), x + 1)
<1>1. pr \in Seq(Nat) /\ Len(pr) \in Nat
  BY LenProperties DEF ToldBefore
<1>2. PICK q : q = Append(pr, x)
  OBVIOUS
<1>3. /\ q \in Seq(Nat) /\ Len(q) = Len(pr) + 1 /\ q[Len(pr) + 1] = x
      /\ \A i \in 1..Len(pr) : q[i] = pr[i]
  BY <1>1, <1>2, AppendProperties
<1>4. \A i \in 1..Len(pr) : pr[i] \in Nat /\ pr[i] < x
  <2> TAKE i \in 1..Len(pr)
  <2>1. pr[i] \in Nat /\ pr[i] < m
    BY <1>1, ElementOfSeq DEF ToldBefore
  <2> QED
    BY <2>1
<1>5. ASSUME NEW i \in 1..Len(q), NEW j \in 1..Len(q), i < j
      PROVE  q[i] < q[j]
  <2>1. i \in 1..Len(pr)
    BY <1>1, <1>3, <1>5
  <2>2. CASE j = Len(pr) + 1
    BY <1>3, <1>4, <2>1, <2>2
  <2>3. CASE j # Len(pr) + 1
    <3>1. j \in 1..Len(pr)
      BY <1>1, <1>3, <2>3
    <3>2. pr[i] < pr[j]
      BY <1>5, <2>1, <3>1 DEF ToldBefore
    <3> QED
      BY <1>3, <2>1, <3>1, <3>2
  <2> QED
    BY <2>2, <2>3
<1>6. \A i \in 1..Len(q) : q[i] < x + 1
  <2> TAKE i \in 1..Len(q)
  <2>1. CASE i = Len(pr) + 1
    BY <1>3, <2>1
  <2>2. CASE i # Len(pr) + 1
    <3>1. i \in 1..Len(pr)
      BY <1>1, <1>3, <2>2
    <3> QED
      BY <1>3, <1>4, <3>1
  <2> QED
    BY <2>1, <2>2
<1> QED
  BY <1>2, <1>3, <1>5, <1>6 DEF ToldBefore

LEMMA ToldWeaken ==
    ASSUME NEW pr, NEW m \in Nat, ToldBefore(pr, m), NEW n \in Nat, m <= n
    PROVE  ToldBefore(pr, n)
<1>1. \A i \in 1..Len(pr) : pr[i] \in Nat /\ pr[i] < m
  BY ElementOfSeq DEF ToldBefore
<1>2. \A i \in 1..Len(pr) : pr[i] < n
  BY <1>1
<1> QED
  BY <1>2 DEF ToldBefore

LEMMA ToldOne ==
    ASSUME NEW x \in Nat
    PROVE  ToldBefore(<<x>>, x + 1)
<1>1. PICK q : q = <<x>>
  OBVIOUS
<1>2. q \in Seq(Nat) /\ Len(q) = 1 /\ q[1] = x
  BY <1>1
<1>3. ToldBefore(q, x + 1)
  BY <1>2 DEF ToldBefore
<1> QED
  BY <1>1, <1>3

\* a sequence of ranges is its first one and the rest
Divides(s, r, g, a, b) ==
    /\ g \in GoodRange /\ a <= g.tail /\ g.tail < g.head /\ g.head <= b
    /\ g = s[1] /\ Spans(r, g.head, b)
    /\ \A x \in Nat : Finds(s, x) => (g.tail < x /\ x <= g.head) \/ Finds(r, x)
    /\ r # <<>> => r[Len(r)] = s[Len(s)] /\ (Adjacent(s, a, b) => Adjacent(r, g.head, b))
    /\ r = <<>> => g = s[Len(s)]

LEMMA SpansTail ==
    ASSUME NEW a \in Nat, NEW b \in Nat, NEW s, Spans(s, a, b), s # <<>>,
           NEW r, r = Tail(s), NEW g, g = Head(s)
    PROVE  Divides(s, r, g, a, b)
<1>1. s \in Seq(GoodRange)
  BY DEF Spans
<1>2. /\ r \in Seq(GoodRange) /\ Len(r) = Len(s) - 1 /\ g = s[1] /\ g \in GoodRange
      /\ \A i \in 1..Len(r) : r[i] = s[i + 1]
  BY <1>1, HeadTailProperties
<1>3. Len(s) \in Nat /\ Len(s) >= 1 /\ Len(r) \in Nat
  BY <1>1, <1>2, EmptySeq, LenProperties
<1>4. \A i \in 1..Len(r) : i + 1 \in 1..Len(s) /\ i \in 1..Len(s) /\ 1 < i + 1 /\ r[i] = s[i + 1]
  BY <1>2, <1>3
<1>5. /\ g.tail \in Nat /\ g.head \in Nat /\ a <= g.tail /\ g.tail < g.head /\ g.head <= b
  <2>1. 1 \in 1..Len(s)
    BY <1>3
  <2>2. a <= s[1].tail /\ s[1].head <= b
    BY <2>1 DEF Spans
  <2> QED
    BY <1>2, <2>2 DEF GoodRange
<1>6. Spans(r, g.head, b)
  <2>1. \A i \in 1..Len(r) : g.head <= r[i].tail /\ r[i].head <= b
    <3> TAKE i \in 1..Len(r)
    <3>1. i + 1 \in 1..Len(s) /\ 1 \in 1..Len(s) /\ 1 < i + 1 /\ r[i] = s[i + 1]
      BY <1>3, <1>4
    <3>2. s[1].head <= s[i + 1].tail /\ s[i + 1].head <= b
      BY <3>1 DEF Spans
    <3> QED
      BY <1>2, <3>1, <3>2
  <2>2. ASSUME NEW i \in 1..Len(r), NEW j \in 1..Len(r), i < j
        PROVE  r[i].head <= r[j].tail
    <3>1. i + 1 \in 1..Len(s) /\ j + 1 \in 1..Len(s) /\ i + 1 < j + 1
      BY <1>3, <1>4, <2>2
    <3>2. s[i + 1].head <= s[j + 1].tail
      BY <3>1 DEF Spans
    <3> QED
      BY <1>4, <3>2
  <2> QED
    BY <1>2, <2>1, <2>2 DEF Spans
<1>7. ASSUME NEW x \in Nat, Finds(s, x)
      PROVE  (g.tail < x /\ x <= g.head) \/ Finds(r, x)
  <2>1. PICK i \in 1..Len(s) : s[i].tail < x /\ x <= s[i].head
    BY <1>7 DEF Finds
  <2>2. CASE i = 1
    BY <1>2, <2>1, <2>2
  <2>3. CASE i # 1
    <3>1. i - 1 \in 1..Len(r) /\ (i - 1) + 1 = i
      BY <1>2, <1>3, <2>3
    <3>2. r[i - 1] = s[i]
      BY <1>2, <3>1
    <3> QED
      BY <2>1, <3>1, <3>2 DEF Finds
  <2> QED
    BY <2>2, <2>3
<1>8. ASSUME r # <<>>
      PROVE  r[Len(r)] = s[Len(s)] /\ (Adjacent(s, a, b) => Adjacent(r, g.head, b))
  <2>1. Len(r) >= 1 /\ Len(r) \in 1..Len(r) /\ 1 \in 1..Len(r) /\ Len(r) + 1 = Len(s)
    BY <1>2, <1>3, <1>8, EmptySeq
  <2>2. r[Len(r)] = s[Len(s)] /\ r[1] = s[2]
    BY <1>2, <2>1
  <2>3. ASSUME Adjacent(s, a, b)
        PROVE  Adjacent(r, g.head, b)
    <3>1. \A i \in 1..Len(r) : r[i].type = Small
      BY <1>4, <2>3 DEF Adjacent
    <3>2. r[1].tail = g.head
      <4>1. 1 \in 1..(Len(s) - 1) /\ 1 + 1 = 2
        BY <1>3, <2>1
      <4>2. s[2].tail = s[1].head
        BY <2>3, <4>1 DEF Adjacent
      <4> QED
        BY <1>2, <2>2, <4>2
    <3>3. ASSUME NEW i \in 1..(Len(r) - 1)
          PROVE  r[i + 1].tail = r[i].head
      <4>1. /\ i \in 1..Len(r) /\ i + 1 \in 1..Len(r) /\ i + 1 \in 1..(Len(s) - 1)
        BY <1>3, <2>1
      <4>2. s[(i + 1) + 1].tail = s[i + 1].head
        BY <2>3, <4>1 DEF Adjacent
      <4> QED
        BY <1>2, <4>1, <4>2
    <3>4. s[Len(s)].head = b
      BY <2>3 DEF Adjacent
    <3> QED
      BY <1>8, <2>2, <3>1, <3>2, <3>3, <3>4 DEF Adjacent
  <2> QED
    BY <2>2, <2>3
<1>9. ASSUME r = <<>>
      PROVE  g = s[Len(s)]
  <2>1. Len(r) = 0
    BY <1>2, <1>9, EmptySeq
  <2>2. Len(s) = 1
    BY <1>2, <1>3, <2>1
  <2> QED
    BY <1>2, <2>2
<1> QED
  BY <1>2, <1>5, <1>6, <1>7, <1>8, <1>9 DEF Divides

\* where a sync under way stands
LEMMA RunningBounds ==
    ASSUME NEW rt, NEW s, NEW l, NEW f, NEW rep, NEW ch, Running(rt, s, l, f, rep, ch)
    PROVE  /\ rt.tail \in BlockNumber /\ rt.head \in BlockNumber /\ rt.tail < rt.head
           /\ l \in BlockNumber /\ f \in BlockNumber /\ f <= l /\ l < rt.head /\ rt.tail <= f
           /\ s # <<>> /\ Divides(s, Tail(s), Head(s), l, rt.head)
<1>0. MaxNumber \in Nat
  BY RangeAssumption
<1>1. /\ rt.tail \in BlockNumber /\ rt.head \in BlockNumber /\ rt.tail < rt.head
      /\ l \in Nat /\ f \in Nat /\ f <= l /\ rt.tail <= f
      /\ Spans(s, l, rt.head) /\ s # <<>>
  BY DEF Running, EndsSmall
<1>2. rt.head \in Nat /\ rt.head <= MaxNumber
  BY <1>0, <1>1 DEF BlockNumber
<1>3. Divides(s, Tail(s), Head(s), l, rt.head)
  BY <1>1, <1>2, SpansTail
<1>4. /\ l <= Head(s).tail /\ Head(s).tail < Head(s).head /\ Head(s).head <= rt.head
      /\ Head(s).tail \in Nat /\ Head(s).head \in Nat
  BY <1>3 DEF Divides, GoodRange
<1>5. l < rt.head
  BY <1>1, <1>2, <1>4
<1>6. l \in BlockNumber /\ f \in BlockNumber
  BY <1>0, <1>1, <1>2, <1>5 DEF BlockNumber
<1> QED
  BY <1>1, <1>3, <1>5, <1>6

\* a sync begins
LEMMA RunningStart ==
    ASSUME NEW t \in BlockNumber, NEW h \in BlockNumber, t < h,
           NEW ch, ch \subseteq BlockNumber
    PROVE  Running([tail |-> t, head |-> h], Plan(t, h), t, t, {}, ch)
<1>0. MaxNumber \in Nat /\ RequestMax \in Nat
  BY RangeAssumption
<1>1. t \in Nat /\ h \in Nat /\ ch \subseteq Nat
  BY <1>0 DEF BlockNumber
<1>2. PICK s : s = Plan(t, h)
  OBVIOUS
<1>3. PICK rt : rt = [tail |-> t, head |-> h]
  OBVIOUS
<1>4. rt \in [tail: BlockNumber, head: BlockNumber] /\ rt.tail = t /\ rt.head = h
  BY <1>3
<1>5. Spans(s, t, h) /\ FindsAll(s, t, h) /\ EndsSmall(s, h) /\ ReachesBack(s, t, h)
  BY <1>1, <1>2, PlanProperties
<1>6. \A b \in ch : t < b /\ b <= h => Finds(s, b)
  BY <1>1, <1>5 DEF FindsAll
<1>7. s[Len(s)].tail + RequestMax <= h \/ Adjacent(s, t, h)
  BY <1>5 DEF ReachesBack
<1>8. t <= t
  BY <1>1
<1>9. Running(rt, s, t, t, {}, ch)
  BY <1>1, <1>4, <1>5, <1>6, <1>7, <1>8 DEF Running
<1> QED
  BY <1>2, <1>3, <1>9

\* the range g was answered and r remain
AfterSmall(rt, g, r, f, rep, ch) ==
    /\ r # <<>> => Running(rt, r, g.head, f, rep, ch)
    /\ r = <<>> => /\ g.head = rt.head
                   /\ f = rt.tail \/ f + RequestMax <= rt.head
                   /\ \A b \in ch : rt.tail < b /\ b <= rt.head => b \in rep

\* the headers of a small range are reported
LEMMA RunningSmall ==
    ASSUME NEW rt, NEW s, NEW l, NEW f, NEW rep, NEW ch, Running(rt, s, l, f, rep, ch),
           ch \subseteq BlockNumber,
           NEW g, g = Head(s), NEW r, r = Tail(s), g.type = Small,
           NEW rep2, rep2 = rep \cup g.tail .. g.head,
           NEW f2, f2 = IF g.tail <= l + 1 THEN f ELSE g.tail
    PROVE  AfterSmall(rt, g, r, f2, rep2, ch)
<1>0. MaxNumber \in Nat /\ RequestMax \in Nat
  BY RangeAssumption
<1>1. /\ rt \in [tail: BlockNumber, head: BlockNumber] /\ rt.tail < rt.head
      /\ l \in Nat /\ f \in Nat /\ rt.tail <= f /\ f <= l
      /\ Spans(s, l, rt.head) /\ EndsSmall(s, rt.head)
  BY DEF Running
<1>2. rt.tail \in Nat /\ rt.head \in Nat
  BY <1>0, <1>1 DEF BlockNumber
<1>3. Divides(s, r, g, l, rt.head)
  BY RunningBounds
<1>4. /\ g.tail \in Nat /\ g.head \in Nat /\ l <= g.tail /\ g.tail < g.head
      /\ g.head <= rt.head /\ g = s[1] /\ Spans(r, g.head, rt.head)
  BY <1>3 DEF Divides, GoodRange
<1>5. f2 \in Nat /\ rt.tail <= f2 /\ f2 <= g.tail /\ f2 <= g.head
  <2>1. CASE g.tail <= l + 1
    BY <1>1, <1>2, <1>4, <2>1
  <2>2. CASE ~(g.tail <= l + 1)
    BY <1>1, <1>2, <1>4, <2>2
  <2> QED
    BY <2>1, <2>2
<1>6. s[Len(s)].tail + RequestMax <= rt.head \/ (f = rt.tail /\ Adjacent(s, l, rt.head))
  BY DEF Running
<1>7. Adjacent(s, l, rt.head) => g.tail = l /\ f2 = f
  <2>1. ASSUME Adjacent(s, l, rt.head)
        PROVE  g.tail = l
    BY <1>4, <2>1 DEF Adjacent
  <2> QED
    BY <1>1, <2>1
<1>8. ASSUME NEW b \in ch, rt.tail < b, b <= rt.head
      PROVE  b \in rep2 \/ Finds(r, b)
  <2>1. b \in Nat
    BY <1>0 DEF BlockNumber
  <2>2. b \in rep \/ Finds(s, b)
    BY <1>8 DEF Running
  <2>3. CASE b \in rep
    BY <2>3
  <2>4. CASE Finds(s, b)
    <3>1. (g.tail < b /\ b <= g.head) \/ Finds(r, b)
      BY <1>3, <2>1, <2>4 DEF Divides
    <3>2. g.tail < b /\ b <= g.head => b \in g.tail .. g.head
      BY <1>4, <2>1
    <3> QED
      BY <3>1, <3>2
  <2> QED
    BY <2>2, <2>3, <2>4
<1>9. ASSUME r # <<>>
      PROVE  Running(rt, r, g.head, f2, rep2, ch)
  <2>1. /\ r[Len(r)] = s[Len(s)]
        /\ Adjacent(s, l, rt.head) => Adjacent(r, g.head, rt.head)
    BY <1>3, <1>9 DEF Divides
  <2>2. EndsSmall(r, rt.head)
    BY <1>1, <1>9, <2>1 DEF EndsSmall
  <2>3. \/ r[Len(r)].tail + RequestMax <= rt.head
        \/ f2 = rt.tail /\ Adjacent(r, g.head, rt.head)
    BY <1>6, <1>7, <2>1
  <2> QED
    BY <1>1, <1>4, <1>5, <1>8, <2>2, <2>3 DEF Running
<1>10. ASSUME r = <<>>
       PROVE  /\ g.head = rt.head
              /\ f2 = rt.tail \/ f2 + RequestMax <= rt.head
              /\ \A b \in ch : rt.tail < b /\ b <= rt.head => b \in rep2
  <2>1. g = s[Len(s)]
    BY <1>3, <1>10 DEF Divides
  <2>2. g.head = rt.head
    BY <1>1, <2>1 DEF EndsSmall
  <2>3. f2 = rt.tail \/ f2 + RequestMax <= rt.head
    <3>1. CASE f = rt.tail /\ Adjacent(s, l, rt.head)
      BY <1>7, <3>1
    <3>2. CASE g.tail + RequestMax <= rt.head
      BY <1>0, <1>2, <1>4, <1>5, <3>2
    <3> QED
      BY <1>6, <2>1, <3>1, <3>2
  <2>4. \A x : ~Finds(r, x)
    <3>1. r \in Seq(GoodRange) /\ Len(r) = 0
      BY <1>4, <1>10, EmptySeq DEF Spans
    <3> QED
      BY <3>1 DEF Finds
  <2> QED
    BY <1>8, <2>2, <2>3, <2>4
<1> QED
  BY <1>9, <1>10 DEF AfterSmall

LEMMA SpansWiden ==
    ASSUME NEW a \in Nat, NEW b \in Nat, NEW c \in Nat, c <= a, NEW s, Spans(s, a, b)
    PROVE  Spans(s, c, b)
<1>1. \A i \in 1..Len(s) : s[i] \in GoodRange /\ a <= s[i].tail /\ s[i].head <= b
  BY ElementOfSeq DEF Spans
<1>2. \A i \in 1..Len(s) : c <= s[i].tail /\ s[i].head <= b
  BY <1>1 DEF GoodRange
<1> QED
  BY <1>2 DEF Spans

\* an n-ary range is replaced by the subranges where the accounts differ
LEMMA RunningNAry ==
    ASSUME NEW rt, NEW s, NEW l, NEW f, NEW rep, Running(rt, s, l, f, rep, changed),
           changed \subseteq BlockNumber,
           NEW g, g = Head(s), g.type = NAry,
           NEW D, D = Differing(g), NEW r, r = D \o Tail(s)
    PROVE  r # <<>> /\ Running(rt, r, l, f, rep, changed)
<1>0. MaxNumber \in Nat /\ RequestMax \in Nat
  BY RangeAssumption
<1>1. /\ rt \in [tail: BlockNumber, head: BlockNumber] /\ rt.tail < rt.head
      /\ l \in Nat /\ f \in Nat /\ rt.tail <= f /\ f <= l
      /\ Spans(s, l, rt.head) /\ EndsSmall(s, rt.head)
  BY DEF Running
<1>2. rt.tail \in Nat /\ rt.head \in Nat
  BY <1>0, <1>1 DEF BlockNumber
<1>3. PICK u : u = Tail(s)
  OBVIOUS
<1>4. Divides(s, u, g, l, rt.head)
  BY <1>3, RunningBounds
<1>5. /\ g \in GoodRange /\ g.tail \in Nat /\ g.head \in Nat /\ l <= g.tail /\ g.tail < g.head
      /\ g.head <= rt.head /\ g = s[1] /\ Spans(u, g.head, rt.head) /\ l <= g.head
  BY <1>1, <1>4 DEF Divides, GoodRange
<1>6. u # <<>>
  <2>1. SUFFICES ASSUME u = <<>>
                 PROVE  FALSE
    OBVIOUS
  <2>2. g = s[Len(s)]
    BY <1>4, <2>1 DEF Divides
  <2>3. g.type = Small
    BY <1>1, <2>2 DEF EndsSmall
  <2> QED
    BY <2>3 DEF Small, NAry
<1>7. /\ Spans(D, g.tail, g.head)
      /\ \A b \in changed : b \in Nat /\ g.tail < b /\ b <= g.head => Finds(D, b)
  BY <1>5, DifferingProperties
<1>8. Spans(D, l, g.head)
  BY <1>1, <1>5, <1>7, SpansWiden
<1>9. Joined(r, D, u, l, rt.head)
  BY <1>1, <1>2, <1>3, <1>5, <1>8, SpansConcat
<1>10. r # <<>> /\ r[Len(r)] = s[Len(s)] /\ Spans(r, l, rt.head)
  <2>1. u[Len(u)] = s[Len(s)]
    BY <1>4, <1>6 DEF Divides
  <2> QED
    BY <1>6, <1>9, <2>1 DEF Joined
<1>11. s[Len(s)].tail + RequestMax <= rt.head
  <2>1. ~Adjacent(s, l, rt.head)
    <3>1. SUFFICES ASSUME Adjacent(s, l, rt.head)
                   PROVE  FALSE
      OBVIOUS
    <3>2. s \in Seq(GoodRange) /\ s # <<>>
      BY <1>1 DEF Spans, EndsSmall
    <3>3. 1 \in 1..Len(s)
      BY <3>2, EmptySeq, LenProperties
    <3>4. g.type = Small
      BY <1>5, <3>1, <3>3 DEF Adjacent
    <3> QED
      BY <3>4 DEF Small, NAry
  <2> QED
    BY <2>1 DEF Running
<1>12. ASSUME NEW b \in changed, rt.tail < b, b <= rt.head
       PROVE  b \in rep \/ Finds(r, b)
  <2>1. b \in Nat
    BY <1>0 DEF BlockNumber
  <2>2. b \in rep \/ Finds(s, b)
    BY <1>12 DEF Running
  <2>3. Finds(s, b) => (g.tail < b /\ b <= g.head) \/ Finds(u, b)
    BY <1>4, <2>1 DEF Divides
  <2>4. Finds(D, b) \/ Finds(u, b) => Finds(r, b)
    BY <1>9, <2>1 DEF Joined
  <2> QED
    BY <1>7, <2>1, <2>2, <2>3, <2>4
<1>13. EndsSmall(r, rt.head)
  BY <1>1, <1>10 DEF EndsSmall
<1>14. r[Len(r)].tail + RequestMax <= rt.head
  BY <1>10, <1>11
<1>15. Running(rt, r, l, f, rep, changed)
  BY <1>1, <1>10, <1>12, <1>13, <1>14, Zenon DEF Running
<1> QED
  BY <1>10, <1>15

-----------------------------------------------------------------------------
(* The steps *)

LEMMA NoSyncNoRange ==
    /\ Idle # Cut
    /\ \A x \in [tail: BlockNumber, head: BlockNumber] : x \notin {Idle, Cut}
    /\ \A x \in [tail: BlockNumber, head: BlockNumber, last: BlockNumber, from: BlockNumber] :
          x \notin {Idle, Cut}
BY RangeAssumption DEF BlockNumber

\* bcsSyncRange: where there is something to sync, the borrow does no harm
LEMMA AdjustedProperties ==
    ASSUME NEW t \in BlockNumber, NEW h \in BlockNumber, Syncable(t, h)
    PROVE  Adjusted(t, h) \in BlockNumber /\ Adjusted(t, h) < h
<1>0. MaxNumber \in Nat /\ LinearLimit \in Nat /\ WordSize \in Nat \ {0}
  BY RangeAssumption
<1>1. t \in Nat /\ h \in Nat /\ h <= MaxNumber /\ t <= MaxNumber
  BY <1>0 DEF BlockNumber
<1>2. h > Adjusted(t, h)
  BY DEF Syncable
<1>3. Adjusted(t, h) \in Nat
  <2>1. CASE mode = "P2P_WITH_BRD_SYNC"
    <3>1. PICK x : x = (h - LinearLimit + 1) % WordSize
      OBVIOUS
    <3>2. x \in Nat
      <4>1. h - LinearLimit + 1 \in Int
        BY <1>0, <1>1
      <4> QED
        BY <1>0, <3>1, <4>1
    <3>3. Max({t, x}) = IF t >= x THEN t ELSE x
      BY <1>1, <3>2, MaxOfTwo
    <3>4. Adjusted(t, h) = Max({t, x})
      BY <2>1, <3>1 DEF Adjusted
    <3> QED
      BY <1>1, <3>2, <3>3, <3>4
  <2>2. CASE mode # "P2P_WITH_BRD_SYNC"
    BY <1>1, <2>2 DEF Adjusted
  <2> QED
    BY <2>1, <2>2
<1>4. PICK a : a = Adjusted(t, h)
  OBVIOUS
<1>5. a \in 0..MaxNumber /\ a < h
  BY <1>0, <1>1, <1>2, <1>3, <1>4
<1> QED
  BY <1>4, <1>5 DEF BlockNumber

\* SyncInv of given values
Holds(ch, rt, s, l, f, rep, pr) ==
    /\ ch \in ChangeSets
    /\ rt \in {Idle, Cut} \cup [tail: BlockNumber, head: BlockNumber]
    /\ \E m \in Nat : ToldBefore(pr, m)
    /\ rt \notin {Idle, Cut} => /\ Running(rt, s, l, f, rep, ch)
                                /\ ToldBefore(pr, rt.head) /\ ToldBefore(pr, l + 1)

SyncInv == Holds(changed, root, todo, last, from, reported, progress)

LEMMA ChangesAreBlocks ==
    ASSUME NEW ch \in ChangeSets
    PROVE  ch \subseteq BlockNumber
BY RangeAssumption DEF BlockNumber

LEMMA BeginsPreserves ==
    ASSUME NEW t \in BlockNumber, NEW h \in BlockNumber, Syncable(t, h), Begins(t, h),
           SyncInv, changed' = changed
    PROVE  SyncInv'
<1>0. MaxNumber \in Nat
  BY RangeAssumption
<1>1. PICK a : a = Adjusted(t, h)
  OBVIOUS
<1>2. a \in BlockNumber /\ a < h
  BY <1>1, AdjustedProperties
<1>3. a \in Nat /\ h \in Nat
  BY <1>0, <1>2 DEF BlockNumber
<1>4. PICK rt, s, pr : rt = [tail |-> a, head |-> h] /\ s = Plan(a, h) /\ pr = <<a>>
  OBVIOUS
<1>5. /\ root' = rt /\ todo' = s /\ last' = a /\ from' = a /\ reported' = {}
      /\ progress' = pr
  BY <1>1, <1>4 DEF Begins
<1>6. changed \in ChangeSets
  BY DEF SyncInv, Holds
<1>7. Running(rt, s, a, a, {}, changed)
  BY <1>2, <1>4, <1>6, ChangesAreBlocks, RunningStart
<1>8. rt \in [tail: BlockNumber, head: BlockNumber] /\ rt.head = h
  BY <1>2, <1>4
<1>9. ToldBefore(pr, a + 1)
  BY <1>3, <1>4, ToldOne
<1>10. a + 1 \in Nat /\ a + 1 <= h
  BY <1>2, <1>3
<1>11. ToldBefore(pr, h)
  BY <1>3, <1>9, <1>10, ToldWeaken
<1>12. Holds(changed, rt, s, a, a, {}, pr)
  BY <1>3, <1>6, <1>7, <1>8, <1>9, <1>11 DEF Holds
<1> QED
  BY <1>5, <1>12 DEF SyncInv

LEMMA StopsPreserves ==
    ASSUME SyncInv, Active, StopsEarly, changed' = changed
    PROVE  SyncInv'
<1>1. PICK rt, pr : rt = root /\ pr = progress
  OBVIOUS
<1>2. /\ rt \in [tail: BlockNumber, head: BlockNumber] /\ ToldBefore(pr, rt.head)
      /\ changed \in ChangeSets
  BY <1>1 DEF SyncInv, Holds, Active
<1>3. rt.head \in Nat
  BY <1>2, RangeAssumption DEF BlockNumber
<1>4. ToldBefore(Append(pr, rt.head), rt.head + 1) /\ rt.head + 1 \in Nat
  BY <1>2, <1>3, ToldAppend
<1>5. PICK q : q = Append(pr, rt.head)
  OBVIOUS
<1>6. /\ root' = Cut /\ progress' = q /\ todo' = <<>> /\ last' = last /\ from' = from
      /\ reported' = reported
  BY <1>1, <1>5 DEF StopsEarly
<1>7. Holds(changed, Cut, <<>>, last, from, reported, q)
  BY <1>2, <1>4, <1>5 DEF Holds
<1> QED
  BY <1>6, <1>7 DEF SyncInv

LEMMA SmallPreserves ==
    ASSUME SyncInv, SmallHeaders
    PROVE  SyncInv'
<1>1. PICK rt, s, l, f, rep, pr : /\ rt = root /\ s = todo /\ l = last /\ f = from
                                  /\ rep = reported /\ pr = progress
  OBVIOUS
<1>2. PICK g, r : g = Head(s) /\ r = Tail(s)
  OBVIOUS
<1>3. PICK rep2, f2 : /\ rep2 = rep \cup g.tail .. g.head
                      /\ f2 = IF g.tail <= l + 1 THEN f ELSE g.tail
  OBVIOUS
<1>4. PICK ch : ch = changed
  OBVIOUS
<1>5. /\ rt \notin {Idle, Cut} /\ g.type = Small /\ reported' = rep2 /\ last' = g.head
      /\ from' = f2 /\ todo' = r /\ changed' = ch
  BY <1>1, <1>2, <1>3, <1>4 DEF SmallHeaders, Active, Complete
<1>6. PICK told : told = IF g.head = rt.head THEN pr ELSE Append(pr, g.head)
  OBVIOUS
<1>7. IF r = <<>> THEN root' = Idle /\ progress' = Append(told, rt.head)
                  ELSE root' = rt /\ progress' = told
  BY <1>1, <1>2, <1>6 DEF SmallHeaders, Complete, ToldAt
<1>8. /\ Running(rt, s, l, f, rep, ch) /\ ToldBefore(pr, rt.head) /\ ToldBefore(pr, l + 1)
      /\ ch \in ChangeSets /\ rt \in [tail: BlockNumber, head: BlockNumber]
  BY <1>1, <1>4, <1>5 DEF SyncInv, Holds
<1>9. ch \subseteq BlockNumber
  BY <1>8, ChangesAreBlocks
<1>10. /\ r # <<>> => Running(rt, r, g.head, f2, rep2, ch)
       /\ r = <<>> => g.head = rt.head
  <2>1. AfterSmall(rt, g, r, f2, rep2, ch)
    BY <1>2, <1>3, <1>5, <1>8, <1>9, RunningSmall
  <2> QED
    BY <2>1 DEF AfterSmall
<1>11. /\ rt.head \in Nat /\ l \in Nat /\ g.tail \in Nat /\ g.head \in Nat
       /\ l <= g.tail /\ g.tail < g.head /\ g.head <= rt.head
  <2>1. rt.head \in BlockNumber /\ l \in BlockNumber /\ Divides(s, r, g, l, rt.head)
    BY <1>2, <1>8, RunningBounds
  <2>2. rt.head \in Nat /\ l \in Nat
    BY <2>1, RangeAssumption DEF BlockNumber
  <2> QED
    BY <2>1, <2>2 DEF Divides, GoodRange
<1>12. CASE r = <<>>
  <2>1. told = pr /\ root' = Idle /\ progress' = Append(pr, rt.head)
    BY <1>6, <1>7, <1>10, <1>12
  <2>2. PICK q : q = Append(pr, rt.head)
    OBVIOUS
  <2>3. ToldBefore(q, rt.head + 1) /\ rt.head + 1 \in Nat
    BY <1>8, <1>11, <2>2, ToldAppend
  <2>4. Holds(ch, Idle, r, g.head, f2, rep2, q)
    BY <1>8, <2>3 DEF Holds
  <2> QED
    BY <1>5, <2>1, <2>2, <2>4 DEF SyncInv
<1>13. CASE r # <<>>
  <2>1. root' = rt /\ progress' = told
    BY <1>7, <1>13
  <2>2. ToldBefore(told, rt.head) /\ ToldBefore(told, g.head + 1)
    <3>1. CASE g.head = rt.head
      <4>1. told = pr /\ rt.head <= g.head + 1
        BY <1>6, <1>11, <3>1
      <4> QED
        BY <1>8, <1>11, <4>1, ToldWeaken
    <3>2. CASE g.head # rt.head
      <4>1. told = Append(pr, g.head)
        BY <1>6, <3>2
      <4>2. ToldBefore(told, g.head + 1)
        <5>1. l + 1 \in Nat /\ l + 1 <= g.head
          BY <1>11
        <5> QED
          BY <1>8, <1>11, <4>1, <5>1, ToldAppend
      <4>3. g.head + 1 \in Nat /\ g.head + 1 <= rt.head
        BY <1>11, <3>2
      <4> QED
        BY <1>11, <4>2, <4>3, ToldWeaken
    <3> QED
      BY <3>1, <3>2
  <2>3. Holds(ch, rt, r, g.head, f2, rep2, told)
    BY <1>8, <1>10, <1>11, <1>13, <2>2 DEF Holds
  <2> QED
    BY <1>5, <2>1, <2>3 DEF SyncInv
<1> QED
  BY <1>12, <1>13

LEMMA NAryPreserves ==
    ASSUME SyncInv, NAryAccounts
    PROVE  SyncInv' /\ root' = root
<1>1. PICK rt, s, l, f, rep, pr : /\ rt = root /\ s = todo /\ l = last /\ f = from
                                  /\ rep = reported /\ pr = progress
  OBVIOUS
<1>2. PICK g, D, r : g = Head(s) /\ D = Differing(g) /\ r = D \o Tail(s)
  OBVIOUS
<1>3. /\ rt \notin {Idle, Cut} /\ g.type = NAry /\ changed' = changed /\ reported' = rep
      /\ last' = l /\ from' = f /\ todo' = r
      /\ IF r = <<>> THEN root' = Idle ELSE root' = rt /\ progress' = pr
  BY <1>1, <1>2 DEF NAryAccounts, Active, Complete
<1>4. /\ Running(rt, s, l, f, rep, changed) /\ changed \in ChangeSets
  BY <1>1, <1>3 DEF SyncInv, Holds
<1>5. changed \subseteq BlockNumber
  BY <1>4, ChangesAreBlocks
<1>6. r # <<>> /\ Running(rt, r, l, f, rep, changed)
  BY <1>2, <1>3, <1>4, <1>5, RunningNAry
<1>7. Holds(changed, rt, r, l, f, rep, pr)
  BY <1>1, <1>6 DEF SyncInv, Holds
<1>8. root' = rt /\ progress' = pr
  BY <1>3, <1>6
<1> QED
  BY <1>1, <1>3, <1>7, <1>8 DEF SyncInv

LEMMA StartsAreBlocks ==
    ASSUME NEW s \in Starts
    PROVE  s[1] \in BlockNumber /\ s[2] \in BlockNumber
BY RangeAssumption DEF BlockNumber

LEMMA NextPreserves ==
    ASSUME SyncInv, [Next]_vars
    PROVE  SyncInv'
<1>1. CASE UNCHANGED vars
  BY <1>1 DEF vars, SyncInv
<1>2. ASSUME NEW s \in Starts, SyncRange(s[1], s[2])
      PROVE  SyncInv'
  BY <1>2, StartsAreBlocks, BeginsPreserves DEF SyncRange
<1>3. ASSUME NEW s \in Starts, SyncAgain(s[1], s[2])
      PROVE  SyncInv'
  BY <1>3, StartsAreBlocks, BeginsPreserves DEF SyncAgain
<1>4. ASSUME NEW s \in Starts, SyncStops(s[1], s[2])
      PROVE  SyncInv'
  BY <1>4, StopsPreserves DEF SyncStops
<1>5. CASE SmallHeaders
  BY <1>5, SmallPreserves
<1>6. CASE NAryHeaders
  BY <1>6 DEF NAryHeaders, SyncInv
<1>7. CASE NAryAccounts
  BY <1>7, NAryPreserves
<1>8. CASE Fails
  BY <1>8, StopsPreserves DEF Fails
<1> QED
  BY <1>1, <1>2, <1>3, <1>4, <1>5, <1>6, <1>7, <1>8 DEF Next

\* While a sync is under way its remaining leaves are in order between the last
\* header handed over and the head, hold every change not reported yet, and end
\* with a linear range that goes back far enough (bcsSyncStart, syncRangeCreate,
\* bcsSyncHandleAccountStates); what the client was told lies before all of them.
THEOREM SyncInvariance == Spec => []SyncInv
<1>1. Init => SyncInv
  <2>1. SUFFICES ASSUME Init
                 PROVE  SyncInv
    OBVIOUS
  <2>2. changed \in ChangeSets /\ root = Idle /\ progress = <<>>
    BY <2>1 DEF Init
  <2>3. PICK pr : pr = progress
    OBVIOUS
  <2>4. pr \in Seq(Nat) /\ Len(pr) = 0
    BY <2>2, <2>3
  <2>5. ToldBefore(pr, 0)
    BY <2>4 DEF ToldBefore
  <2> QED
    BY <2>2, <2>3, <2>5 DEF SyncInv, Holds
<1>2. SyncInv /\ [Next]_vars => SyncInv'
  BY NextPreserves
<1> QED
  BY <1>1, <1>2, PTL DEF Spec

\* What the client is told of a sync goes forward and its end is told once,
\* for every chain and every value of the limits (bcsSyncRangeCallback).
THEOREM ProgressForward == Spec => []ProgressAscends
<1>1. SyncInv => ProgressAscends
  <2>1. SUFFICES ASSUME SyncInv
                 PROVE  ProgressAscends
    OBVIOUS
  <2>2. PICK pr : pr = progress
    OBVIOUS
  <2>3. PICK m \in Nat : ToldBefore(pr, m)
    BY <2>1, <2>2 DEF SyncInv, Holds
  <2>4. DOMAIN pr = 1..Len(pr)
    BY <2>3, LenProperties DEF ToldBefore
  <2>5. \A i, j \in DOMAIN pr : i < j => pr[i] < pr[j]
    BY <2>3, <2>4 DEF ToldBefore
  <2> QED
    BY <2>2, <2>5 DEF ProgressAscends
<1> QED
  BY <1>1, SyncInvariance, PTL

\* the last small range is answered: nothing remains
LEMMA LastSmall ==
    ASSUME SyncInv, SmallHeaders
    PROVE  /\ root' \in {Idle, root}
           /\ root' = Idle => AfterSmall(root, Head(todo), <<>>, from', reported', changed)
<1>1. PICK rt, s, l, f, rep, ch : /\ rt = root /\ s = todo /\ l = last /\ f = from
                                  /\ rep = reported /\ ch = changed
  OBVIOUS
<1>2. PICK g, r : g = Head(s) /\ r = Tail(s)
  OBVIOUS
<1>3. PICK rep2, f2 : /\ rep2 = rep \cup g.tail .. g.head
                      /\ f2 = IF g.tail <= l + 1 THEN f ELSE g.tail
  OBVIOUS
<1>4. /\ rt \notin {Idle, Cut} /\ g.type = Small /\ reported' = rep2 /\ from' = f2
      /\ IF r = <<>> THEN root' = Idle ELSE root' = rt
  BY <1>1, <1>2, <1>3 DEF SmallHeaders, Active, Complete
<1>5. Running(rt, s, l, f, rep, ch) /\ ch \in ChangeSets
  BY <1>1, <1>4 DEF SyncInv, Holds
<1>6. ch \subseteq BlockNumber
  BY <1>5, ChangesAreBlocks
<1>7. AfterSmall(rt, g, r, f2, rep2, ch)
  BY <1>2, <1>3, <1>4, <1>5, <1>6, RunningSmall
<1> QED
  BY <1>1, <1>2, <1>4, <1>7

\* A sync that runs to its end has reported every block that changes the
\* account, however its numbers split into ranges, subranges and remainders.
THEOREM SearchLosesNothing == Spec => SyncMissesNothing
<1>1. ASSUME SyncInv, Completes
      PROVE  \A b \in changed : root.tail < b /\ b <= root.head => b \in reported'
  <2>1. root' = Idle /\ (SmallHeaders \/ NAryAccounts)
    BY <1>1 DEF Completes
  <2>2. CASE NAryAccounts
    <3>1. root' = root
      BY <1>1, <2>2, NAryPreserves
    <3>2. root # Idle
      BY <2>2 DEF NAryAccounts, Active
    <3> QED
      BY <2>1, <3>1, <3>2
  <2>3. CASE SmallHeaders
    <3>1. AfterSmall(root, Head(todo), <<>>, from', reported', changed)
      BY <1>1, <2>1, <2>3, LastSmall
    <3> QED
      BY <3>1 DEF AfterSmall
  <2> QED
    BY <2>1, <2>2, <2>3
<1>2. SyncInv /\ [Next]_vars =>
         [Completes => \A b \in changed : root.tail < b /\ b <= root.head => b \in reported']_vars
  BY <1>1
<1> QED
  BY <1>2, SyncInvariance, PTL DEF Spec, SyncMissesNothing

-----------------------------------------------------------------------------
(* The ranges implement the feed *)

\* the feed of SyncIsFeed
FeedNow == IF ~Active THEN root
           ELSE [tail |-> root.tail, head |-> root.head, last |-> last, from |-> from]

LEMMA FeedActive ==
    ASSUME SyncInv, Active
    PROVE  /\ root.tail \in BlockNumber /\ root.head \in BlockNumber
           /\ last \in BlockNumber /\ from \in BlockNumber /\ last < root.head
           /\ FeedNow = [tail |-> root.tail, head |-> root.head, last |-> last, from |-> from]
           /\ FeedNow \notin {Idle, Cut}
<1>1. Running(root, todo, last, from, reported, changed)
  BY DEF SyncInv, Holds, Active
<1>2. /\ root.tail \in BlockNumber /\ root.head \in BlockNumber
      /\ last \in BlockNumber /\ from \in BlockNumber /\ last < root.head
  BY <1>1, RunningBounds
<1>3. FeedNow = [tail |-> root.tail, head |-> root.head, last |-> last, from |-> from]
  BY DEF FeedNow
<1>4. FeedNow \notin {Idle, Cut}
  BY <1>2, <1>3, NoSyncNoRange
<1> QED
  BY <1>2, <1>3, <1>4

LEMMA FeedBegins ==
    ASSUME NEW t \in BlockNumber, NEW h \in BlockNumber, Syncable(t, h), Begins(t, h)
    PROVE  \E a \in BlockNumber :
              /\ a < h
              /\ FeedNow' = [tail |-> a, head |-> h, last |-> a, from |-> a]
<1>1. PICK a : a = Adjusted(t, h)
  OBVIOUS
<1>2. a \in BlockNumber /\ a < h
  BY <1>1, AdjustedProperties
<1>3. PICK rt : rt = [tail |-> a, head |-> h]
  OBVIOUS
<1>4. rt \in [tail: BlockNumber, head: BlockNumber] /\ rt.tail = a /\ rt.head = h
  BY <1>2, <1>3
<1>5. rt \notin {Idle, Cut}
  BY <1>4, NoSyncNoRange
<1>6. root' = rt /\ last' = a /\ from' = a
  BY <1>1, <1>3 DEF Begins
<1>7. FeedNow' = [tail |-> a, head |-> h, last |-> a, from |-> a]
  BY <1>4, <1>5, <1>6 DEF FeedNow, Active
<1> QED
  BY <1>2, <1>7

LEMMA FeedStops ==
    ASSUME SyncInv, Active, StopsEarly
    PROVE  Feed!Stop
<1>1. FeedNow \notin {Idle, Cut}
  BY FeedActive
<1>2. FeedNow' = Cut
  BY DEF FeedNow, Active, StopsEarly
<1> QED
  BY <1>1, <1>2 DEF Feed!Stop, Feed!Active, FeedNow

LEMMA FeedReports ==
    ASSUME SyncInv, SmallHeaders
    PROVE  \E a, b \in BlockNumber : Feed!Report(a, b) \/ Feed!ReportLast(a, b)
<1>0. MaxNumber \in Nat /\ RequestMax \in Nat
  BY RangeAssumption
<1>1. Active
  BY DEF SmallHeaders
<1>2. PICK rt, l, f, g, f2 : /\ rt = root /\ l = last /\ f = from /\ g = Head(todo)
                             /\ f2 = IF g.tail <= l + 1 THEN f ELSE g.tail
  OBVIOUS
<1>3. /\ rt.tail \in BlockNumber /\ rt.head \in BlockNumber
      /\ l \in BlockNumber /\ f \in BlockNumber
  BY <1>1, <1>2, FeedActive
<1>4. last' = g.head /\ from' = f2
  BY <1>2 DEF SmallHeaders
<1>5. /\ g.tail \in BlockNumber /\ g.head \in BlockNumber /\ l <= g.tail
      /\ g.tail <= g.head /\ g.head <= rt.head
  <2>1. Running(rt, todo, l, f, reported, changed)
    BY <1>1, <1>2 DEF SyncInv, Holds, Active
  <2>2. Divides(todo, Tail(todo), g, l, rt.head)
    BY <1>2, <2>1, RunningBounds
  <2>3. /\ g.tail \in Nat /\ g.head \in Nat /\ l <= g.tail /\ g.tail < g.head
        /\ g.head <= rt.head
    BY <2>2 DEF Divides, GoodRange
  <2> QED
    BY <1>0, <1>3, <2>3 DEF BlockNumber
<1>6. PICK fd : fd = FeedNow
  OBVIOUS
<1>7. /\ fd = [tail |-> rt.tail, head |-> rt.head, last |-> l, from |-> f]
      /\ fd \notin {Idle, Cut}
  BY <1>1, <1>2, <1>6, FeedActive
<1>8. PICK ad : ad = [fd EXCEPT !.last = g.head,
                                !.from = IF g.tail <= fd.last + 1 THEN @ ELSE g.tail]
  OBVIOUS
<1>9. ad = [tail |-> rt.tail, head |-> rt.head, last |-> g.head, from |-> f2]
  BY <1>2, <1>7, <1>8
<1>10. Feed!Advanced(g.tail, g.head) = ad
  BY <1>6, <1>8 DEF Feed!Advanced, FeedNow
<1>11. Feed!Active /\ fd.last <= g.tail /\ g.tail <= g.head /\ g.head <= fd.head
  <2>1. Feed!Active
    BY <1>6, <1>7 DEF Feed!Active, FeedNow
  <2>2. fd.last = l /\ fd.head = rt.head
    BY <1>7
  <2> QED
    BY <1>5, <2>1, <2>2
<1>12. CASE root' = Idle
  <2>1. AfterSmall(rt, g, <<>>, f2, reported', changed)
    BY <1>2, <1>4, <1>12, LastSmall
  <2>2. g.head = rt.head /\ (f2 = rt.tail \/ f2 + RequestMax <= rt.head)
    BY <2>1 DEF AfterSmall
  <2>3. FeedNow' = Idle
    BY <1>12 DEF FeedNow, Active
  <2>4. Feed!Reaches(ad)
    <3>1. /\ ad.last = g.head /\ ad.head = rt.head /\ ad.tail = rt.tail /\ ad.from = f2
      BY <1>9
    <3>2. rt.tail \in Int /\ rt.head - RequestMax \in Int /\ f2 \in Int
      BY <1>0, <1>2, <1>3, <1>5 DEF BlockNumber
    <3>3. PICK x, y : x = rt.tail /\ y = rt.head - RequestMax
      OBVIOUS
    <3>4. Max({x, y}) = IF x >= y THEN x ELSE y
      BY <3>2, <3>3, MaxOfTwo
    <3>5. x \in Int /\ y \in Int /\ (f2 = x \/ f2 <= y)
      BY <1>0, <1>3, <2>2, <3>2, <3>3 DEF BlockNumber
    <3>6. f2 <= Max({x, y})
      BY <3>2, <3>4, <3>5
    <3>7. Feed!Max({x, y}) = Max({x, y})
      BY Zenon DEF Feed!Max, Max
    <3> QED
      BY <2>2, <3>1, <3>3, <3>6, <3>7 DEF Feed!Reaches
  <2>5. Feed!ReportLast(g.tail, g.head)
    BY <1>6, <1>10, <1>11, <2>3, <2>4 DEF Feed!ReportLast, FeedNow
  <2> QED
    BY <1>5, <2>5
<1>13. CASE root' # Idle
  <2>1. root' = rt /\ rt \notin {Idle, Cut}
    BY <1>1, <1>2, <1>13, LastSmall DEF Active
  <2>2. FeedNow' = [tail |-> rt.tail, head |-> rt.head, last |-> g.head, from |-> f2]
    BY <1>4, <2>1 DEF FeedNow, Active
  <2>3. Feed!Report(g.tail, g.head)
    BY <1>6, <1>9, <1>10, <1>11, <2>2 DEF Feed!Report, FeedNow
  <2> QED
    BY <1>5, <2>3
<1> QED
  BY <1>12, <1>13

LEMMA FeedStep ==
    ASSUME SyncInv, [Next]_vars
    PROVE  Feed!FeedNext \/ FeedNow' = FeedNow
<1>1. CASE UNCHANGED vars
  BY <1>1 DEF vars, FeedNow, Active
<1>2. ASSUME NEW s \in Starts, SyncRange(s[1], s[2])
      PROVE  Feed!FeedNext
  <2>1. ~Active /\ Syncable(s[1], s[2]) /\ Begins(s[1], s[2])
    BY <1>2 DEF SyncRange
  <2>2. PICK a \in BlockNumber : /\ a < s[2]
                                 /\ FeedNow' = [tail |-> a, head |-> s[2], last |-> a, from |-> a]
    BY <2>1, StartsAreBlocks, FeedBegins
  <2>3. FeedNow = root /\ root \in {Idle, Cut}
    BY <2>1 DEF FeedNow, Active
  <2>4. Feed!Start(a, s[2])
    BY <2>2, <2>3 DEF Feed!Start, Feed!Active, FeedNow
  <2> QED
    BY <2>4, StartsAreBlocks DEF Feed!FeedNext
<1>3. ASSUME NEW s \in Starts, SyncAgain(s[1], s[2])
      PROVE  Feed!FeedNext
  <2>1. Active /\ Syncable(s[1], s[2]) /\ Begins(s[1], s[2])
    BY <1>3 DEF SyncAgain
  <2>2. PICK a \in BlockNumber : /\ a < s[2]
                                 /\ FeedNow' = [tail |-> a, head |-> s[2], last |-> a, from |-> a]
    BY <2>1, StartsAreBlocks, FeedBegins
  <2>3. FeedNow \notin {Idle, Cut}
    BY <2>1, FeedActive
  <2>4. Feed!Restart(a, s[2])
    BY <2>2, <2>3 DEF Feed!Restart, Feed!Active, FeedNow
  <2> QED
    BY <2>4, StartsAreBlocks DEF Feed!FeedNext
<1>4. ASSUME NEW s \in Starts, SyncStops(s[1], s[2])
      PROVE  Feed!FeedNext
  BY <1>4, FeedStops DEF SyncStops, Feed!FeedNext
<1>5. CASE SmallHeaders
  BY <1>5, FeedReports DEF Feed!FeedNext
<1>6. CASE NAryHeaders
  BY <1>6 DEF NAryHeaders, FeedNow, Active
<1>7. CASE NAryAccounts
  <2>1. root' = root
    BY <1>7, NAryPreserves
  <2> QED
    BY <1>7, <2>1 DEF NAryAccounts, FeedNow, Active
<1>8. CASE Fails
  BY <1>8, FeedStops DEF Fails, Feed!FeedNext
<1> QED
  BY <1>1, <1>2, <1>3, <1>4, <1>5, <1>6, <1>7, <1>8 DEF Next

\* The ranges implement the feed the slice is built on: headers come in ascending
\* order, and a sync that is not cut short ends with a gapless run of RequestMax
\* headers up to its head ("We MUST have the last N headers be from a linear sync").
THEOREM RangesAreFeed == Spec => SyncIsFeed
<1>1. Init => Feed!FeedInit
  BY DEF Init, Feed!FeedInit, Active
<1>2. SyncInv /\ [Next]_vars => [Feed!FeedNext]_FeedNow
  BY FeedStep
<1> QED
  BY <1>1, <1>2, SyncInvariance, PTL DEF Spec, SyncIsFeed, Feed!FeedSpec, FeedNow
=============================================================================
