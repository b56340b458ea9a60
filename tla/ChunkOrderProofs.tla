-------------------------- MODULE ChunkOrderProofs --------------------------
(***************************************************************************)
(* What SortByIndex does to a set of chunks that is complete: the chunk at *)
(* place k is the one with the k-th index.  Positions count from 0 in      *)
(* Chunking, as in the code, and from 1 in Swarm: first is the lowest.     *)
(***************************************************************************)
EXTENDS ChunkOrder, FiniteSetTheorems, TLAPS

\* The chunks of s bear the n indices from first on, each once.
Complete(s, first, n) ==
    /\ \A j \in DOMAIN s : s[j].index \in first .. first + n - 1
    /\ \A k \in first .. first + n - 1 : \E j \in DOMAIN s : s[j].index = k
    /\ \A i, j \in DOMAIN s : s[i].index = s[j].index => i = j

\* The interval 1 .. n has n elements.
LEMMA IntervalFinite ==
    ASSUME NEW n \in Nat
    PROVE  IsFiniteSet(1 .. n) /\ Cardinality(1 .. n) = n
<1>1. 1 \in Int /\ n \in Int
  OBVIOUS
<1>2. IsFiniteSet(1 .. n)
  BY <1>1, FS_Interval
<1>3. Cardinality(1 .. n) = IF 1 > n THEN 0 ELSE n - 1 + 1
  BY <1>1, FS_Interval
<1> QED
  BY <1>2, <1>3

\* So has an interval that starts elsewhere.
LEMMA ShiftedIntervalFinite ==
    ASSUME NEW a \in Nat, NEW n \in Nat
    PROVE  IsFiniteSet(a .. a + n - 1) /\ Cardinality(a .. a + n - 1) = n
<1>1. a \in Int /\ a + n - 1 \in Int
  OBVIOUS
<1>2. IsFiniteSet(a .. a + n - 1)
  BY <1>1, FS_Interval
<1>3. Cardinality(a .. a + n - 1)
        = IF a > a + n - 1 THEN 0 ELSE (a + n - 1) - a + 1
  BY <1>1, FS_Interval
<1> QED
  BY <1>2, <1>3

\* A complete sequence has as many chunks as indices.
LEMMA CompleteLen ==
    ASSUME NEW S, NEW s \in Seq(S), NEW first \in Nat, NEW n \in Nat,
           Complete(s, first, n)
    PROVE  Len(s) = n
<1> DEFINE f == [j \in 1 .. Len(s) |-> s[j].index]
           indexes == first .. first + n - 1
<1>1. DOMAIN s = 1 .. Len(s) /\ Len(s) \in Nat
  OBVIOUS
<1>2. f \in Bijection(1 .. Len(s), indexes)
  BY <1>1 DEF Complete, Bijection, Injection, Surjection, IsInjective
<1>3. IsFiniteSet(1 .. Len(s)) /\ Cardinality(1 .. Len(s)) = Len(s)
  BY <1>1, IntervalFinite
<1>4. Cardinality(indexes) = n
  BY ShiftedIntervalFinite
<1>5. Cardinality(1 .. Len(s)) = Cardinality(indexes)
  BY <1>2, <1>3, FS_Bijection DEF ExistsBijection
<1> QED
  BY <1>3, <1>4, <1>5

\* In a complete sequence the chunk with index k has k - first chunks before
\* it.
LEMMA CompleteRank ==
    ASSUME NEW S, NEW s \in Seq(S), NEW first \in Nat, NEW n \in Nat,
           Complete(s, first, n), NEW k \in first .. first + n - 1
    PROVE  Rank(s, k) = k - first
<1> DEFINE before == {c \in Range(s) : c.index < k}
           below == first .. k - 1
           f == [c \in before |-> c.index]
<1>1. DOMAIN s = 1 .. Len(s) /\ Len(s) \in Nat /\ Range(s) = {s[j] : j \in DOMAIN s}
  BY DEF Range
<1>2. f \in Bijection(before, below)
  <2>1. \A c \in before : c.index \in below
    BY <1>1 DEF Complete
  <2>2. \A c, e \in before : c.index = e.index => c = e
    BY <1>1 DEF Complete
  <2>3. \A i \in below : \E c \in before : c.index = i
    <3> SUFFICES ASSUME NEW i \in below PROVE \E c \in before : c.index = i
      OBVIOUS
    <3>1. PICK j \in DOMAIN s : s[j].index = i
      BY DEF Complete
    <3> QED
      BY <1>1, <3>1
  <2> QED
    BY <2>1, <2>2, <2>3 DEF Bijection, Injection, Surjection, IsInjective
<1>3. IsFiniteSet(below) /\ Cardinality(below) = k - first
  <2>1. k - first \in Nat /\ k - 1 = first + (k - first) - 1
    OBVIOUS
  <2>2. /\ IsFiniteSet(first .. first + (k - first) - 1)
        /\ Cardinality(first .. first + (k - first) - 1) = k - first
    BY <2>1, ShiftedIntervalFinite
  <2> QED
    BY <2>1, <2>2
<1>4. IsFiniteSet(before)
  BY <1>2, <1>3, FS_Injection DEF Bijection, ExistsInjection
<1>5. Cardinality(before) = Cardinality(below)
  BY <1>2, <1>4, FS_Bijection DEF ExistsBijection
<1> QED
  BY <1>3, <1>5 DEF Rank

\* MergeChunks' sort puts the k-th index of a complete sequence at place k,
\* whatever the order of arrival (file/chunking.go:48).
THEOREM SortRestoresOrder ==
    ASSUME NEW S, NEW s \in Seq(S), NEW first \in Nat, NEW n \in Nat,
           Complete(s, first, n)
    PROVE  /\ DOMAIN SortByIndex(s) = 1 .. n
           /\ \A k \in 1 .. n : /\ SortByIndex(s)[k] \in Range(s)
                                /\ SortByIndex(s)[k].index = first + k - 1
<1>1. Len(s) = n
  BY CompleteLen
<1>2. DOMAIN SortByIndex(s) = 1 .. n
  BY <1>1 DEF SortByIndex
<1>3. ASSUME NEW k \in 1 .. n
      PROVE  SortByIndex(s)[k] \in Range(s) /\ SortByIndex(s)[k].index = first + k - 1
  <2> DEFINE P(c) == Rank(s, c.index) = k - 1
             index == first + k - 1
  <2>1. SortByIndex(s)[k] = CHOOSE c \in Range(s) : P(c)
    BY <1>1 DEF SortByIndex
  <2>2. \A c \in Range(s) : c.index \in first .. first + n - 1
    BY DEF Complete, Range
  <2>3. index \in first .. first + n - 1
    OBVIOUS
  <2>4. \E c \in Range(s) : c.index = index
    BY <2>3 DEF Complete, Range
  <2>5. Rank(s, index) = k - 1
    BY <2>3, CompleteRank
  <2>6. \E c \in Range(s) : P(c)
    BY <2>4, <2>5
  <2>7. SortByIndex(s)[k] \in Range(s) /\ P(SortByIndex(s)[k])
    <3> HIDE DEF P
    <3> QED
      BY <2>1, <2>6
  <2>8. Rank(s, SortByIndex(s)[k].index) = SortByIndex(s)[k].index - first
    BY <2>2, <2>7, CompleteRank
  <2> QED
    BY <2>2, <2>7, <2>8
<1> QED
  BY <1>2, <1>3
=============================================================================
