-------------------------- MODULE RangeQueryProofs --------------------------
(***************************************************************************)
(* Proofs about TS.RANGE and TS.REVRANGE, for every series, division into  *)
(* chunks and query: the aggregation iterator, which writes buckets into   *)
(* the buffer it reads samples from, never overwrites a sample before it   *)
(* has read it and never leaves the array.                                 *)
(***************************************************************************)
EXTENDS RangeQuery, SequenceTheorems, FiniteSetTheorems, WellFoundedInduction, TLAPS

----------------------------------------------------------------------------
(***************************************************************************)
(* Sets and sequences of numbers.                                          *)
(***************************************************************************)
\* A set of natural numbers has a smallest element.
LEMMA SmallestExists ==
  ASSUME NEW M \in SUBSET Nat, M # {}
  PROVE  \E m \in M : \A n \in M : m <= n
<1>1. PICK m \in M : \A n \in M : ~(<<n, m>> \in OpToRel(<, Nat))
  BY NatLessThanWellFounded, WFMin
<1>2. ASSUME NEW n \in M PROVE m <= n
  <2>1. m \in Nat /\ n \in Nat
    OBVIOUS
  <2>2. n < m => <<n, m>> \in OpToRel(<, Nat)
    BY <2>1 DEF OpToRel
  <2>3. ~(n < m)
    BY <1>1, <2>2, Zenon
  <2> QED BY <2>1, <2>3
<1> QED BY <1>2

\* A strictly increasing function of the first n numbers grows by at least one a step.
LEMMA Growth ==
  ASSUME NEW n \in Nat \ {0}, NEW f \in [1 .. n -> Int],
         \A i, j \in 1 .. n : i < j => f[i] < f[j]
  PROVE  \A i \in 1 .. n : f[1] + i - 1 <= f[i]
<1> SUFFICES ASSUME \E i \in 1 .. n : ~(f[1] + i - 1 <= f[i]) PROVE FALSE
  OBVIOUS
<1> DEFINE M == {i \in 1 .. n : ~(f[1] + i - 1 <= f[i])}
<1>0. PICK i \in 1 .. n : ~(f[1] + i - 1 <= f[i])
  OBVIOUS
<1>1. M \in SUBSET Nat /\ M # {}
  <2>1. i \in M
    BY <1>0
  <2>2. ASSUME NEW j \in M PROVE j \in Nat
    <3>1. j \in 1 .. n
      OBVIOUS
    <3> QED BY <3>1
  <2> QED BY <2>1, <2>2
<1>2. PICK m \in M : \A j \in M : m <= j
  BY <1>1, SmallestExists
<1>3. m \in 1 .. n /\ f[m] \in Int /\ f[1] \in Int /\ ~(f[1] + m - 1 <= f[m])
  OBVIOUS
<1>4. m # 1
  BY <1>3
<1>5. m - 1 \in 1 .. n /\ m - 1 < m /\ m - 1 \notin M
  BY <1>2, <1>3, <1>4
<1>6. f[1] + (m - 1) - 1 <= f[m - 1] /\ f[m - 1] < f[m] /\ f[m - 1] \in Int
  BY <1>3, <1>5
<1> QED BY <1>3, <1>6

\* The rank of an element: how many are smaller.
Rank(S, t) == Cardinality({u \in S : u < t})

\* Ranks are different and respect the order.
LEMMA RankOrder ==
  ASSUME NEW S \in SUBSET Int, IsFiniteSet(S), NEW t \in S
  PROVE  /\ Rank(S, t) \in 0 .. Cardinality(S) - 1
         /\ \A v \in S : t < v => Rank(S, t) < Rank(S, v)
<1> DEFINE below(x) == {u \in S : u < x}
<1>1. ASSUME NEW x \in S PROVE IsFiniteSet(below(x)) /\ Rank(S, x) \in Nat
  BY FS_Subset, FS_CardinalityType DEF Rank
<1>2. Rank(S, t) <= Cardinality(S) /\ Rank(S, t) # Cardinality(S) /\ Cardinality(S) \in Nat
  <2>1. below(t) \in SUBSET S /\ t \notin below(t)
    OBVIOUS
  <2> QED BY <2>1, FS_Subset, FS_CardinalityType DEF Rank
<1>3. ASSUME NEW v \in S, t < v PROVE Rank(S, t) < Rank(S, v)
  <2>0. t \in Int /\ v \in Int /\ \A u \in S : u \in Int
    OBVIOUS
  <2>1. below(t) \in SUBSET below(v) /\ t \in below(v) /\ t \notin below(t)
    <3>1. ASSUME NEW u \in below(t) PROVE u \in below(v)
      BY <2>0, <1>3
    <3>2. t \in below(v) /\ t \notin below(t)
      BY <2>0, <1>3
    <3> QED BY <3>1, <3>2
  <2>2. IsFiniteSet(below(v)) /\ Rank(S, t) \in Nat /\ Rank(S, v) \in Nat
    BY <1>1, <1>3
  <2> HIDE DEF below
  <2>3. Cardinality(below(t)) <= Cardinality(below(v)) /\ Cardinality(below(t)) # Cardinality(below(v))
    BY <2>1, <2>2, FS_Subset
  <2> QED BY <2>2, <2>3 DEF Rank, below
<1>4. Rank(S, t) \in Nat
  BY <1>1
<1>5. Rank(S, t) \in 0 .. Cardinality(S) - 1
  BY <1>2, <1>4
<1> QED BY <1>3, <1>5

\* Every number below the cardinality is the rank of some element.
LEMMA RankExists ==
  ASSUME NEW S \in SUBSET Int, IsFiniteSet(S), NEW k \in 0 .. Cardinality(S) - 1
  PROVE  \E t \in S : Rank(S, t) = k
<1> DEFINE N == Cardinality(S)
           T == 0 .. N - 1
           f == [t \in S |-> Rank(S, t)]
<1>1. N \in Nat
  BY FS_CardinalityType
<1>2. IsFiniteSet(T) /\ Cardinality(T) = N
  BY <1>1, FS_Interval
<1>3. f \in [S -> T]
  BY RankOrder
<1>4. ASSUME NEW t \in S, NEW v \in S, f[t] = f[v] PROVE t = v
  <2>1. /\ t < v => Rank(S, t) < Rank(S, v)
        /\ v < t => Rank(S, v) < Rank(S, t)
        /\ Rank(S, t) \in Nat /\ Rank(S, v) \in Nat
    BY RankOrder
  <2> QED BY <2>1, <1>4
<1>5. f \in Injection(S, T)
  BY <1>3, <1>4 DEF Injection, IsInjective
<1>6. f \in Surjection(S, T)
  BY <1>2, <1>5, FS_Injection
<1> QED BY <1>6 DEF Surjection

\* Ascending enumerates a finite set.
LEMMA AscendingSorts ==
  ASSUME NEW S \in SUBSET Int, IsFiniteSet(S)
  PROVE  /\ Ascending(S) \in [1 .. Cardinality(S) -> S]
         /\ Cardinality(S) \in Nat
         /\ \A i, j \in 1 .. Cardinality(S) : i < j => Ascending(S)[i] < Ascending(S)[j]
<1> DEFINE N == Cardinality(S)
           o == Ascending(S)
<1>1. N \in Nat
  BY FS_CardinalityType
<1>2. o = [i \in 1 .. N |-> CHOOSE t \in S : Rank(S, t) = i - 1]
  BY DEF Ascending, Rank
<1> HIDE DEF N, o
<1>3. ASSUME NEW i \in 1 .. N PROVE o[i] \in S /\ Rank(S, o[i]) = i - 1
  <2>1. i - 1 \in 0 .. Cardinality(S) - 1
    BY <1>1 DEF N
  <2>2. \E t \in S : Rank(S, t) = i - 1
    BY <2>1, RankExists
  <2> QED BY <1>2, <2>2
<1>4. ASSUME NEW i \in 1 .. N, NEW j \in 1 .. N, i < j PROVE o[i] < o[j]
  <2>1. PICK t \in S, u \in S : t = o[i] /\ u = o[j] /\ Rank(S, t) = i - 1 /\ Rank(S, u) = j - 1
    BY <1>3
  <2>2. t # u /\ (u < t => Rank(S, u) < Rank(S, t)) /\ t \in Int /\ u \in Int
    BY <2>1, <1>4, <1>1, RankOrder
  <2> QED BY <2>1, <2>2, <1>1, <1>4
<1> QED BY <1>1, <1>2, <1>3, <1>4 DEF N, o

\* Sub takes some elements of a sequence, in order.
LEMMA SubTakes ==
  ASSUME NEW X, NEW s \in Seq(X), NEW K \in SUBSET (1 .. Len(s))
  PROVE  /\ Sub(s, K) \in Seq(X)
         /\ Len(Sub(s, K)) <= Len(s)
         /\ \E o \in [1 .. Len(Sub(s, K)) -> 1 .. Len(s)] :
              /\ \A i, j \in 1 .. Len(Sub(s, K)) : i < j => o[i] < o[j]
              /\ \A i \in 1 .. Len(Sub(s, K)) : Sub(s, K)[i] = s[o[i]]
<1> DEFINE o == Ascending(K)
           N == Cardinality(K)
<1>1. Len(s) \in Nat /\ IsFiniteSet(1 .. Len(s)) /\ Cardinality(1 .. Len(s)) = Len(s)
  BY FS_Interval
<1>0. K \in SUBSET Int
  OBVIOUS
<1>2. IsFiniteSet(K) /\ N <= Len(s)
  BY <1>1, FS_Subset
<1>3. o \in [1 .. N -> K] /\ N \in Nat /\ \A i, j \in 1 .. N : i < j => o[i] < o[j]
  BY <1>0, <1>2, AscendingSorts
<1>4. Sub(s, K) = [n \in 1 .. N |-> s[o[n]]]
  BY <1>3 DEF Sub
<1> HIDE DEF o, N
<1>5. o \in [1 .. N -> 1 .. Len(s)]
  BY <1>3
<1>6. Sub(s, K) \in Seq(X) /\ Len(Sub(s, K)) = N
  BY <1>3, <1>4, <1>5
<1> QED BY <1>2, <1>3, <1>4, <1>5, <1>6

\* A part of a sequence.
LEMMA Slice ==
  ASSUME NEW X, NEW s \in Seq(X), NEW m \in Nat \ {0}, NEW n \in Int, n <= Len(s)
  PROVE  /\ SubSeq(s, m, n) \in Seq(X)
         /\ Len(SubSeq(s, m, n)) = IF m <= n THEN n - m + 1 ELSE 0
         /\ \A i \in 1 .. Len(SubSeq(s, m, n)) :
              m + i - 1 \in 1 .. Len(s) /\ SubSeq(s, m, n)[i] = s[m + i - 1]
<1>1. Len(s) \in Nat /\ m \in Int
  OBVIOUS
<1>2. ASSUME NEW i \in m .. n PROVE s[i] \in X
  <2>1. i \in 1 .. Len(s)
    BY <1>1
  <2> QED BY <2>1, ElementOfSeq
<1>3. PICK z : z = SubSeq(s, m, n)
  OBVIOUS
<1>4. z \in Seq(X) /\ Len(z) = (IF m <= n THEN n - m + 1 ELSE 0)
      /\ \A i \in 1 .. (n - m) + 1 : z[i] = s[(m + i) - 1]
  BY <1>1, <1>2, <1>3, SubSeqProperties
<1>5. ASSUME NEW i \in 1 .. Len(z) PROVE m + i - 1 \in 1 .. Len(s) /\ i \in 1 .. (n - m) + 1
  BY <1>1, <1>4
<1> QED BY <1>3, <1>4, <1>5

----------------------------------------------------------------------------
(***************************************************************************)
(* Sequences of samples.                                                   *)
(***************************************************************************)
\* What a client may be sent.
Sent == [ts : 0 .. 2 * MaxTime + 1, val : Seq(Time)]

Samples(s) == \A i \in 1 .. Len(s) : s[i].ts \in Time /\ s[i] = Sample(s[i].ts)
Up(s) == Samples(s) /\ \A i, j \in 1 .. Len(s) : i < j => s[i].ts < s[j].ts
Down(s) == Samples(s) /\ \A i, j \in 1 .. Len(s) : i < j => s[j].ts < s[i].ts
Ordered(s) == IF q.reverse THEN Down(s) ELSE Up(s)

\* A stored sample is one of them.
LEMMA SampleSent ==
  ASSUME NEW t \in Time
  PROVE  Sample(t) \in Sent /\ Sample(t).ts = t /\ Sample(t).val = <<t>> /\ t \in Int
<1>1. MaxTime \in Nat /\ t \in 0 .. 2 * MaxTime + 1
  BY TimeAssumption DEF Time
<1>2. <<t>> \in Seq(Time)
  OBVIOUS
<1> QED BY <1>1, <1>2 DEF Sample, Sent, Time

\* Samples of different timestamps are not more than the timestamps left.
LEMMA UpLength ==
  ASSUME NEW s \in Seq(Sent), Up(s), s # <<>>
  PROVE  s[1].ts \in Time /\ Len(s) - 1 <= MaxTime - s[1].ts
<1> DEFINE n == Len(s)
           f == [i \in 1 .. n |-> s[i].ts]
<1>1. n \in Nat \ {0} /\ MaxTime \in Nat
  BY TimeAssumption
<1>2. f \in [1 .. n -> Int] /\ \A i \in 1 .. n : s[i].ts \in Time
  BY DEF Up, Samples, Time
<1>3. \A i, j \in 1 .. n : i < j => f[i] < f[j]
  BY DEF Up
<1>4. 1 \in 1 .. n /\ n \in 1 .. n
  BY <1>1
<1>5. f[1] + n - 1 <= f[n]
  BY <1>1, <1>2, <1>3, <1>4, Growth
<1>6. s[n].ts \in 0 .. MaxTime /\ s[1].ts \in 0 .. MaxTime /\ s[1].ts + n - 1 <= s[n].ts
  BY <1>2, <1>4, <1>5 DEF Time
<1> HIDE DEF n
<1> QED BY <1>1, <1>6 DEF n, Time

\* The same for a descending sequence.
LEMMA DownLength ==
  ASSUME NEW s \in Seq(Sent), Down(s), s # <<>>
  PROVE  s[1].ts \in Time /\ Len(s) - 1 <= s[1].ts
<1> DEFINE n == Len(s)
           f == [i \in 1 .. n |-> 0 - s[i].ts]
<1>1. n \in Nat \ {0} /\ MaxTime \in Nat
  BY TimeAssumption
<1>2. \A i \in 1 .. n : s[i].ts \in Time /\ s[i].ts \in Int /\ f[i] = 0 - s[i].ts
  BY DEF Down, Samples, Time
<1>2a. f \in [1 .. n -> Int]
  BY <1>2
<1>3. \A i, j \in 1 .. n : i < j => f[i] < f[j]
  <2> SUFFICES ASSUME NEW i \in 1 .. n, NEW j \in 1 .. n, i < j PROVE f[i] < f[j]
    OBVIOUS
  <2>1. s[j].ts < s[i].ts
    BY DEF Down
  <2> HIDE DEF f
  <2> QED BY <2>1, <1>2
<1>4. 1 \in 1 .. n /\ n \in 1 .. n
  BY <1>1
<1>5. f[1] + n - 1 <= f[n]
  BY <1>1, <1>2a, <1>3, <1>4, Growth
<1> HIDE DEF f
<1>6. s[n].ts \in 0 .. MaxTime /\ s[1].ts \in 0 .. MaxTime /\ 0 - s[1].ts + n - 1 <= 0 - s[n].ts
  BY <1>2, <1>4, <1>5 DEF Time
<1> HIDE DEF n
<1> QED BY <1>1, <1>6 DEF n, Time

\* A chunk is not longer than there are timestamps.
LEMMA ChunkLength ==
  ASSUME NEW c \in Seq(Time), Increasing(c)
  PROVE  Len(c) <= MaxTime + 1
<1>0. MaxTime \in Nat /\ Len(c) \in Nat
  BY TimeAssumption
<1>1. CASE Len(c) = 0
  BY <1>0, <1>1
<1>2. CASE Len(c) # 0
  <2>1. c \in [1 .. Len(c) -> Int] /\ 1 \in 1 .. Len(c) /\ Len(c) \in 1 .. Len(c) /\ Len(c) \in Nat \ {0}
    BY <1>0, <1>2 DEF Time
  <2>2. \A i, j \in 1 .. Len(c) : i < j => c[i] < c[j]
    BY DEF Increasing
  <2>3. c[1] + Len(c) - 1 <= c[Len(c)]
    BY <2>1, <2>2, Growth
  <2>4. c[1] \in Time /\ c[Len(c)] \in Time
    BY <2>1, ElementOfSeq
  <2> QED BY <1>0, <2>1, <2>3, <2>4 DEF Time
<1> QED BY <1>1, <1>2

\* Some of the samples, in order, are ordered.
LEMMA SubOrder ==
  ASSUME NEW s \in Seq(Sent), NEW K \in SUBSET (1 .. Len(s))
  PROVE  /\ Sub(s, K) \in Seq(Sent)
         /\ Len(Sub(s, K)) \in 0 .. Len(s)
         /\ Up(s) => Up(Sub(s, K))
         /\ Down(s) => Down(Sub(s, K))
<1>0. PICK z \in Seq(Sent) : z = Sub(s, K) /\ Len(z) <= Len(s)
  BY SubTakes
<1>1. PICK o \in [1 .. Len(z) -> 1 .. Len(s)] :
        /\ \A i, j \in 1 .. Len(z) : i < j => o[i] < o[j]
        /\ \A i \in 1 .. Len(z) : z[i] = s[o[i]]
  BY <1>0, SubTakes
<1>2. Len(z) \in Nat /\ Len(s) \in Nat
  OBVIOUS
<1>3. ASSUME Samples(s) PROVE Samples(z)
  BY <1>1, <1>3 DEF Samples
<1>4. ASSUME Up(s) PROVE Up(z)
  BY <1>1, <1>3, <1>4 DEF Up
<1>5. ASSUME Down(s) PROVE Down(z)
  BY <1>1, <1>3, <1>5 DEF Down
<1> QED BY <1>0, <1>2, <1>4, <1>5

\* A reversed chunk.
LEMMA ReverseOrder ==
  ASSUME NEW s \in Seq(Sent), Up(s)
  PROVE  /\ Reverse(s) \in Seq(Sent) /\ Len(Reverse(s)) = Len(s)
         /\ Down(Reverse(s))
<1>1. Len(s) \in Nat
  OBVIOUS
<1>2. PICK z : z = Reverse(s)
  OBVIOUS
<1>3. z = [i \in 1 .. Len(s) |-> s[(Len(s) - i) + 1]]
  BY <1>2 DEF Reverse
<1>4. \A i \in 1 .. Len(s) : (Len(s) - i) + 1 \in 1 .. Len(s)
  BY <1>1
<1>5. z \in Seq(Sent) /\ Len(z) = Len(s)
  BY <1>1, <1>3, <1>4
<1>6. \A i \in 1 .. Len(s) : z[i] = s[(Len(s) - i) + 1]
  BY <1>3
<1>7. Samples(z)
  BY <1>4, <1>5, <1>6 DEF Samples, Up
<1>8. ASSUME NEW i \in 1 .. Len(s), NEW j \in 1 .. Len(s), i < j PROVE z[j].ts < z[i].ts
  <2>1. PICK k \in 1 .. Len(s), l \in 1 .. Len(s) : k = (Len(s) - j) + 1 /\ l = (Len(s) - i) + 1
    BY <1>4
  <2>2. k < l
    BY <1>1, <1>8, <2>1
  <2> QED BY <2>1, <2>2, <1>6 DEF Up
<1> QED BY <1>2, <1>5, <1>7, <1>8 DEF Down

\* The samples of a chunk that are in range.
LEMMA DecompressedUp ==
  ASSUME q \in Query, NEW c \in Seq(Time), Increasing(c)
  PROVE  /\ Decompressed(c) \in Seq(Sent)
         /\ Len(Decompressed(c)) \in 0 .. Len(c)
         /\ Up(Decompressed(c))
<1>1. PICK s : s = [i \in DOMAIN c |-> Sample(c[i])]
  OBVIOUS
<1>2. DOMAIN c = 1 .. Len(c) /\ Len(c) \in Nat /\ \A i \in 1 .. Len(c) : c[i] \in Time
  OBVIOUS
<1>3. \A i \in 1 .. Len(c) : s[i] = Sample(c[i]) /\ s[i] \in Sent /\ s[i].ts = c[i]
  BY <1>1, <1>2, SampleSent
<1>4. s \in Seq(Sent) /\ Len(s) = Len(c)
  BY <1>1, <1>2, <1>3
<1>5. Samples(s)
  BY <1>2, <1>3, <1>4 DEF Samples
<1>6. Up(s)
  BY <1>2, <1>3, <1>4, <1>5 DEF Up, Increasing
<1>7. PICK K \in SUBSET (1 .. Len(s)) : Decompressed(c) = Sub(s, K)
  BY <1>1, <1>2, <1>4 DEF Decompressed
<1> QED BY <1>4, <1>6, <1>7, SubOrder

----------------------------------------------------------------------------
(***************************************************************************)
(* The buffer.                                                             *)
(***************************************************************************)
Buffer == [cells : [0 .. Cap -> Sent \cup {Garbage}],
           size : 0 .. Cap, off : 0 .. Cap, num : 0 .. Cap]

\* The samples are inside the array.
Fits(b) == b.off + b.num <= b.size

\* The number of cells.
LEMMA CapIs == MaxTime \in Nat /\ Cap \in Nat /\ Cap = 2 * MaxTime + 4
  BY TimeAssumption DEF Cap

\* Writing a run of cells.
LEMMA SetCellsType ==
  ASSUME NEW b \in Buffer, NEW from \in Nat, NEW s \in Seq(Sent)
  PROVE  /\ SetCells(b, from, s) \in [0 .. Cap -> Sent \cup {Garbage}]
         /\ \A i \in 0 .. Cap : i < from \/ from + Len(s) <= i => SetCells(b, from, s)[i] = b.cells[i]
<1>0. Cap \in Nat /\ Len(s) \in Nat
  BY CapIs
<1>1. b.cells \in [0 .. Cap -> Sent \cup {Garbage}]
  BY DEF Buffer
<1>2. PICK z : z = SetCells(b, from, s)
  OBVIOUS
<1>3. z = [i \in 0 .. Cap |-> IF from <= i /\ i < from + Len(s) THEN s[i - from + 1] ELSE b.cells[i]]
  BY <1>2 DEF SetCells
<1>4. ASSUME NEW i \in 0 .. Cap PROVE z[i] \in Sent \cup {Garbage}
  <2>1. CASE from <= i /\ i < from + Len(s)
    <3>1. i - from + 1 \in 1 .. Len(s)
      BY <1>0, <2>1
    <3>2. s[i - from + 1] \in Sent
      BY <3>1, ElementOfSeq
    <3> QED BY <1>3, <2>1, <3>2
  <2>2. CASE ~(from <= i /\ i < from + Len(s))
    BY <1>1, <1>3, <2>2
  <2> QED BY <2>1, <2>2
<1>5. z \in [0 .. Cap -> Sent \cup {Garbage}]
  BY <1>3, <1>4
<1>6. ASSUME NEW i \in 0 .. Cap, i < from \/ from + Len(s) <= i PROVE z[i] = b.cells[i]
  BY <1>0, <1>3, <1>6
<1> QED BY <1>2, <1>5, <1>6

\* ... and the cells that are written.
LEMMA SetCellsWrites ==
  ASSUME NEW b \in Buffer, NEW from \in Nat, NEW s \in Seq(Sent), from + Len(s) <= Cap + 1
  PROVE  \A i \in 1 .. Len(s) : SetCells(b, from, s)[from + i - 1] = s[i]
<1>0. Cap \in Nat /\ Len(s) \in Nat
  BY CapIs
<1>1. SetCells(b, from, s) =
        [i \in 0 .. Cap |-> IF from <= i /\ i < from + Len(s) THEN s[i - from + 1] ELSE b.cells[i]]
  BY DEF SetCells
<1>2. ASSUME NEW i \in 1 .. Len(s) PROVE SetCells(b, from, s)[from + i - 1] = s[i]
  <2>1. PICK k \in 0 .. Cap : k = from + i - 1
    BY <1>0
  <2>2. from <= k /\ k < from + Len(s) /\ k - from + 1 = i
    BY <1>0, <2>1
  <2> QED BY <1>1, <2>1, <2>2
<1> QED BY <1>2

\* The samples in the buffer.
LEMMA ViewIs ==
  ASSUME NEW b \in Buffer
  PROVE  /\ Len(View(b)) = b.num
         /\ DOMAIN View(b) = 1 .. b.num
         /\ \A i \in 1 .. b.num : View(b)[i] = b.cells[b.off + i - 1]
<1>1. b.num \in Nat /\ b.off \in Nat
  BY CapIs DEF Buffer
<1>2. View(b) = [i \in 1 .. b.num |-> Cell(b, i - 1)]
  BY DEF View
<1>3. \A i \in 1 .. b.num : View(b)[i] = b.cells[b.off + (i - 1)]
  BY <1>2 DEF Cell
<1>4. \A i \in 1 .. b.num : b.off + (i - 1) = b.off + i - 1
  BY <1>1
<1>5. Len(View(b)) = b.num /\ DOMAIN View(b) = 1 .. b.num
  BY <1>1, <1>2
<1> QED BY <1>3, <1>4, <1>5

\* Replacing them.
LEMMA WithViewIs ==
  ASSUME NEW b \in Buffer, NEW s \in Seq(Sent), b.off + Len(s) <= b.size
  PROVE  /\ WithView(b, s) \in Buffer
         /\ Fits(WithView(b, s))
         /\ View(WithView(b, s)) = s
         /\ WithView(b, s).num = Len(s)
<1>0. Cap \in Nat /\ b.off \in Nat /\ b.size \in 0 .. Cap /\ Len(s) \in 0 .. Cap
  BY CapIs DEF Buffer
<1>1. PICK c : c = SetCells(b, b.off, s)
  OBVIOUS
<1>a. c \in [0 .. Cap -> Sent \cup {Garbage}]
  BY <1>0, <1>1, SetCellsType
<1>b. \A i \in 1 .. Len(s) : c[b.off + i - 1] = s[i]
  <2>1. PICK from \in Nat : from = b.off
    BY <1>0
  <2>2. from + Len(s) <= Cap + 1
    BY <1>0, <2>1
  <2>3. \A i \in 1 .. Len(s) : SetCells(b, from, s)[from + i - 1] = s[i]
    BY <2>2, SetCellsWrites
  <2> QED BY <1>1, <2>1, <2>3
<1>2. PICK z : z = WithView(b, s)
  OBVIOUS
<1>3. z = [b EXCEPT !.cells = c, !.num = Len(s)]
  BY <1>1, <1>2 DEF WithView
<1>4. z \in Buffer /\ z.cells = c /\ z.num = Len(s) /\ z.off = b.off /\ z.size = b.size
  BY <1>0, <1>a, <1>3 DEF Buffer
<1>5. /\ Len(View(z)) = Len(s) /\ DOMAIN View(z) = 1 .. Len(s)
      /\ \A i \in 1 .. Len(s) : View(z)[i] = c[b.off + i - 1]
  BY <1>4, ViewIs
<1>6. View(z) = s
  <2>1. View(z) = [i \in 1 .. Len(s) |-> Cell(z, i - 1)]
    BY <1>4 DEF View
  <2>2. s = [i \in 1 .. Len(s) |-> s[i]]
    OBVIOUS
  <2>3. \A i \in 1 .. Len(s) : View(z)[i] = s[i]
    BY <1>b, <1>5
  <2> QED BY <2>1, <2>2, <2>3
<1> QED BY <1>0, <1>2, <1>4, <1>6 DEF Fits

\* ProcessChunk fills the buffer with the samples of a chunk that are in range.
LEMMA ProcessChunkFits ==
  ASSUME q \in Query, NEW b \in Buffer, NEW c \in Seq(Time), Increasing(c)
  PROVE  /\ ProcessChunk(b, c) \in Buffer
         /\ Fits(ProcessChunk(b, c))
         /\ View(ProcessChunk(b, c)) \in Seq(Sent)
         /\ IF q.reverse /\ ~q.byTs THEN Down(View(ProcessChunk(b, c))) ELSE Up(View(ProcessChunk(b, c)))
         /\ View(ProcessChunk(b, c)) =
              IF q.reverse /\ ~q.byTs THEN Reverse(Decompressed(c)) ELSE Decompressed(c)
<1> DEFINE samples  == Decompressed(c)
           revChunk == q.reverse /\ ~q.byTs
           margin   == IF revChunk /\ q.compressed /\ samples # <<>> THEN Len(c) - Len(samples) ELSE 0
           size     == IF Len(c) > b.size THEN Len(c) ELSE b.size
           rev      == IF revChunk THEN Reverse(samples) ELSE samples
<1>0. MaxTime \in Nat /\ Cap \in Nat /\ Cap = 2 * MaxTime + 4
  BY CapIs
<1>1. /\ samples \in Seq(Sent) /\ Len(samples) \in 0 .. Len(c) /\ Up(samples)
      /\ Len(c) \in Nat /\ Len(c) <= MaxTime + 1
  BY DecompressedUp, ChunkLength
<1>2. rev \in Seq(Sent) /\ Len(rev) = Len(samples) /\ IF revChunk THEN Down(rev) ELSE Up(rev)
  BY <1>1, ReverseOrder
<1>3. b.size \in 0 .. Cap /\ b = [cells |-> b.cells, size |-> b.size, off |-> b.off, num |-> b.num]
  BY DEF Buffer
<1> HIDE DEF samples
<1>4. margin \in 0 .. Cap /\ size \in 0 .. Cap /\ margin + Len(samples) <= size
  BY <1>0, <1>1, <1>3
<1>5. PICK d : d = [b EXCEPT !.size = size, !.off = margin]
  OBVIOUS
<1> HIDE DEF margin, rev
<1>6. ProcessChunk(b, c) = WithView(d, rev)
  BY <1>5 DEF ProcessChunk, samples, margin, rev
<1> HIDE DEF size, revChunk
<1>7. d \in Buffer /\ d.size = size /\ d.off = margin
  BY <1>4, <1>5 DEF Buffer
<1>8. d.off + Len(rev) <= d.size
  BY <1>2, <1>4, <1>7
<1>9. WithView(d, rev) \in Buffer /\ Fits(WithView(d, rev)) /\ View(WithView(d, rev)) = rev
  BY <1>2, <1>7, <1>8, WithViewIs
<1>10. rev = IF q.reverse /\ ~q.byTs THEN Reverse(Decompressed(c)) ELSE Decompressed(c)
  BY DEF rev, revChunk, samples
<1> QED BY <1>2, <1>6, <1>9, <1>10 DEF revChunk

\* The open bucket is at most one sample.
LEMMA OpenBucketFits ==
  ASSUME q \in Query, WellFormed(q), NEW b \in Buffer
  PROVE  LET z == OpenBucket(b)
         IN  /\ z \in Buffer /\ Fits(z) /\ View(z) \in Seq(Sent)
             /\ Up(View(z)) /\ Down(View(z))
             /\ View(z) = LET f == Ascending({t \in q.open : t <= q.end})
                          IN  [i \in DOMAIN f |-> Sample(f[i])]
<1> DEFINE S == {t \in q.open : t <= q.end}
<1>0. MaxTime \in Nat /\ Cap \in Nat /\ Cap = 2 * MaxTime + 4
  BY CapIs
<1>1. S \in SUBSET (0 .. MaxTime) /\ \A t, u \in S : t = u
  BY DEF Query, WellFormed, Time
<1> HIDE DEF S
<1>2a. IsFiniteSet(0 .. MaxTime)
  BY <1>0, FS_Interval
<1>2b. IsFiniteSet(S)
  BY <1>1, <1>2a, FS_Subset
<1>2. IsFiniteSet(S) /\ S \in SUBSET Int
  BY <1>1, <1>2b
<1>3a. PICK f : f = Ascending(S)
  OBVIOUS
<1>3. PICK N \in Nat : /\ f \in [1 .. N -> S]
                       /\ \A i, j \in 1 .. N : i < j => f[i] < f[j]
  BY <1>2, <1>3a, AscendingSorts
<1>4. N <= 1
  <2> SUFFICES ASSUME N >= 2 PROVE FALSE
    BY <1>3
  <2>1. 1 \in 1 .. N /\ 2 \in 1 .. N
    BY <1>3
  <2>2. f[1] < f[2] /\ f[1] \in S /\ f[2] \in S
    BY <1>3, <2>1
  <2>3. f[1] = f[2] /\ f[1] \in Int
    BY <1>1, <1>2, <2>2
  <2> QED BY <2>2, <2>3
<1>5. \A i \in 1 .. N : f[i] \in Time
  BY <1>1, <1>3 DEF Time
<1>6. PICK s : s = [i \in DOMAIN f |-> Sample(f[i])]
  OBVIOUS
<1>7. \A i \in 1 .. N : s[i] \in Sent /\ s[i] = Sample(f[i]) /\ s[i].ts = f[i]
  BY <1>3, <1>5, <1>6, SampleSent
<1>8. s \in Seq(Sent) /\ Len(s) = N
  BY <1>3, <1>6, <1>7
<1>9. Samples(s)
  BY <1>5, <1>7, <1>8 DEF Samples
<1>10. Up(s) /\ Down(s)
  BY <1>4, <1>8, <1>9 DEF Up, Down
<1>11. N = 1 => f # <<>>
  <2>1. N = 1 => Len(f) = 1
    BY <1>3
  <2> QED BY <2>1
<1>12. b.size \in 0 .. Cap
  BY DEF Buffer
<1>13. PICK z \in 0 .. Cap : z = IF f # <<>> /\ b.size = 0 THEN 1 ELSE b.size
  BY <1>0, <1>12
<1>14. PICK d : d = [b EXCEPT !.size = z, !.off = 0]
  OBVIOUS
<1>15. OpenBucket(b) = WithView(d, s)
  BY <1>3a, <1>6, <1>14, <1>13 DEF OpenBucket, S
<1>16. d \in Buffer /\ d.off = 0 /\ d.size = z
  <2>1. 0 \in 0 .. Cap
    BY <1>0
  <2> QED BY <1>14, <2>1 DEF Buffer
<1>17. N <= z
  BY <1>3, <1>4, <1>11, <1>12, <1>13
<1>18. d.off + Len(s) <= d.size
  BY <1>3, <1>8, <1>16, <1>17
<1>19. WithView(d, s) \in Buffer /\ Fits(WithView(d, s)) /\ View(WithView(d, s)) = s
  BY <1>8, <1>16, <1>18, WithViewIs
<1> QED BY <1>3a, <1>6, <1>8, <1>10, <1>15, <1>19 DEF S

----------------------------------------------------------------------------
(***************************************************************************)
(* The filters.                                                            *)
(***************************************************************************)
\* filterSamples keeps some of the samples, in order.
LEMMA FilterSamplesKeeps ==
  ASSUME NEW s \in Seq(Sent), NEW values
  PROVE  \E K \in SUBSET (1 .. Len(s)) : FilterSamples(s, values) = Sub(s, K)
<1>1. DOMAIN s = 1 .. Len(s)
  OBVIOUS
<1> QED BY <1>1 DEF FilterSamples

\* What both filters leave is in the order of the reply, and not more than there was.
LEMMA FiltersKeep ==
  ASSUME q \in Query, NEW s \in Seq(Sent), IF q.reverse /\ ~q.byTs THEN Down(s) ELSE Up(s)
  PROVE  /\ FilteredByTs(s) \in Seq(Sent) /\ Len(FilteredByTs(s)) \in 0 .. Len(s)
         /\ FilteredByValue(FilteredByTs(s)) \in Seq(Sent)
         /\ Len(FilteredByValue(FilteredByTs(s))) \in 0 .. Len(s)
         /\ Ordered(FilteredByValue(FilteredByTs(s)))
<1>0. Len(s) \in Nat
  OBVIOUS
<1>1. PICK K \in SUBSET (1 .. Len(s)) : FilterSamples(s, Range(wanted)) = Sub(s, K)
  BY FilterSamplesKeeps
<1>2. PICK f : f = Sub(s, K) /\ f \in Seq(Sent) /\ Len(f) \in 0 .. Len(s) /\ (Up(s) => Up(f))
  BY SubOrder
<1>3. PICK g : g = FilteredByTs(s)
  OBVIOUS
<1>4. g = IF ~q.byTs THEN s ELSE IF q.reverse THEN Reverse(f) ELSE f
  BY <1>1, <1>2, <1>3 DEF FilteredByTs
<1>5. g \in Seq(Sent) /\ Len(g) \in 0 .. Len(s) /\ Ordered(g)
  <2>1. CASE ~q.byTs
    BY <1>0, <1>4, <2>1 DEF Ordered
  <2>2. CASE q.byTs /\ q.reverse
    BY <1>2, <1>4, <2>2, ReverseOrder DEF Ordered
  <2>3. CASE q.byTs /\ ~q.reverse
    BY <1>2, <1>4, <2>3 DEF Ordered
  <2> QED BY <2>1, <2>2, <2>3
<1>6. PICK h : h = FilteredByValue(g)
  OBVIOUS
<1>7. PICK L \in SUBSET (1 .. Len(g)) : h = IF q.byValue THEN Sub(g, L) ELSE g
  <2>1. DOMAIN g = 1 .. Len(g)
    BY <1>5
  <2> QED BY <1>6, <2>1 DEF FilteredByValue
<1>8. /\ Sub(g, L) \in Seq(Sent) /\ Len(Sub(g, L)) \in 0 .. Len(g)
      /\ Ordered(Sub(g, L))
  BY <1>5, SubOrder DEF Ordered
<1>9. h \in Seq(Sent) /\ Len(h) \in 0 .. Len(s) /\ Ordered(h)
  BY <1>0, <1>5, <1>7, <1>8
<1> QED BY <1>3, <1>5, <1>6, <1>9

----------------------------------------------------------------------------
(***************************************************************************)
(* The inductive invariant.                                                *)
(***************************************************************************)
Places == {"fetch", "chunk", "loop", "end", "done", "undefined", "failed"}

TypeInv ==
  /\ q \in Queries
  /\ pc \in Places
  /\ chunks \in Seq(Seq(Time)) /\ Len(chunks) <= MaxTime + 1
  /\ \A i \in 1 .. Len(chunks) : Increasing(chunks[i])
  /\ latest \in BOOLEAN
  /\ wanted \in Seq(Time)
  /\ buf \in Buffer
  /\ si \in 0 .. Cap /\ written \in 0 .. Cap
  /\ bucket \in [start : Time, initialized : BOOLEAN]
  /\ ctx \in Seq(Time)
  /\ open \in BOOLEAN
  /\ reply \in Seq(Sent)
  /\ displaced \in BOOLEAN

\* The current bucket: its end follows from its beginning, but for the first one
\* when that was normalized to 0.
BucketInv ==
  /\ scope # NoScope =>
       /\ scope \in 1 .. MaxTime + q.delta
       /\ bucket.initialized
       /\ bucket.start > 0 => scope = bucket.start + q.delta
  /\ pc = "loop" => scope # NoScope
  /\ pc # "loop" => written = 0 /\ ~displaced

\* A chunk on its way through the iterators.
ChunkInv ==
  pc = "chunk" => View(buf) \in Seq(Sent) /\ Ordered(View(buf)) /\ Fits(buf)

\* In the loop of the aggregation: the samples from si on are the unread ones and
\* in order, the cells below written are buckets, and there are not more
\* of those than fit between the first bucket and the current one.
Unread ==
  /\ unread \in Seq(Sent) /\ Ordered(unread)
  /\ si <= buf.num /\ Len(unread) = buf.num - si
  /\ \A i \in 1 .. Len(unread) : unread[i] = Cell(buf, si + i - 1)
Written ==
  /\ written <= si
  /\ \A i \in 0 .. written - 1 : Cell(buf, i) \in Sent
  /\ IF q.reverse THEN written + scope <= MaxTime + q.delta ELSE written < scope
LoopInv ==
  pc = "loop" /\ ~displaced => Unread /\ Written /\ Fits(buf)

IndInv == TypeInv /\ BucketInv /\ ChunkInv /\ LoopInv

\* The query is one a client can send, of a series that is well formed.
LEMMA QueryOK ==
  ASSUME NEW query \in Queries
  PROVE  query \in Query /\ WellFormed(query) /\ query.delta \in 1 .. MaxTime + 1 /\ query.delta \in Nat
         /\ query.count \in Nat \ {0}
<1>1. query \in Query /\ MaxTime \in Nat
  BY QueriesAssumption, TimeAssumption
<1>2. query.delta \in 1 .. MaxTime + 1 /\ query.count \in 1 .. 2 * MaxTime + 4
  BY <1>1 DEF Query
<1> QED BY <1>1, <1>2, SeriesAssumption

\* The chunks that are read are well formed, and not more than there are timestamps.
LEMMA FirstChunksOK ==
  ASSUME NEW query \in Queries
  PROVE  /\ FirstChunks(query) \in Seq(Seq(Time)) /\ Len(FirstChunks(query)) <= MaxTime + 1
         /\ \A i \in 1 .. Len(FirstChunks(query)) : Increasing(FirstChunks(query)[i])
<1>1. PICK cs : cs = query.chunks
  OBVIOUS
<1>2. cs \in Seq(Seq(Time)) /\ WellFormed(query) /\ MaxTime \in Nat
  BY <1>1, QueryOK, TimeAssumption DEF Query
<1>3. Len(cs) \in Nat /\ DOMAIN cs = 1 .. Len(cs)
  BY <1>2
<1>4. ASSUME NEW i \in 1 .. Len(cs)
      PROVE  /\ cs[i] \in Seq(Time) /\ Increasing(cs[i]) /\ Len(cs[i]) \in Nat \ {0}
             /\ cs[i][1] \in Time /\ cs[i][Len(cs[i])] \in Time /\ cs[i][1] <= cs[i][Len(cs[i])]
  <2>1. PICK c \in Seq(Time) : c = cs[i] /\ c # <<>> /\ Increasing(c)
    BY <1>1, <1>2, <1>3, ElementOfSeq DEF WellFormed
  <2>2. Len(c) \in Nat \ {0} /\ DOMAIN c = 1 .. Len(c)
    BY <2>1
  <2>3. 1 \in 1 .. Len(c) /\ Len(c) \in 1 .. Len(c)
    BY <2>2
  <2>4. c[1] \in Time /\ c[Len(c)] \in Time
    BY <2>3, ElementOfSeq
  <2>5. c[1] <= c[Len(c)]
    BY <2>1, <2>2, <2>3, <2>4 DEF Increasing, Time
  <2> QED BY <2>1, <2>2, <2>4, <2>5
<1>5. Len(cs) <= MaxTime + 1
  <2>1. PICK f : f = [i \in 1 .. Len(cs) |-> cs[i][1]]
    OBVIOUS
  <2>2. f \in [1 .. Len(cs) -> Int] /\ \A i \in 1 .. Len(cs) : f[i] = cs[i][1]
    BY <1>4, <2>1 DEF Time
  <2>3. ASSUME NEW i \in 1 .. Len(cs), NEW j \in 1 .. Len(cs), i < j PROVE f[i] < f[j]
    <3>1. cs[i][Len(cs[i])] < cs[j][1]
      BY <1>1, <1>2, <1>3, <2>3 DEF WellFormed
    <3>2. PICK x \in Int, y \in Int, z \in Int : x = cs[i][1] /\ y = cs[i][Len(cs[i])] /\ z = cs[j][1]
      BY <1>4 DEF Time
    <3>3. x <= y /\ y < z
      BY <1>4, <3>1, <3>2
    <3> QED BY <2>2, <3>2, <3>3
  <2>4. CASE Len(cs) = 0
    BY <1>2, <2>4
  <2>5. CASE Len(cs) # 0
    <3>1. Len(cs) \in Nat \ {0} /\ Len(cs) \in 1 .. Len(cs) /\ 1 \in 1 .. Len(cs)
      BY <1>3, <2>5
    <3>2. f[1] + Len(cs) - 1 <= f[Len(cs)]
      BY <2>2, <2>3, <3>1, Growth
    <3>3. f[1] \in 0 .. MaxTime /\ f[Len(cs)] \in 0 .. MaxTime
      BY <1>4, <2>2, <3>1 DEF Time
    <3> QED BY <1>2, <1>3, <3>2, <3>3
  <2> QED BY <2>4, <2>5
<1>6. CASE cs = <<>>
  <2>1. FirstChunks(query) = <<>>
    BY <1>1, <1>6 DEF FirstChunks
  <2> QED BY <1>2, <2>1
<1>7. CASE cs # <<>>
  <2>0. Len(cs) \in Nat \ {0}
    BY <1>2, <1>7
  <2>1. PICK K \in SUBSET (1 .. Len(cs)) :
          K = {i \in DOMAIN cs : cs[i][1] <= (IF query.reverse THEN query.end ELSE query.start)}
    BY <1>3
  <2>2. Cardinality(K) \in 0 .. Len(cs)
    <3>1. IsFiniteSet(1 .. Len(cs)) /\ Cardinality(1 .. Len(cs)) = Len(cs)
      BY <2>0, FS_Interval
    <3>2. IsFiniteSet(K) /\ Cardinality(K) <= Cardinality(1 .. Len(cs))
      BY <3>1, FS_Subset
    <3>3. Cardinality(K) \in Nat
      BY <3>2, FS_CardinalityType
    <3> QED BY <2>0, <3>1, <3>2, <3>3
  <2>3. PICK first \in 1 .. Len(cs) : first = IF Cardinality(K) = 0 THEN 1 ELSE Cardinality(K)
    BY <2>0, <2>2
  <2>4. FirstChunks(query) = IF query.reverse THEN Reverse(SubSeq(cs, 1, first))
                             ELSE SubSeq(cs, first, Len(cs))
    BY <1>1, <1>7, <2>1, <2>3 DEF FirstChunks
  <2>5. CASE ~query.reverse
    <3>1. PICK z : z = SubSeq(cs, first, Len(cs))
      OBVIOUS
    <3>2. /\ z \in Seq(Seq(Time)) /\ Len(z) = Len(cs) - first + 1
          /\ \A i \in 1 .. Len(z) : first + i - 1 \in 1 .. Len(cs) /\ z[i] = cs[first + i - 1]
      <4>1. first \in Nat \ {0} /\ Len(cs) \in Int /\ Len(cs) <= Len(cs) /\ first <= Len(cs)
        BY <2>0, <2>3
      <4> QED BY <3>1, <4>1, <1>2, Slice
    <3>3. Len(z) <= MaxTime + 1
      BY <3>2, <2>0, <2>3, <1>5, <1>2
    <3>4. \A i \in 1 .. Len(z) : Increasing(z[i])
      BY <3>2, <1>4
    <3> QED BY <2>4, <2>5, <3>1, <3>2, <3>3, <3>4
  <2>6. CASE query.reverse
    <3>1. PICK z : z = SubSeq(cs, 1, first)
      OBVIOUS
    <3>2. /\ z \in Seq(Seq(Time)) /\ Len(z) = first
          /\ \A i \in 1 .. Len(z) : 1 + i - 1 \in 1 .. Len(cs) /\ z[i] = cs[1 + i - 1]
      BY <3>1, <2>0, <2>3, <1>2, Slice
    <3>3. \A i \in 1 .. first : z[i] \in Seq(Time) /\ Increasing(z[i])
      BY <3>2, <1>4
    <3>4. PICK r : r = [i \in 1 .. first |-> z[(first - i) + 1]] /\ r = Reverse(z)
      BY <3>2 DEF Reverse
    <3>5. \A i \in 1 .. first : (first - i) + 1 \in 1 .. first
      BY <2>3
    <3>6. \A i \in 1 .. first : r[i] \in Seq(Time) /\ Increasing(r[i])
      BY <3>3, <3>4, <3>5
    <3>7. first \in Nat /\ first <= MaxTime + 1
      BY <2>0, <2>3, <1>5, <1>2
    <3>8. r \in Seq(Seq(Time)) /\ Len(r) = first
      BY <3>4, <3>6, <3>7
    <3>9. FirstChunks(query) = r
      BY <2>4, <2>6, <3>1, <3>4
    <3> QED BY <3>6, <3>7, <3>8, <3>9
  <2> QED BY <2>5, <2>6
<1> QED BY <1>6, <1>7

----------------------------------------------------------------------------
(***************************************************************************)
(* The series iterator and the filters.                                    *)
(***************************************************************************)
LEMMA InitInv == Init => IndInv
<1> SUFFICES ASSUME Init PROVE IndInv
  OBVIOUS
<1>0. MaxTime \in Nat /\ Cap \in Nat /\ Cap = 2 * MaxTime + 4 /\ 0 \in 0 .. Cap /\ 0 \in Time
  BY CapIs DEF Time
<1>1. q \in Queries /\ q \in Query
  BY QueryOK DEF Init
<1>2. /\ chunks \in Seq(Seq(Time)) /\ Len(chunks) <= MaxTime + 1
      /\ \A i \in 1 .. Len(chunks) : Increasing(chunks[i])
  BY <1>1, FirstChunksOK DEF Init
<1>3. wanted \in Seq(Time)
  <2>1. PICK S : S = q.wanted
    OBVIOUS
  <2>2. S \in SUBSET (0 .. MaxTime)
    BY <1>1, <2>1 DEF Query, Time
  <2>3. IsFiniteSet(0 .. MaxTime)
    BY <1>0, FS_Interval
  <2>4. IsFiniteSet(S)
    BY <2>2, <2>3, FS_Subset
  <2>5. S \in SUBSET Int
    BY <2>2
  <2>6. PICK N \in Nat : Ascending(S) \in [1 .. N -> S]
    BY <2>4, <2>5, AscendingSorts
  <2>7. Ascending(S) \in Seq(S) /\ S \subseteq Time
    BY <2>2, <2>6 DEF Time
  <2>8. Ascending(S) \in Seq(Time)
    BY <2>7, SeqMonotonic
  <2> QED BY <2>1, <2>8 DEF Init, FilterValues
<1>4. buf \in Buffer
  BY <1>0 DEF Init, NewEnrichedChunk, Buffer
<1>5. latest \in BOOLEAN
  BY <1>1 DEF Init, Query
<1>6. <<>> \in Seq(Time) /\ <<>> \in Seq(Sent)
  OBVIOUS
<1>7. TypeInv
  BY <1>0, <1>1, <1>2, <1>3, <1>4, <1>5, <1>6 DEF Init, TypeInv, Places
<1> QED BY <1>7 DEF Init, IndInv, BucketInv, ChunkInv, LoopInv

\* The filters drop values they have used, from either end.
LEMMA StillWantedType ==
  ASSUME q \in Query, wanted \in Seq(Time), NEW n \in Nat
  PROVE  StillWanted(n) \in Seq(Time)
<1>1. Len(wanted) \in Nat /\ Len(wanted) - n \in Int /\ Len(wanted) - n <= Len(wanted) /\ n + 1 \in Nat \ {0}
  OBVIOUS
<1>2. SubSeq(wanted, 1, Len(wanted) - n) \in Seq(Time)
  BY <1>1, Slice
<1>3. SubSeq(wanted, n + 1, Len(wanted)) \in Seq(Time)
  BY <1>1, Slice
<1> QED BY <1>2, <1>3 DEF StillWanted

\* A buffer that passes through the filters.
LEMMA PassInv ==
  ASSUME q \in Query, wanted \in Seq(Time), NEW b \in Buffer, Fits(b),
         View(b) \in Seq(Sent),
         IF q.reverse /\ ~q.byTs THEN Down(View(b)) ELSE Up(View(b)),
         Pass(b)
  PROVE  /\ buf' \in Buffer /\ Fits(buf')
         /\ View(buf') \in Seq(Sent) /\ Ordered(View(buf'))
         /\ wanted' \in Seq(Time)
         /\ pc' \in {"fetch", "chunk", "undefined"}
<1>1. PICK s \in Seq(Sent) : s = View(b)
  OBVIOUS
<1>2. PICK byTs, byValue : /\ byTs = FilteredByTs(s) /\ byValue = FilteredByValue(byTs)
                           /\ buf' = WithView(b, byValue)
                           /\ wanted' = IF q.byTs THEN StillWanted(Len(byTs)) ELSE wanted
                           /\ pc' \in {"fetch", "chunk", "undefined"}
  BY <1>1 DEF Pass
<1>3. /\ byTs \in Seq(Sent) /\ byValue \in Seq(Sent)
      /\ Len(byValue) \in 0 .. Len(s) /\ Ordered(byValue)
  BY <1>1, <1>2, FiltersKeep
<1>4. Len(s) = b.num
  BY <1>1, ViewIs
<1>5. b.off \in Nat /\ b.num \in Nat /\ b.size \in Nat /\ b.off + Len(byValue) <= b.size
  BY <1>3, <1>4, CapIs DEF Fits, Buffer
<1>6. /\ WithView(b, byValue) \in Buffer /\ Fits(WithView(b, byValue))
      /\ View(WithView(b, byValue)) = byValue
  BY <1>3, <1>5, WithViewIs
<1>7. Len(byTs) \in Nat
  BY <1>3
<1>8. wanted' \in Seq(Time)
  BY <1>2, <1>7, StillWantedType
<1> QED BY <1>2, <1>3, <1>6, <1>8

\* What a step outside the aggregation loop has to preserve.
LEMMA OutsideLoop ==
  ASSUME IndInv, TypeInv', ChunkInv', pc # "loop", pc' # "loop",
         UNCHANGED <<q, written, scope, bucket, displaced>>
  PROVE  IndInv'
<1>1. BucketInv'
  BY DEF IndInv, BucketInv
<1>2. LoopInv'
  BY DEF LoopInv
<1> QED BY <1>1, <1>2 DEF IndInv

\* A read chunk arrives in order.
LEMMA ReadChunkInv ==
  ASSUME IndInv, ReadChunk
  PROVE  IndInv'
<1>1. /\ pc = "fetch" /\ chunks # <<>> /\ chunks' = Tail(chunks)
      /\ UNCHANGED <<q, aggregation, reply, unread, displaced>>
  BY DEF ReadChunk
<1>2. q \in Queries /\ q \in Query /\ WellFormed(q) /\ buf \in Buffer /\ wanted \in Seq(Time)
  BY QueryOK DEF IndInv, TypeInv
<1>3. /\ chunks \in Seq(Seq(Time)) /\ Len(chunks) <= MaxTime + 1
      /\ \A i \in 1 .. Len(chunks) : Increasing(chunks[i])
  BY DEF IndInv, TypeInv
<1>4. Len(chunks) \in Nat \ {0} /\ MaxTime \in Nat
  BY <1>1, <1>3, TimeAssumption
<1>5. PICK c \in Seq(Time) : c = Head(chunks) /\ Increasing(c)
  <2>1. 1 \in 1 .. Len(chunks) /\ Head(chunks) = chunks[1]
    BY <1>3, <1>4
  <2> QED BY <1>3, <2>1, ElementOfSeq
<1>6. PICK b : b = ProcessChunk(buf, c)
  OBVIOUS
<1>7. /\ b \in Buffer /\ Fits(b) /\ View(b) \in Seq(Sent)
      /\ IF q.reverse /\ ~q.byTs THEN Down(View(b)) ELSE Up(View(b))
  BY <1>2, <1>5, <1>6, ProcessChunkFits
<1>8. /\ \/ buf' = b /\ UNCHANGED <<pc, wanted>>
         \/ Pass(b)
         \/ Pass(OpenBucket(b))
      /\ latest' \in BOOLEAN
  <2>1. latest \in BOOLEAN
    BY DEF IndInv, TypeInv
  <2>2. \/ buf' = b /\ UNCHANGED <<pc, wanted, latest>>
        \/ HandOut(b)
    BY <1>5, <1>6 DEF ReadChunk
  <2> QED BY <2>1, <2>2 DEF HandOut
<1>9. /\ buf' \in Buffer /\ wanted' \in Seq(Time) /\ pc' \in {"fetch", "chunk", "undefined"}
      /\ pc' = "chunk" => View(buf') \in Seq(Sent) /\ Ordered(View(buf')) /\ Fits(buf')
  <2>1. CASE buf' = b /\ UNCHANGED <<pc, wanted>>
    BY <1>1, <1>2, <1>7, <2>1
  <2>2. CASE Pass(b)
    BY <1>2, <1>7, <2>2, PassInv
  <2>3. CASE Pass(OpenBucket(b))
    <3>1. PICK z : z = OpenBucket(b)
      OBVIOUS
    <3>2. /\ z \in Buffer /\ Fits(z) /\ View(z) \in Seq(Sent)
          /\ IF q.reverse /\ ~q.byTs THEN Down(View(z)) ELSE Up(View(z))
      BY <1>2, <1>7, <3>1, OpenBucketFits
    <3> QED BY <1>2, <2>3, <3>1, <3>2, PassInv
  <2> QED BY <1>8, <2>1, <2>2, <2>3
<1>10. /\ chunks' \in Seq(Seq(Time)) /\ Len(chunks') <= MaxTime + 1
       /\ \A i \in 1 .. Len(chunks') : Increasing(chunks'[i])
  <2>1. PICK z : z = Tail(chunks)
    OBVIOUS
  <2>2. /\ z \in Seq(Seq(Time)) /\ Len(z) = Len(chunks) - 1
        /\ \A i \in 1 .. Len(z) : z[i] = chunks[i + 1]
    BY <1>1, <1>3, <2>1, HeadTailProperties
  <2>3. \A i \in 1 .. Len(z) : i + 1 \in 1 .. Len(chunks)
    BY <1>4, <2>2
  <2>4. \A i \in 1 .. Len(z) : Increasing(z[i])
    BY <1>3, <2>2, <2>3
  <2> QED BY <1>1, <1>3, <1>4, <2>1, <2>2, <2>4
<1>11. TypeInv'
  BY <1>1, <1>8, <1>9, <1>10 DEF IndInv, TypeInv, Places, aggregation
<1>12. ChunkInv'
  BY <1>1, <1>9 DEF ChunkInv, Ordered
<1> QED BY <1>1, <1>9, <1>11, <1>12, OutsideLoop DEF aggregation

\* So does the open bucket.
LEMMA ReadLatestInv ==
  ASSUME IndInv, ReadLatest
  PROVE  IndInv'
<1>1. /\ pc = "fetch" /\ latest' = FALSE
      /\ UNCHANGED <<q, chunks, aggregation, reply, unread, displaced>>
  BY DEF ReadLatest
<1>2. q \in Queries /\ q \in Query /\ WellFormed(q) /\ buf \in Buffer /\ wanted \in Seq(Time)
  BY QueryOK DEF IndInv, TypeInv
<1>3. PICK b : b = OpenBucket(buf) /\ Pass(b)
  BY DEF ReadLatest
<1>4. /\ b \in Buffer /\ Fits(b) /\ View(b) \in Seq(Sent)
      /\ IF q.reverse /\ ~q.byTs THEN Down(View(b)) ELSE Up(View(b))
  BY <1>2, <1>3, OpenBucketFits
<1>5. /\ buf' \in Buffer /\ wanted' \in Seq(Time) /\ pc' \in {"fetch", "chunk", "undefined"}
      /\ View(buf') \in Seq(Sent) /\ Ordered(View(buf')) /\ Fits(buf')
  BY <1>2, <1>3, <1>4, PassInv
<1>6. TypeInv'
  BY <1>1, <1>5 DEF IndInv, TypeInv, Places, aggregation
<1>7. ChunkInv'
  BY <1>1, <1>5 DEF ChunkInv, Ordered
<1> QED BY <1>1, <1>5, <1>6, <1>7, OutsideLoop DEF aggregation

\* GetNext returns NULL.
LEMMA EndOfInputInv ==
  ASSUME IndInv, EndOfInput
  PROVE  IndInv'
<1>1. TypeInv' /\ ChunkInv'
  BY DEF EndOfInput, IndInv, TypeInv, ChunkInv, iterators, aggregation, Places
<1> QED BY <1>1, OutsideLoop DEF EndOfInput, aggregation

----------------------------------------------------------------------------
(***************************************************************************)
(* The reply.                                                              *)
(***************************************************************************)
LEMMA ReplyType ==
  ASSUME q \in Queries, reply \in Seq(Sent), NEW s \in Seq(Sent), Reply(s)
  PROVE  reply' \in Seq(Sent) /\ pc' \in {"fetch", "done"}
<1>1. PICK sent \in Seq(Sent) : sent = reply \o s
  BY ConcatProperties
<1>2. Len(sent) \in Nat /\ q.count \in Nat
  BY <1>1, QueryOK
<1>3. PICK n \in Nat : n <= Len(sent) /\ n = IF Len(sent) < q.count THEN Len(sent) ELSE q.count
  BY <1>2
<1>4. reply' = SubSeq(sent, 1, n) /\ pc' \in {"fetch", "done"}
  BY <1>1, <1>3 DEF Reply
<1>5. SubSeq(sent, 1, n) \in Seq(Sent)
  BY <1>2, <1>3, Slice
<1> QED BY <1>4, <1>5

\* A chunk is sent as it is.
LEMMA ReplyChunkInv ==
  ASSUME IndInv, ReplyChunk
  PROVE  IndInv'
<1>1. View(buf) \in Seq(Sent) /\ q \in Queries /\ reply \in Seq(Sent)
  BY DEF IndInv, ChunkInv, TypeInv, ReplyChunk
<1>2. reply' \in Seq(Sent) /\ pc' \in {"fetch", "done"}
  BY <1>1, ReplyType DEF ReplyChunk
<1>3. TypeInv' /\ ChunkInv'
  BY <1>2 DEF ReplyChunk, IndInv, TypeInv, ChunkInv, iterators, aggregation, Places
<1> QED BY <1>2, <1>3, OutsideLoop DEF ReplyChunk, aggregation

\* The reply is complete.
LEMMA EndOfReplyInv ==
  ASSUME IndInv, EndOfReply
  PROVE  IndInv'
<1>1. TypeInv' /\ ChunkInv'
  BY DEF EndOfReply, IndInv, TypeInv, ChunkInv, iterators, aggregation, Places
<1> QED BY <1>1, OutsideLoop DEF EndOfReply, aggregation

----------------------------------------------------------------------------
(***************************************************************************)
(* Buckets.                                                                *)
(***************************************************************************)
\* A timestamp lies in the bucket CalcBucketStart computes.
LEMMA StartBounds ==
  ASSUME NEW query \in Queries, NEW t \in Time
  PROVE  /\ CalcBucketStart(query, t) \in Int
         /\ CalcBucketStart(query, t) <= t
         /\ t < CalcBucketStart(query, t) + query.delta
<1>1. query.delta \in Nat \ {0} /\ query.align \in Nat /\ t \in Nat
  BY QueryOK, TimeAssumption DEF Query, Time
<1>2. (t - query.align) % query.delta \in 0 .. query.delta - 1
  BY <1>1
<1> QED BY <1>1, <1>2 DEF CalcBucketStart

\* A bucket is something a client may be sent.
LEMMA BucketSent ==
  ASSUME NEW query \in Queries, NEW b \in Time, NEW s \in Seq(Time)
  PROVE  Bucket(query, b, s) \in Sent
<1>1. query.delta \in 1 .. MaxTime + 1 /\ MaxTime \in Nat /\ query.bucketTS \in {"start", "mid", "end"}
  BY QueryOK, TimeAssumption DEF Query
<1>2. query.delta \div 2 \in 0 .. query.delta /\ b \in 0 .. MaxTime
  BY <1>1 DEF Time
<1>3. CalcBucketTs(query, b) \in 0 .. 2 * MaxTime + 1
  BY <1>1, <1>2 DEF CalcBucketTs
<1> QED BY <1>3 DEF Bucket, Sent

\* The loop begins with a whole chunk to read and nothing written.
LEMMA BeginChunkInv ==
  ASSUME IndInv, BeginChunk
  PROVE  IndInv'
<1>0. /\ pc = "chunk" /\ si' = 0 /\ written = 0 /\ ~displaced
      /\ UNCHANGED <<q, iterators, buf, written, ctx, reply, displaced>>
  BY DEF BeginChunk, IndInv, BucketInv
<1>1. /\ q \in Queries /\ q.delta \in 1 .. MaxTime + 1 /\ MaxTime \in Nat /\ Cap \in Nat
      /\ buf \in Buffer /\ bucket \in [start : Time, initialized : BOOLEAN]
  BY QueryOK, CapIs DEF IndInv, TypeInv
<1>2. CASE scope = NoScope /\ buf.num = 0
  <2>1. pc' = "end" /\ UNCHANGED <<scope, bucket, open, unread>>
    BY <1>2 DEF BeginChunk
  <2>2. TypeInv' /\ ChunkInv'
    BY <1>0, <1>1, <2>1 DEF IndInv, TypeInv, ChunkInv, iterators, Places
  <2> QED BY <1>0, <2>1, <2>2, OutsideLoop
<1>3. CASE ~(scope = NoScope /\ buf.num = 0)
  <2>1. PICK start : start = IF bucket.initialized THEN bucket.start
                             ELSE CalcBucketStart(q, Cell(buf, 0).ts)
    OBVIOUS
  <2>2. /\ pc' = "loop" /\ open' = TRUE /\ unread' = View(buf)
        /\ scope' = IF scope = NoScope THEN start + q.delta ELSE scope
        /\ bucket' = [start |-> BucketStartNormalize(start), initialized |-> TRUE]
    BY <1>3, <2>1 DEF BeginChunk
  <2>3. View(buf) \in Seq(Sent) /\ Ordered(View(buf)) /\ Fits(buf)
    BY <1>0 DEF IndInv, ChunkInv
  <2>4. /\ start \in Int /\ start <= MaxTime /\ 1 <= start + q.delta
        /\ scope # NoScope => start = bucket.start /\ start \in Time
    <3>1. CASE bucket.initialized
      BY <1>1, <2>1, <3>1 DEF Time
    <3>2. CASE ~bucket.initialized
      <4>1. scope = NoScope /\ buf.num # 0
        BY <1>3, <3>2 DEF IndInv, BucketInv
      <4>2. buf.num \in Nat /\ buf.off \in Nat
        BY <1>1 DEF Buffer
      <4>3. 1 \in 1 .. buf.num /\ buf.off + 1 - 1 = buf.off + 0
        BY <4>1, <4>2
      <4>4. View(buf)[1] = Cell(buf, 0) /\ Len(View(buf)) = buf.num
        BY <1>1, <4>3, ViewIs DEF Cell
      <4>5. PICK t \in Time : t = Cell(buf, 0).ts
        BY <2>3, <4>3, <4>4 DEF Ordered, Up, Down, Samples
      <4>6. start \in Int /\ start <= t /\ t < start + q.delta
        BY <1>1, <2>1, <3>2, <4>5, StartBounds
      <4> QED BY <1>1, <4>1, <4>5, <4>6 DEF Time
    <3> QED BY <3>1, <3>2
  <2>5. /\ BucketStartNormalize(start) \in Time
        /\ BucketStartNormalize(start) > 0 => start = BucketStartNormalize(start)
        /\ start \in Time => start = BucketStartNormalize(start)
    BY <1>1, <2>4 DEF BucketStartNormalize, Max0, Time
  <2>6. /\ scope' \in 1 .. MaxTime + q.delta
        /\ bucket'.start > 0 => scope' = bucket'.start + q.delta
    <3>1. CASE scope = NoScope
      BY <1>1, <2>2, <2>4, <2>5, <3>1
    <3>2. CASE scope # NoScope
      BY <2>2, <2>4, <2>5, <3>2 DEF IndInv, BucketInv
    <3> QED BY <3>1, <3>2
  <2>7. scope' # NoScope
    BY <1>1, <2>6, NoScopeAssumption
  <2>8. TypeInv'
    BY <1>0, <1>1, <2>2, <2>5 DEF IndInv, TypeInv, iterators, Places
  <2>9. BucketInv'
    BY <1>0, <2>2, <2>6, <2>7 DEF BucketInv
  <2>10. ChunkInv'
    BY <2>2 DEF ChunkInv
  <2>11. Unread'
    <3>1. Len(View(buf)) = buf.num /\ buf.num \in Nat /\ buf.off \in Nat
      BY <1>1, ViewIs DEF Buffer
    <3>2. ASSUME NEW i \in 1 .. Len(View(buf)) PROVE View(buf)[i] = Cell(buf, 0 + i - 1)
      BY <3>1 DEF View
    <3> QED BY <1>0, <2>2, <2>3, <3>1, <3>2 DEF Unread, Ordered
  <2>12. Written'
    BY <1>0, <1>1, <2>6 DEF Written
  <2>13. Fits(buf)'
    BY <1>0, <2>3
  <2> QED BY <2>8, <2>9, <2>10, <2>11, <2>12, <2>13 DEF IndInv, LoopInv
<1> QED BY <1>2, <1>3

\* The assertion on the direction fails.
LEMMA AssertDirectionInv ==
  ASSUME IndInv, AssertDirection
  PROVE  IndInv'
<1>1. TypeInv' /\ ChunkInv'
  BY DEF AssertDirection, IndInv, TypeInv, ChunkInv, iterators, aggregation, Places
<1> QED BY <1>1, OutsideLoop DEF AssertDirection, aggregation

\* The buckets are handed out, and the next chunk begins with none.
LEMMA ReturnChunkInv ==
  ASSUME IndInv, ReturnChunk
  PROVE  IndInv'
<1>0. /\ pc = "loop" /\ ~displaced /\ written' = 0
      /\ UNCHANGED <<q, iterators, buf, si, bucket, ctx, open, unread, displaced>>
  BY DEF ReturnChunk
<1>1. /\ q \in Queries /\ reply \in Seq(Sent) /\ written \in Nat /\ Cap \in Nat
      /\ \A i \in 0 .. written - 1 : Cell(buf, i) \in Sent
  BY <1>0, CapIs DEF IndInv, TypeInv, LoopInv, Written
<1>2. CASE written = 0
  <2>1. pc' = "fetch" /\ UNCHANGED <<scope, reply>>
    BY <1>2 DEF ReturnChunk
  <2>2. TypeInv'
    BY <1>0, <1>1, <2>1 DEF IndInv, TypeInv, iterators, Places
  <2>3. BucketInv' /\ ChunkInv' /\ LoopInv'
    BY <1>0, <2>1 DEF IndInv, BucketInv, ChunkInv, LoopInv
  <2> QED BY <2>2, <2>3 DEF IndInv
<1>3. CASE written # 0
  <2>1. PICK s : s = [i \in 1 .. written |-> Cell(buf, i - 1)] /\ Reply(s)
    BY <1>3 DEF ReturnChunk
  <2>2. \A i \in 1 .. written : i - 1 \in 0 .. written - 1
    BY <1>1
  <2>3. s \in Seq(Sent)
    BY <1>1, <2>1, <2>2
  <2>4. reply' \in Seq(Sent) /\ pc' \in {"fetch", "done"} /\ scope' = NoScope
    BY <1>1, <1>3, <2>1, <2>3, ReplyType DEF ReturnChunk
  <2>5. TypeInv'
    BY <1>0, <1>1, <2>4 DEF IndInv, TypeInv, iterators, Places
  <2>6. BucketInv' /\ ChunkInv' /\ LoopInv'
    BY <1>0, <2>4 DEF IndInv, BucketInv, ChunkInv, LoopInv
  <2> QED BY <2>5, <2>6 DEF IndInv
<1> QED BY <1>2, <1>3

\* The last bucket comes from a chunk of its own.
LEMMA FinalizeInv ==
  ASSUME IndInv, Finalize
  PROVE  IndInv'
<1>0. /\ pc = "end" /\ open' = FALSE /\ scope' = NoScope /\ Reply(<<Bucket(q, bucket.start, ctx)>>)
      /\ UNCHANGED <<q, iterators, buf, si, written, bucket, ctx, unread, displaced>>
  BY DEF Finalize
<1>1. q \in Queries /\ reply \in Seq(Sent) /\ bucket.start \in Time /\ ctx \in Seq(Time)
  BY DEF IndInv, TypeInv
<1>2. <<Bucket(q, bucket.start, ctx)>> \in Seq(Sent)
  BY <1>1, BucketSent
<1>3. reply' \in Seq(Sent) /\ pc' \in {"fetch", "done"}
  BY <1>0, <1>1, <1>2, ReplyType
<1>4. TypeInv'
  BY <1>0, <1>3 DEF IndInv, TypeInv, iterators, Places
<1>5. BucketInv' /\ ChunkInv' /\ LoopInv'
  BY <1>0, <1>3 DEF IndInv, BucketInv, ChunkInv, LoopInv
<1> QED BY <1>4, <1>5 DEF IndInv

\* What is left of an ordered sequence is ordered.
LEMMA OrderedRest ==
  ASSUME NEW s \in Seq(Sent), Ordered(s), NEW m \in Nat \ {0}
  PROVE  /\ SubSeq(s, m, Len(s)) \in Seq(Sent)
         /\ Len(SubSeq(s, m, Len(s))) = IF m <= Len(s) THEN Len(s) - m + 1 ELSE 0
         /\ Ordered(SubSeq(s, m, Len(s)))
         /\ \A i \in 1 .. Len(SubSeq(s, m, Len(s))) :
              m + i - 1 \in 1 .. Len(s) /\ SubSeq(s, m, Len(s))[i] = s[m + i - 1]
<1>0. Len(s) \in Nat /\ Len(s) <= Len(s) /\ Len(s) \in Int
  OBVIOUS
<1>1. PICK z : z = SubSeq(s, m, Len(s))
  OBVIOUS
<1>2. /\ z \in Seq(Sent) /\ Len(z) = (IF m <= Len(s) THEN Len(s) - m + 1 ELSE 0)
      /\ \A i \in 1 .. Len(z) : m + i - 1 \in 1 .. Len(s) /\ z[i] = s[m + i - 1]
  BY <1>0, <1>1, Slice
<1>3. Samples(z)
  BY <1>2 DEF Ordered, Up, Down, Samples
<1>4. ASSUME NEW i \in 1 .. Len(z), NEW j \in 1 .. Len(z), i < j
      PROVE  IF q.reverse THEN z[j].ts < z[i].ts ELSE z[i].ts < z[j].ts
  <2>1. PICK k \in 1 .. Len(s), l \in 1 .. Len(s) :
          k = m + i - 1 /\ l = m + j - 1 /\ z[i] = s[k] /\ z[j] = s[l]
    BY <1>2
  <2>2. k < l
    BY <1>0, <1>2, <1>4, <2>1
  <2> QED BY <2>1, <2>2 DEF Ordered, Up, Down
<1>5. Ordered(z)
  BY <1>3, <1>4 DEF Ordered, Up, Down
<1> QED BY <1>1, <1>2, <1>5

\* Samples up to ei are appended to the current bucket.
LEMMA AppendToInv ==
  ASSUME IndInv, InBucket, NEW ei \in si .. buf.num - 1, AppendTo(ei)
  PROVE  IndInv'
<1>0. /\ pc = "loop" /\ ~displaced /\ si' = ei + 1
      /\ unread' = SubSeq(unread, ei - si + 2, Len(unread))
      /\ ctx' = ctx \o Appended(si, ei)
      /\ UNCHANGED <<q, pc, iterators, buf, written, scope, bucket, open, reply, displaced>>
  BY DEF InBucket, AppendTo
<1>1. Unread /\ Written /\ Fits(buf)
  BY <1>0 DEF IndInv, LoopInv
<1>2. /\ buf \in Buffer /\ si \in 0 .. Cap /\ written \in 0 .. Cap /\ Cap \in Nat /\ buf.num \in 0 .. Cap
      /\ unread \in Seq(Sent) /\ Ordered(unread)
      /\ si <= buf.num /\ Len(unread) = buf.num - si /\ written <= si
      /\ \A i \in 1 .. Len(unread) : unread[i] = Cell(buf, si + i - 1)
      /\ ctx \in Seq(Time)
  BY <1>1, CapIs DEF IndInv, TypeInv, Unread, Written, Buffer
<1>3. si \in Nat /\ ei \in Nat /\ buf.num \in Nat /\ si <= ei /\ ei < buf.num /\ written \in Nat
  BY <1>2
<1>4. PICK m \in Nat \ {0} : m = ei - si + 2
  BY <1>3
<1>5. PICK z : z = SubSeq(unread, m, Len(unread))
  OBVIOUS
<1>6. /\ z \in Seq(Sent) /\ Ordered(z)
      /\ Len(z) = (IF m <= Len(unread) THEN Len(unread) - m + 1 ELSE 0)
      /\ \A i \in 1 .. Len(z) : m + i - 1 \in 1 .. Len(unread) /\ z[i] = unread[m + i - 1]
  BY <1>2, <1>4, <1>5, OrderedRest
<1>7. Len(z) = buf.num - (ei + 1)
  <2>1. PICK r \in Nat, e \in Nat, n \in Nat, len \in Nat :
          r = si /\ e = ei /\ n = buf.num /\ len = Len(unread)
    <3>1. Len(unread) \in Nat
      BY <1>2
    <3> QED BY <1>3, <3>1
  <2>2. r <= e /\ e < n /\ len = n - r /\ m = e - r + 2
    BY <1>2, <1>3, <1>4, <2>1
  <2>3. (m <= len => len - m + 1 = n - (e + 1)) /\ (~(m <= len) => 0 = n - (e + 1))
    BY <2>2
  <2> QED BY <1>6, <2>1, <2>3
<1>8. ASSUME NEW i \in 1 .. Len(z) PROVE z[i] = Cell(buf, (ei + 1) + i - 1)
  <2>1. PICK k \in 1 .. Len(unread) : k = m + i - 1 /\ z[i] = unread[k]
    BY <1>6
  <2>2. Len(z) \in Nat /\ i \in Nat /\ k \in Nat
    BY <1>3, <1>7, <2>1, <1>4
  <2>3. si + k - 1 = (ei + 1) + i - 1
    BY <1>3, <1>4, <2>1, <2>2
  <2> QED BY <1>2, <2>1, <2>3
<1>9. Appended(si, ei) \in Seq(Time)
  <2>1. ASSUME NEW i \in 1 .. ei - si + 1 PROVE Head(Cell(buf, si + i - 1).val) \in Time
    <3>1. i \in 1 .. Len(unread)
      BY <1>2, <1>3
    <3>2. PICK t \in Time : unread[i] = Sample(t)
      BY <1>2, <3>1 DEF Ordered, Up, Down, Samples
    <3>3. Cell(buf, si + i - 1).val = <<t>>
      BY <1>2, <3>1, <3>2, SampleSent
    <3> QED BY <3>3
  <2>2. ei - si + 1 \in Nat
    BY <1>3
  <2> QED BY <2>1, <2>2 DEF Appended
<1>10. ctx' \in Seq(Time)
  BY <1>0, <1>2, <1>9, ConcatProperties
<1>11. si' \in 0 .. Cap /\ si' <= buf.num /\ written <= si'
  BY <1>0, <1>2, <1>3
<1>12. TypeInv'
  BY <1>0, <1>10, <1>11 DEF IndInv, TypeInv, iterators
<1>13. BucketInv' /\ ChunkInv'
  BY <1>0 DEF IndInv, BucketInv, ChunkInv
<1>14. Unread'
  <2>1. unread' = z /\ si' = ei + 1 /\ buf' = buf /\ q' = q
    BY <1>0, <1>4, <1>5
  <2>2. \A i \in 1 .. Len(unread') : unread'[i] = Cell(buf', si' + i - 1)
    BY <1>8, <2>1 DEF Cell
  <2>3. Ordered(unread)'
    BY <1>6, <2>1 DEF Ordered
  <2> QED BY <1>6, <1>7, <1>11, <2>1, <2>2, <2>3 DEF Unread
<1>15. Written'
  BY <1>0, <1>1, <1>11 DEF Written, Cell
<1>16. Fits(buf)'
  BY <1>0, <1>1
<1> QED BY <1>12, <1>13, <1>14, <1>15, <1>16 DEF IndInv, LoopInv

\* findLastIndexbeforeTS finds an index of the chunk, of a sample in the bucket.
LEMMA LastIndexFound ==
  ASSUME IndInv, InBucket, Vectorized
  PROVE  LastIndexBefore(scope) \in si .. buf.num - 1 /\ Cell(buf, LastIndexBefore(scope)).ts < scope
<1>1. /\ pc = "loop" /\ ~displaced /\ ~q.reverse /\ si < buf.num /\ ~(Cell(buf, si).ts >= scope)
  BY DEF InBucket, Vectorized, EndsBucket
<1>2. /\ si \in Nat /\ buf.num \in Nat /\ scope \in Int
      /\ Len(unread) = buf.num - si /\ Ordered(unread)
      /\ \A i \in 1 .. Len(unread) : unread[i] = Cell(buf, si + i - 1)
  BY <1>1, CapIs, QueryOK DEF IndInv, TypeInv, BucketInv, LoopInv, Unread, Buffer
<1>3. ASSUME NEW k \in si .. buf.num - 1 PROVE Cell(buf, k).ts \in Int
  <2>1. PICK i \in 1 .. Len(unread) : i = k - si + 1
    BY <1>2
  <2>2. si + i - 1 = k
    BY <1>2, <2>1
  <2>3. unread[i].ts \in Time
    BY <1>2, <2>1 DEF Ordered, Up, Down, Samples
  <2> QED BY <1>2, <2>1, <2>2, <2>3 DEF Time
\* The largest index below which all samples are in the bucket.
<1>4. \E i \in si .. buf.num - 1 :
        /\ Cell(buf, i).ts < scope
        /\ i = buf.num - 1 \/ Cell(buf, i + 1).ts >= scope
  <2> SUFFICES ASSUME \A i \in si .. buf.num - 1 :
                        Cell(buf, i).ts < scope => i # buf.num - 1 /\ ~(Cell(buf, i + 1).ts >= scope)
               PROVE  FALSE
    OBVIOUS
  <2> DEFINE M == {i \in si .. buf.num - 1 : ~(Cell(buf, i).ts < scope)}
  <2>1. M # {}
    <3>1. buf.num - 1 \in si .. buf.num - 1
      BY <1>1, <1>2
    <3> QED BY <3>1
  <2>2. M \in SUBSET Nat
    BY <1>2
  <2>3. PICK m \in M : \A i \in M : m <= i
    BY <2>1, <2>2, SmallestExists
  <2>4. m \in si .. buf.num - 1 /\ ~(Cell(buf, m).ts < scope)
    BY <2>3
  <2>5. si \in si .. buf.num - 1 /\ Cell(buf, si).ts < scope
    BY <1>1, <1>2, <1>3
  <2>6. m # si /\ m - 1 \in si .. buf.num - 1 /\ (m - 1) + 1 = m
    BY <1>2, <2>4, <2>5
  <2>7. Cell(buf, m - 1).ts < scope
    <3>1. m - 1 \notin M
      BY <1>2, <2>3, <2>4, <2>6
    <3> QED BY <2>6, <3>1
  <2>8. ~(Cell(buf, m).ts >= scope)
    BY <2>6, <2>7
  <2> QED BY <1>2, <1>3, <2>4, <2>8
<1> QED BY <1>4 DEF LastIndexBefore

\* The two loops that append to the current bucket.
LEMMA AppendValueInv ==
  ASSUME IndInv, AppendValue \/ AppendValueVec
  PROVE  IndInv'
<1>1. CASE AppendValue
  <2>1. si \in Nat /\ buf.num \in Nat /\ InBucket /\ AppendTo(si) /\ si < buf.num
    BY <1>1, CapIs DEF AppendValue, InBucket, IndInv, TypeInv, Buffer
  <2>2. si \in si .. buf.num - 1
    BY <2>1
  <2> QED BY <2>1, <2>2, AppendToInv
<1>2. CASE AppendValueVec
  BY <1>2, LastIndexFound, AppendToInv DEF AppendValueVec
<1> QED BY <1>1, <1>2

----------------------------------------------------------------------------
(***************************************************************************)
(* The empty buckets between two others.                                   *)
(***************************************************************************)
\* Steps of d that fit into x.
LEMMA Steps ==
  ASSUME NEW x \in Int, NEW d \in Nat \ {0}
  PROVE  /\ x \div d \in Int
         /\ x < 0 => x \div d < 0
         /\ x >= 0 => x \div d \in 0 .. x
         /\ \A k \in Nat : k <= x \div d => k * d \in 0 .. x
<1>1. PICK y \in Int, m \in 0 .. d - 1 : y = x \div d /\ x = (d * y) + m
  <2>1. x \div d \in Int /\ x % d \in 0 .. d - 1 /\ x = (d * (x \div d)) + (x % d)
    OBVIOUS
  <2> QED BY <2>1
<1>2. ASSUME NEW k \in Nat, k <= y PROVE k * d \in 0 .. x
  <2>1. PICK j \in Nat : y = k + j
    <3>1. y - k \in Nat /\ y = k + (y - k)
      BY <1>1, <1>2
    <3> QED BY <3>1
  <2>2. k * d >= 0 /\ j * d >= 0 /\ k * d \in Int /\ j * d \in Int
    OBVIOUS
  <2>3. d * y = (k * d) + (j * d)
    BY <2>1
  <2> QED BY <1>1, <2>2, <2>3
<1>3. ASSUME x < 0, ~(y < 0) PROVE FALSE
  <2>1. 0 * d \in 0 .. x
    BY <1>1, <1>2, <1>3
  <2> QED BY <1>3, <2>1
<1>4. ASSUME x >= 0 PROVE y \in 0 .. x
  <2>1. y >= 0
    <3> SUFFICES ASSUME y <= 0 - 1 PROVE FALSE
      BY <1>1
    <3>1. PICK j \in Nat : y = (0 - 1) - j
      <4>1. (0 - 1) - y \in Nat /\ y = (0 - 1) - ((0 - 1) - y)
        BY <1>1
      <4> QED BY <4>1
    <3>2. d * j >= 0 /\ d * j \in Int
      OBVIOUS
    <3>3. d * y = (0 - d) - (d * j)
      BY <3>1
    <3> QED BY <1>1, <1>4, <3>2, <3>3
  <2>2. PICK e \in Nat : d = 1 + e
    <3>1. d - 1 \in Nat /\ d = 1 + (d - 1)
      OBVIOUS
    <3> QED BY <3>1
  <2>3. PICK k \in Nat : k = y
    BY <2>1
  <2>4. e * k >= 0 /\ e * k \in Int
    OBVIOUS
  <2>5. d * k = k + (e * k)
    BY <2>2
  <2> QED BY <1>1, <2>3, <2>4, <2>5
<1> QED BY <1>1, <1>2, <1>3, <1>4

\* Forward: the gap lies between the end of the bucket and the new one.
LEMMA GapForward ==
  ASSUME q \in Queries, ~q.reverse, scope \in 1 .. MaxTime + q.delta,
         NEW new \in Int, new <= MaxTime
  PROVE  /\ EmptyBuckets(new) \in Seq(Time)
         /\ Len(EmptyBuckets(new)) = 0 \/ scope + Len(EmptyBuckets(new)) <= new
<1> DEFINE last == Max0(new - q.delta)
           far  == last - scope
           n    == far \div q.delta + 1
<1>0. q.delta \in Nat \ {0} /\ MaxTime \in Nat /\ scope \in Nat
  BY QueryOK, TimeAssumption
<1>1. EmptyBuckets(new) = IF q.empty /\ scope < new
                          THEN [i \in 1 .. n |-> scope + (i - 1) * q.delta]
                          ELSE <<>>
  BY DEF EmptyBuckets
<1>2. CASE ~(q.empty /\ scope < new)
  <2>1. EmptyBuckets(new) = <<>>
    BY <1>1, <1>2
  <2> QED BY <2>1
<1>3. CASE q.empty /\ scope < new
  <2>1. last \in Nat /\ far \in Int /\ (last = new - q.delta \/ last = 0)
    BY <1>0 DEF Max0
  <2>2. PICK y \in Int : /\ y = far \div q.delta
                         /\ far < 0 => y < 0
                         /\ far >= 0 => y \in 0 .. far
                         /\ \A k \in Nat : k <= y => k * q.delta \in 0 .. far
    BY <1>0, <2>1, Steps
  <2>3. PICK z : z = [i \in 1 .. y + 1 |-> scope + (i - 1) * q.delta]
    OBVIOUS
  <2>4. EmptyBuckets(new) = z
    BY <1>1, <1>3, <2>2, <2>3
  <2> HIDE DEF last
  <2>5. CASE far < 0
    <3>1. 1 .. y + 1 = 1 .. 0
      BY <2>2, <2>5
    <3>2. z = <<>>
      BY <2>3, <3>1
    <3> QED BY <2>4, <3>2
  <2>6. CASE far >= 0
    <3>1. last = new - q.delta
      BY <1>0, <2>1, <2>6
    <3>2. y \in 0 .. far /\ y + 1 \in Nat
      BY <2>1, <2>2, <2>6
    <3>3. ASSUME NEW i \in 1 .. y + 1 PROVE scope + (i - 1) * q.delta \in Time
      <4>1. (i - 1) \in Nat /\ i - 1 <= y
        BY <3>2
      <4>2. PICK e \in 0 .. far : e = (i - 1) * q.delta
        BY <2>2, <4>1
      <4> QED BY <1>0, <2>1, <3>1, <4>2 DEF Time
    <3>4. z \in Seq(Time) /\ Len(z) = y + 1
      BY <2>3, <3>2, <3>3
    <3>5. scope + (y + 1) <= new
      BY <1>0, <2>1, <3>1, <3>2
    <3> QED BY <2>4, <3>4, <3>5
  <2> QED BY <2>1, <2>5, <2>6
<1> QED BY <1>2, <1>3

\* In reverse: between the new bucket and the beginning of the last one.
LEMMA GapReverse ==
  ASSUME q \in Queries, q.reverse, scope \in 1 .. MaxTime + q.delta,
         NEW new \in Int, 0 < new + q.delta
  PROVE  /\ EmptyBuckets(new) \in Seq(Time)
         /\ \/ Len(EmptyBuckets(new)) = 0
            \/ Len(EmptyBuckets(new)) + new + 3 * q.delta <= scope + 1
<1> DEFINE first == Max0(scope - 2 * q.delta)
           last  == new + q.delta
           far   == first - last
           n     == far \div q.delta + 1
<1>0. q.delta \in Nat \ {0} /\ MaxTime \in Nat /\ scope \in Nat
  BY QueryOK, TimeAssumption
<1>1. EmptyBuckets(new) = IF q.empty /\ scope >= last + 2 * q.delta
                          THEN [i \in 1 .. n |-> first + (i - 1) * (-q.delta)]
                          ELSE <<>>
  BY DEF EmptyBuckets
<1>2. CASE ~(q.empty /\ scope >= last + 2 * q.delta)
  <2>1. EmptyBuckets(new) = <<>>
    BY <1>1, <1>2
  <2> QED BY <2>1
<1>3. CASE q.empty /\ scope >= last + 2 * q.delta
  <2>1. first \in Nat /\ far \in Int /\ first = scope - 2 * q.delta /\ far >= 0
    BY <1>0, <1>3 DEF Max0
  <2>2. PICK y \in Int : /\ y = far \div q.delta
                         /\ y \in 0 .. far
                         /\ \A k \in Nat : k <= y => k * q.delta \in 0 .. far
    BY <1>0, <2>1, Steps
  <2>3. PICK z : z = [i \in 1 .. y + 1 |-> first + (i - 1) * (-q.delta)]
    OBVIOUS
  <2>4. EmptyBuckets(new) = z
    BY <1>1, <1>3, <2>2, <2>3
  <2> HIDE DEF first
  <2>5. y + 1 \in Nat
    BY <2>2
  <2>6. ASSUME NEW i \in 1 .. y + 1 PROVE first + (i - 1) * (-q.delta) \in Time
    <3>1. (i - 1) \in Nat /\ i - 1 <= y
      BY <2>2
    <3>2. PICK e \in 0 .. far : e = (i - 1) * q.delta
      BY <2>2, <3>1
    <3>3. (i - 1) * (-q.delta) = 0 - e
      BY <1>0, <3>1, <3>2
    <3> QED BY <1>0, <2>1, <3>2, <3>3 DEF Time
  <2>7. z \in Seq(Time) /\ Len(z) = y + 1
    BY <2>3, <2>5, <2>6
  <2>8. (y + 1) + new + 3 * q.delta <= scope + 1
    BY <1>0, <2>1, <2>2
  <2> QED BY <2>4, <2>7, <2>8
<1> QED BY <1>2, <1>3

----------------------------------------------------------------------------
(***************************************************************************)
(* Making room for them.                                                   *)
(***************************************************************************)
\* Writing a sequence into the array.
Filled(a, from, s) == [a EXCEPT !.cells = SetCells(a, from, s)]

\* The effect of writing, on all parts of a buffer.
LEMMA FillIs ==
  ASSUME NEW a \in Buffer, NEW from \in Nat, NEW s \in Seq(Sent)
  PROVE  /\ Filled(a, from, s) \in Buffer /\ Filled(a, from, s).off = a.off
         /\ Filled(a, from, s).num = a.num /\ Filled(a, from, s).size = a.size
         /\ \A i \in 0 .. Cap :
              i < from \/ from + Len(s) <= i => Filled(a, from, s).cells[i] = a.cells[i]
         /\ from + Len(s) <= Cap + 1 =>
              \A i \in 1 .. Len(s) : Filled(a, from, s).cells[from + i - 1] = s[i]
<1>1. PICK c : c = SetCells(a, from, s)
  OBVIOUS
<1>2. /\ c \in [0 .. Cap -> Sent \cup {Garbage}]
      /\ \A i \in 0 .. Cap : i < from \/ from + Len(s) <= i => c[i] = a.cells[i]
  BY <1>1, SetCellsType
<1>3. from + Len(s) <= Cap + 1 => \A i \in 1 .. Len(s) : c[from + i - 1] = s[i]
  BY <1>1, SetCellsWrites
<1>4. PICK z : z = [a EXCEPT !.cells = c] /\ z = Filled(a, from, s)
  BY <1>1 DEF Filled
<1>5. z \in Buffer /\ z.cells = c /\ z.off = a.off /\ z.num = a.num /\ z.size = a.size
  BY <1>2, <1>4 DEF Buffer
<1> QED BY <1>2, <1>3, <1>4, <1>5

\* A function on an interval from 1 is a sequence.
LEMMA FunctionIsSeq ==
  ASSUME NEW S, NEW k \in Nat, NEW g \in [1 .. k -> S]
  PROVE  g \in Seq(S) /\ Len(g) = k
  OBVIOUS

\* w buckets are written and the samples from index r on are unread.
Split(b, w, r) ==
  /\ b \in Buffer /\ Fits(b)
  /\ w \in Nat /\ r \in Nat /\ w <= r /\ r <= b.num
  /\ \A i \in 0 .. w - 1 : Cell(b, i) \in Sent
  /\ \A i \in r .. b.num - 1 : Cell(b, i) \in Sent

\* The numbers of such a buffer.
LEMMA SplitBounds ==
  ASSUME NEW b, NEW w, NEW r, Split(b, w, r)
  PROVE  /\ b \in Buffer /\ Fits(b) /\ w \in Nat /\ r \in Nat /\ w <= r /\ r <= b.num /\ Cap \in Nat
         /\ b.off \in Nat /\ b.num \in Nat /\ b.size \in Nat /\ b.off + b.num <= b.size /\ b.size <= Cap
  BY CapIs DEF Split, Fits, Buffer

\* The buckets are moved to the beginning of the array, and the left samples that are
\* unread to index x, behind n free cells.
LEMMA RoomMade ==
  ASSUME NEW b, NEW w, NEW r, Split(b, w, r), NEW n \in Nat, NEW left, left = b.num - r,
         NEW x, x = w + n, x + left <= Cap,
         NEW z, z = MakeRoom(b, w, r, n)
  PROVE  /\ z \in Buffer /\ z.num = x + left
         /\ z.off = 0 =>
              /\ Fits(z)
              /\ \A i \in 0 .. w - 1 : Cell(z, i) \in Sent /\ Cell(z, i) = Cell(b, i)
              /\ \A i \in 0 .. left - 1 : Cell(z, x + i) = Cell(b, r + i)
<1> DEFINE needed  == w + n + left
           unmoved == [i \in 1 .. left |-> Cell(b, r + i - 1)]
           kept    == [i \in 1 .. w |-> Cell(b, i - 1)]
           front   == [b EXCEPT !.cells = SetCells(b, 0, kept)]
           moved   == SetCells(front, w + n, unmoved)
<1>0. /\ b \in Buffer /\ Fits(b) /\ w \in Nat /\ r \in Nat /\ w <= r /\ r <= b.num /\ Cap \in Nat
      /\ b.off \in Nat /\ b.num \in Nat /\ b.size \in Nat /\ b.off + b.num <= b.size /\ b.size <= Cap
  BY SplitBounds
<1>1. left \in Nat /\ x \in Nat /\ needed \in Nat /\ needed <= Cap /\ needed = x + left /\ w <= x
  BY <1>0
<1>2. z = [cells |-> moved,
           size  |-> IF needed > b.size THEN needed ELSE b.size,
           off   |-> IF needed > b.size THEN 0 ELSE b.off,
           num   |-> needed]
  BY DEF MakeRoom
<1>3. kept \in Seq(Sent) /\ Len(kept) = w /\ \A i \in 1 .. w : kept[i] = Cell(b, i - 1)
  <2>1. \A i \in 1 .. w : i - 1 \in 0 .. w - 1
    BY <1>0
  <2>2. \A i \in 1 .. w : Cell(b, i - 1) \in Sent
    BY <2>1 DEF Split
  <2> QED BY <1>0, <2>2
<1>4. unmoved \in Seq(Sent) /\ Len(unmoved) = left /\ \A i \in 1 .. left : unmoved[i] = Cell(b, r + i - 1)
  <2>1. \A i \in 1 .. left : r + i - 1 \in r .. b.num - 1
    BY <1>0
  <2>2. \A i \in 1 .. left : Cell(b, r + i - 1) \in Sent
    BY <2>1 DEF Split
  <2>a. PICK k \in Nat : k = left
    BY <1>1
  <2>b. PICK g : g = [i \in 1 .. k |-> Cell(b, r + i - 1)]
    OBVIOUS
  <2>3. k = left /\ g = [i \in 1 .. k |-> Cell(b, r + i - 1)] /\ g = unmoved
    BY <2>a, <2>b
  <2>4. \A i \in 1 .. k : g[i] = Cell(b, r + i - 1) /\ g[i] \in Sent
    BY <2>2, <2>3
  <2>5. g \in [1 .. k -> Sent]
    BY <2>3, <2>4
  <2>6. g \in Seq(Sent) /\ Len(g) = k
    BY <2>5, FunctionIsSeq
  <2> QED BY <2>3, <2>4, <2>6
<1> HIDE DEF kept, unmoved
<1>5. PICK f : f = front
  OBVIOUS
<1>6. /\ f \in Buffer
      /\ \A i \in 1 .. w : f.cells[0 + i - 1] = kept[i]
  <2>1. PICK from \in Nat : from = 0 /\ from + w <= Cap + 1
    BY <1>0
  <2>2. f = Filled(b, from, kept)
    BY <1>5, <2>1 DEF Filled
  <2>3. f \in Buffer /\ (from + w <= Cap + 1 => \A i \in 1 .. w : f.cells[from + i - 1] = kept[i])
    BY <1>0, <1>3, <2>2, FillIs
  <2> QED BY <2>1, <2>3
<1>7. PICK c : c = moved
  OBVIOUS
<1>8. c = SetCells(f, x, unmoved)
  BY <1>5, <1>7
<1> HIDE DEF front, moved
<1>9. /\ c \in [0 .. Cap -> Sent \cup {Garbage}]
      /\ \A i \in 0 .. Cap : i < x => c[i] = f.cells[i]
      /\ \A i \in 1 .. left : c[x + i - 1] = unmoved[i]
  <2>1. x + left <= Cap + 1
    BY <1>0, <1>1
  <2>2. /\ c \in [0 .. Cap -> Sent \cup {Garbage}]
        /\ \A i \in 0 .. Cap : i < x \/ x + Len(unmoved) <= i => c[i] = f.cells[i]
    BY <1>1, <1>4, <1>6, <1>8, SetCellsType
  <2>3. \A i \in 1 .. Len(unmoved) : SetCells(f, x, unmoved)[x + i - 1] = unmoved[i]
    BY <1>1, <1>4, <1>6, <2>1, SetCellsWrites
  <2> QED BY <1>1, <1>4, <1>8, <2>2, <2>3
<1>10. PICK size \in 0 .. Cap, off \in 0 .. Cap, num \in 0 .. Cap :
         /\ size = (IF needed > b.size THEN needed ELSE b.size) /\ off = (IF needed > b.size THEN 0 ELSE b.off)
         /\ num = needed /\ needed <= size
  <2>1. PICK k \in 0 .. Cap : k = needed
    BY <1>0, <1>1
  <2> HIDE DEF needed
  <2>2. CASE needed > b.size
    BY <1>0, <2>1, <2>2
  <2>3. CASE ~(needed > b.size)
    BY <1>0, <2>1, <2>3
  <2> QED BY <2>2, <2>3
<1>11. z = [cells |-> c, size |-> size, off |-> off, num |-> num]
  BY <1>2, <1>7, <1>10
<1> HIDE DEF needed
<1>12. z \in Buffer /\ z.num = num /\ z.cells = c /\ z.off = off /\ z.size = size
  BY <1>9, <1>11 DEF Buffer
<1>13. ASSUME z.off = 0 PROVE Fits(z)
  BY <1>1, <1>10, <1>12, <1>13 DEF Fits
<1>14. ASSUME z.off = 0, NEW i \in 0 .. w - 1 PROVE Cell(z, i) \in Sent /\ Cell(z, i) = Cell(b, i)
  <2>1. i \in 0 .. Cap /\ i < x /\ i + 1 \in 1 .. w /\ 0 + (i + 1) - 1 = i /\ (i + 1) - 1 = i /\ 0 + i = i
    BY <1>0, <1>1
  <2>2. c[i] = f.cells[i]
    BY <1>9, <2>1
  <2>3. f.cells[i] = kept[i + 1]
    BY <1>6, <2>1
  <2>4. kept[i + 1] = Cell(b, i)
    BY <1>3, <2>1
  <2>5. Cell(z, i) = c[i]
    BY <1>12, <1>14, <2>1 DEF Cell
  <2> QED BY <2>2, <2>3, <2>4, <2>5 DEF Split
<1>15. ASSUME z.off = 0, NEW i \in 0 .. left - 1 PROVE Cell(z, x + i) = Cell(b, r + i)
  <2>1. /\ i + 1 \in 1 .. left /\ x + (i + 1) - 1 = x + i /\ r + (i + 1) - 1 = r + i
        /\ 0 + (x + i) = x + i
    BY <1>0, <1>1
  <2>2. c[x + i] = unmoved[i + 1]
    BY <1>9, <2>1
  <2>3. unmoved[i + 1] = Cell(b, r + i)
    BY <1>4, <2>1
  <2>4. Cell(z, x + i) = c[x + i]
    BY <1>12, <1>15, <2>1 DEF Cell
  <2> QED BY <2>2, <2>3, <2>4
<1> QED BY <1>1, <1>10, <1>12, <1>13, <1>14, <1>15

\* fillEmptyBuckets: room for n values behind the w buckets.  The left samples that are
\* unread begin at x afterwards.
Expands(b, w, r, n, moves, a, x) ==
  /\ moves = (n > 0 /\ NeedsRoom(w, n, r))
  /\ a = (IF moves THEN MakeRoom(b, w, r, n) ELSE b)
  /\ x = (IF moves THEN w + n ELSE r)

Space(b, w, r, n, left) == left = b.num - r /\ w + n + left <= Cap
Kept(b, w, r, n, left, a, x) ==
  /\ Fits(a) /\ w + n <= x /\ a.num = x + left
  /\ \A i \in 0 .. w - 1 : Cell(a, i) \in Sent /\ Cell(a, i) = Cell(b, i)
  /\ \A i \in 0 .. left - 1 : Cell(a, x + i) = Cell(b, r + i)

\* Whether the buffer is expanded or not, buckets and unread samples are kept.
LEMMA RoomKept ==
  ASSUME NEW b, NEW w, NEW r, Split(b, w, r), NEW n \in Nat, NEW left \in Nat, Space(b, w, r, n, left),
         NEW moves \in BOOLEAN, NEW a, NEW x, Expands(b, w, r, n, moves, a, x)
  PROVE  /\ a \in Buffer /\ x \in 0 .. Cap
         /\ ~(moves /\ a.off > 0) => Kept(b, w, r, n, left, a, x)
<1> USE DEF Kept, Space
<1>0. /\ b \in Buffer /\ Fits(b) /\ w \in Nat /\ r \in Nat /\ w <= r /\ r <= b.num /\ Cap \in Nat
      /\ b.off \in Nat /\ b.num \in Nat /\ b.size \in Nat /\ b.off + b.num <= b.size /\ b.size <= Cap
  BY SplitBounds
<1>1. CASE moves
  <2>1. a = MakeRoom(b, w, r, n) /\ x = w + n
    BY <1>1 DEF Expands
  <2>2. x \in 0 .. Cap /\ x + left <= Cap
    BY <1>0, <2>1
  <2>3. /\ a \in Buffer /\ a.num = x + left
        /\ a.off = 0 =>
             /\ Fits(a)
             /\ \A i \in 0 .. w - 1 : Cell(a, i) \in Sent /\ Cell(a, i) = Cell(b, i)
             /\ \A i \in 0 .. left - 1 : Cell(a, x + i) = Cell(b, r + i)
    BY <2>1, <2>2, RoomMade
  <2>4. a.off \in Nat
    BY <1>0, <2>3 DEF Buffer
  <2>5. ~(moves /\ a.off > 0) => a.off = 0
    BY <1>1, <2>4
  <2>6. w + n <= x
    BY <1>0, <2>1
  <2> QED BY <2>2, <2>3, <2>5, <2>6
<1>2. CASE ~moves
  <2>1. a = b /\ x = r
    BY <1>2 DEF Expands
  <2>2. w + n <= r
    <3>1. ~(n > 0 /\ NeedsRoom(w, n, r))
      BY <1>2 DEF Expands
    <3>2. n = 0 \/ ~(w + n - 1 >= r)
      BY <3>1 DEF NeedsRoom
    <3> QED BY <1>0, <3>2
  <2>3. r \in 0 .. Cap /\ b.num = r + left
    BY <1>0
  <2>4. \A i \in 0 .. w - 1 : Cell(b, i) \in Sent
    BY DEF Split
  <2> QED BY <1>0, <2>1, <2>2, <2>3, <2>4
<1> QED BY <1>1, <1>2

\* The numbers of a buffer, and what it means that s was written into a.
Shape(b, o, p, sz) == b \in Buffer /\ b.off = o /\ b.num = p /\ b.size = sz
Writes(z, a, from, s, n) == s \in Seq(Sent) /\ Len(s) = n /\ z = Filled(a, from, s)

Effect(z, a, from, s, n) ==
  /\ \A i \in 0 .. Cap : i < from \/ from + n <= i => z.cells[i] = a.cells[i]
  /\ from + n <= Cap + 1 => \A i \in 1 .. n : z.cells[from + i - 1] = s[i]

\* The same, for a buffer with these numbers.
LEMMA WritesIs ==
  ASSUME NEW a, NEW o \in Nat, NEW p \in Nat, NEW sz \in Nat, Shape(a, o, p, sz),
         NEW from \in Nat, NEW n \in Nat, NEW s, NEW z, Writes(z, a, from, s, n)
  PROVE  Shape(z, o, p, sz) /\ Effect(z, a, from, s, n)
<1>1. a \in Buffer /\ s \in Seq(Sent) /\ Len(s) = n /\ z = Filled(a, from, s)
  BY DEF Shape, Writes
<1>2. /\ Filled(a, from, s) \in Buffer /\ Filled(a, from, s).off = a.off
      /\ Filled(a, from, s).num = a.num /\ Filled(a, from, s).size = a.size
      /\ \A i \in 0 .. Cap :
           i < from \/ from + Len(s) <= i => Filled(a, from, s).cells[i] = a.cells[i]
      /\ from + Len(s) <= Cap + 1 =>
           \A i \in 1 .. Len(s) : Filled(a, from, s).cells[from + i - 1] = s[i]
  BY <1>1, FillIs
<1> QED BY <1>1, <1>2 DEF Shape, Effect

\* Writing the values leaves the samples behind them alone.
Apart(o, p, sz, w, n, x, from) == from = o + w /\ o + p <= sz /\ sz <= Cap /\ w + n <= x /\ x <= p
Intact(z, a, s, p, w, n, x) ==
  /\ Fits(z) /\ z.num = p
  /\ \A i \in 0 .. w - 1 : Cell(z, i) = Cell(a, i)
  /\ \A i \in w .. (w + n) - 1 : Cell(z, i) \in Sent /\ Cell(z, i) = s[(i - w) + 1]
  /\ \A i \in x .. p - 1 : Cell(z, i) = Cell(a, i)

\* The cells below w and from x on are the ones of before.
LEMMA EmptyFilled ==
  ASSUME NEW a, NEW o \in Nat, NEW p \in Nat, NEW sz \in Nat, Shape(a, o, p, sz),
         NEW w \in Nat, NEW n \in Nat, NEW x \in Nat, NEW from \in Nat, Apart(o, p, sz, w, n, x, from),
         NEW s, NEW z, Writes(z, a, from, s, n)
  PROVE  Intact(z, a, s, p, w, n, x)
<1>b. from = o + w /\ o + p <= sz /\ sz <= Cap /\ w + n <= x /\ x <= p
  BY DEF Apart
<1>1. Cap \in Nat
  BY CapIs
<1>2. from + n <= Cap + 1 /\ o + p <= Cap
  BY <1>1, <1>b
<1>a. Shape(z, o, p, sz) /\ Effect(z, a, from, s, n)
  BY WritesIs
<1>3. /\ \A i \in 0 .. Cap : i < from \/ from + n <= i => z.cells[i] = a.cells[i]
      /\ from + n <= Cap + 1 => \A i \in 1 .. n : z.cells[from + i - 1] = s[i]
  BY <1>a, Zenon DEF Effect
<1>4. /\ \A i \in 1 .. n : z.cells[from + i - 1] = s[i]
      /\ z.off = o /\ z.num = p /\ z.size = sz
  BY <1>2, <1>a, <1>3, Zenon DEF Shape
<1>5. Fits(z)
  BY <1>4, <1>b DEF Fits
<1>6. /\ \A i : Cell(z, i) = z.cells[o + i]
      /\ \A i : Cell(a, i) = a.cells[o + i]
  BY <1>4 DEF Cell, Shape
<1>7. ASSUME NEW i \in 0 .. w - 1 PROVE Cell(z, i) = Cell(a, i)
  <2>1. PICK j \in 0 .. Cap : j = o + i /\ j < from
    <3>1. o + i \in 0 .. Cap /\ o + i < from
      BY <1>1, <1>2, <1>b
    <3> QED BY <3>1
  <2> QED BY <1>3, <1>6, <2>1
<1>8. ASSUME NEW i \in w .. (w + n) - 1 PROVE Cell(z, i) \in Sent /\ Cell(z, i) = s[(i - w) + 1]
  <2>1. PICK k \in 1 .. n : k = (i - w) + 1 /\ from + k - 1 = o + i
    <3>1. (i - w) + 1 \in 1 .. n /\ from + ((i - w) + 1) - 1 = o + i
      BY <1>b
    <3> QED BY <3>1
  <2>2. z.cells[from + k - 1] = s[k]
    BY <1>4
  <2>3. s[k] \in Sent
    BY ElementOfSeq DEF Writes
  <2> QED BY <1>6, <2>1, <2>2, <2>3
<1>9. ASSUME NEW i \in x .. p - 1 PROVE Cell(z, i) = Cell(a, i)
  <2>1. PICK j \in 0 .. Cap : j = o + i /\ from + n <= j
    <3>1. o + i \in 0 .. Cap /\ from + n <= o + i
      BY <1>1, <1>2, <1>b
    <3> QED BY <3>1
  <2> QED BY <1>3, <1>6, <2>1
<1> QED BY <1>4, <1>5, <1>7, <1>8, <1>9 DEF Intact

----------------------------------------------------------------------------
(***************************************************************************)
(* A sample behind the current bucket.                                     *)
(***************************************************************************)
\* The arithmetic, forward: e is the end of the bucket, v the buckets written before it,
\* t the sample and b the beginning of its bucket; n empty buckets lie between.
LEMMA RoomForward ==
  ASSUME NEW d \in Nat \ {0}, NEW v \in Nat, NEW e \in Nat, NEW t \in Nat, NEW b \in Int, NEW n \in Nat,
         NEW left \in Nat, v < e, e <= t, b <= t, t < b + d, n = 0 \/ e + n <= b,
         MaxTime \in Nat, t <= MaxTime, left <= MaxTime - t
  PROVE  (v + 1) + n < b + d /\ (v + 1) + n + left <= 2 * MaxTime + 4
  OBVIOUS

\* In reverse: s is the beginning of the bucket.
LEMMA RoomReverse ==
  ASSUME NEW d \in Nat \ {0}, NEW v \in Nat, NEW e \in Nat, NEW s \in Nat, NEW t \in Nat, NEW b \in Int,
         NEW n \in Nat, NEW left \in Nat, e = s + d, t < s, b <= t, t < b + d,
         MaxTime \in Nat, v + e <= MaxTime + d, n = 0 \/ n + b + 3 * d <= e + 1, left <= t
  PROVE  (v + 1) + n + (b + d) <= MaxTime + d /\ (v + 1) + n + left <= 2 * MaxTime + 4
  OBVIOUS

\* The gap is made of buckets a reply can hold, and there is a cell for each of them.
LEMMA GapFits ==
  ASSUME IndInv, pc = "loop", ~displaced, NEW t \in Time, unread # <<>>, unread[1].ts = t, EndsBucket(t),
         NEW new, new = CalcBucketStart(q, t)
  PROVE  /\ EmptyBuckets(new) \in Seq(Time)
         /\ (written + 1) + Len(EmptyBuckets(new)) + (Len(unread) - 1) <= Cap
         /\ IF q.reverse
            THEN (written + 1) + Len(EmptyBuckets(new)) + (new + q.delta) <= MaxTime + q.delta
            ELSE (written + 1) + Len(EmptyBuckets(new)) < new + q.delta
<1>1. /\ Unread /\ Written /\ q \in Queries /\ scope # NoScope /\ scope \in 1 .. MaxTime + q.delta
      /\ bucket.start \in Time /\ (bucket.start > 0 => scope = bucket.start + q.delta)
  BY DEF IndInv, TypeInv, BucketInv, LoopInv
<1>2. PICK d \in Nat \ {0}, e \in Nat, v \in Nat, s \in Nat :
        d = q.delta /\ e = scope /\ v = written /\ s = bucket.start /\ (s > 0 => e = s + d)
  <2>1. q.delta \in Nat \ {0} /\ MaxTime \in Nat /\ Cap \in Nat
    BY <1>1, QueryOK, TimeAssumption, CapIs
  <2>2. scope \in Nat /\ written \in Nat /\ bucket.start \in Nat
    BY <1>1, <2>1 DEF IndInv, TypeInv, Time
  <2> QED BY <1>1, <2>1, <2>2
<1>3. MaxTime \in Nat /\ Cap = 2 * MaxTime + 4 /\ t \in Nat /\ t <= MaxTime
  BY CapIs DEF Time
<1>4. new \in Int /\ new <= t /\ t < new + d
  BY <1>1, <1>2, StartBounds
<1>5. PICK left \in Nat : left = Len(unread) - 1
  BY <1>1 DEF Unread
<1>6. CASE ~q.reverse
  <2>1. v < e /\ e <= t
    BY <1>1, <1>2, <1>3, <1>6 DEF Written, EndsBucket
  <2>2. /\ EmptyBuckets(new) \in Seq(Time)
        /\ Len(EmptyBuckets(new)) = 0 \/ scope + Len(EmptyBuckets(new)) <= new
    <3>1. new <= MaxTime
      BY <1>3, <1>4
    <3> QED BY <1>1, <1>4, <1>6, <3>1, GapForward
  <2>3. PICK n \in Nat : n = Len(EmptyBuckets(new)) /\ (n = 0 \/ e + n <= new)
    BY <1>2, <2>2
  <2>4. left <= MaxTime - t
    BY <1>1, <1>5, <1>6, UpLength DEF Unread, Ordered
  <2>5. (v + 1) + n < new + d /\ (v + 1) + n + left <= 2 * MaxTime + 4
    BY <1>3, <1>4, <2>1, <2>3, <2>4, RoomForward
  <2> QED BY <1>2, <1>3, <1>5, <1>6, <2>2, <2>3, <2>5
<1>7. CASE q.reverse
  <2>1. v + e <= MaxTime + d /\ t < s /\ e = s + d
    <3>1. v + e <= MaxTime + d
      BY <1>1, <1>2, <1>7 DEF Written
    <3>2. t < s
      BY <1>2, <1>7 DEF EndsBucket
    <3>3. s > 0
      BY <1>3, <3>2
    <3> QED BY <1>2, <3>1, <3>2, <3>3
  <2>2. /\ EmptyBuckets(new) \in Seq(Time)
        /\ \/ Len(EmptyBuckets(new)) = 0
           \/ Len(EmptyBuckets(new)) + new + 3 * q.delta <= scope + 1
    <3>1. 0 < new + q.delta
      BY <1>2, <1>3, <1>4
    <3> QED BY <1>1, <1>4, <1>7, <3>1, GapReverse
  <2>3. PICK n \in Nat : n = Len(EmptyBuckets(new)) /\ (n = 0 \/ n + new + 3 * d <= e + 1)
    BY <1>2, <2>2
  <2>4. left <= t
    BY <1>1, <1>5, <1>7, DownLength DEF Unread, Ordered
  <2>5. (v + 1) + n + (new + d) <= MaxTime + d /\ (v + 1) + n + left <= 2 * MaxTime + 4
    BY <1>3, <1>4, <2>1, <2>3, <2>4, RoomReverse
  <2> QED BY <1>2, <1>3, <1>5, <1>7, <2>2, <2>3, <2>5
<1> QED BY <1>6, <1>7

\* The bucket is written over a sample that has been read.
LEMMA Closed ==
  ASSUME NEW b \in Buffer, Fits(b), NEW v \in Nat, NEW r \in Nat, v <= r, r < b.num,
         \A i \in 0 .. v - 1 : Cell(b, i) \in Sent,
         \A i \in r .. b.num - 1 : Cell(b, i) \in Sent,
         NEW x \in Sent, NEW z, z = [b EXCEPT !.cells[b.off + v] = x]
  PROVE  /\ Split(z, v + 1, r + 1) /\ z.num = b.num
         /\ \A i \in r + 1 .. b.num - 1 : Cell(z, i) = Cell(b, i)
         /\ Cell(z, v) = x /\ \A i \in 0 .. v - 1 : Cell(z, i) = Cell(b, i)
<1>1. PICK o \in Nat, p \in Nat : o = b.off /\ p = b.num /\ o + p <= Cap /\ r < p /\ Cap \in Nat
  <2>1. PICK o \in Nat, p \in Nat, sz \in Nat : o = b.off /\ p = b.num /\ sz = b.size /\ sz <= Cap /\ Cap \in Nat
    BY CapIs DEF Buffer
  <2>2. o + p <= sz /\ r < p
    BY <2>1 DEF Fits
  <2> QED BY <2>1, <2>2
<1>2. PICK j \in 0 .. Cap : j = o + v
  <2>1. o + v \in 0 .. Cap
    BY <1>1
  <2> QED BY <2>1
<1>3. PICK c : c = [b.cells EXCEPT ![j] = x]
  OBVIOUS
<1>4. b.cells \in [0 .. Cap -> Sent \cup {Garbage}]
  BY DEF Buffer
<1>5. /\ c \in [0 .. Cap -> Sent \cup {Garbage}] /\ c[j] = x
      /\ \A i \in 0 .. Cap : i # j => c[i] = b.cells[i]
  BY <1>2, <1>3, <1>4
<1>6. z = [b EXCEPT !.cells = c]
  BY <1>1, <1>2, <1>3
<1>7. z \in Buffer /\ z.cells = c /\ z.off = o /\ z.num = p /\ z.size = b.size
  BY <1>1, <1>5, <1>6 DEF Buffer
<1>8. Fits(z)
  BY <1>1, <1>7 DEF Fits
<1>9. ASSUME NEW i \in 0 .. p - 1 PROVE Cell(z, i) = IF i = v THEN x ELSE Cell(b, i)
  <2>1. PICK k \in 0 .. Cap : k = o + i /\ (k = j <=> i = v)
    <3>1. o + i \in 0 .. Cap /\ (o + i = j <=> i = v)
      BY <1>1, <1>2
    <3> QED BY <3>1
  <2>2. Cell(z, i) = c[k] /\ Cell(b, i) = b.cells[k]
    BY <1>1, <1>7, <2>1 DEF Cell
  <2> QED BY <1>5, <2>1, <2>2
<1>10. ASSUME NEW i \in 0 .. (v + 1) - 1 PROVE Cell(z, i) \in Sent
  <2>1. i \in 0 .. p - 1 /\ (i # v => i \in 0 .. v - 1)
    BY <1>1
  <2> QED BY <1>9, <2>1
<1>11. ASSUME NEW i \in r + 1 .. p - 1 PROVE Cell(z, i) = Cell(b, i) /\ Cell(z, i) \in Sent
  <2>1. i \in 0 .. p - 1 /\ i # v /\ i \in r .. p - 1
    BY <1>1
  <2> QED BY <1>1, <1>9, <2>1
<1>12. v + 1 \in Nat /\ r + 1 \in Nat /\ v + 1 <= r + 1 /\ r + 1 <= p
  BY <1>1
<1>13. Cell(z, v) = x
  <2>1. v \in 0 .. p - 1
    BY <1>1
  <2> QED BY <1>9, <2>1
<1>14. ASSUME NEW i \in 0 .. v - 1 PROVE Cell(z, i) = Cell(b, i)
  <2>1. i \in 0 .. p - 1 /\ i # v
    BY <1>1
  <2> QED BY <1>9, <2>1
<1> QED BY <1>1, <1>7, <1>8, <1>10, <1>11, <1>12, <1>13, <1>14 DEF Split

\* The values of empty buckets can be sent.
LEMMA EmptyValuesSent ==
  ASSUME q \in Queries, NEW gap \in Seq(Time)
  PROVE  EmptyValues(gap) \in Seq(Sent) /\ Len(EmptyValues(gap)) = Len(gap)
<1>1. PICK n \in Nat : n = Len(gap) /\ DOMAIN gap = 1 .. n
  OBVIOUS
<1>2. ASSUME NEW i \in 1 .. n PROVE Bucket(q, gap[i], <<>>) \in Sent
  <2>1. gap[i] \in Time /\ <<>> \in Seq(Time)
    BY <1>1, ElementOfSeq
  <2> QED BY <2>1, BucketSent
<1>3. PICK g : g = EmptyValues(gap)
  OBVIOUS
<1>4. g = [i \in 1 .. n |-> Bucket(q, gap[i], <<>>)]
  BY <1>1, <1>3 DEF EmptyValues
<1>5. g \in [1 .. n -> Sent]
  BY <1>2, <1>4
<1> QED BY <1>1, <1>3, <1>5, FunctionIsSeq

\* What CloseBucket does, with names for its intermediate results.
Closing(t, new, gap, n, w, closed, moves, room, x) ==
  /\ pc = "loop" /\ ~displaced /\ si < buf.num
  /\ Cell(buf, si) = Sample(t) /\ EndsBucket(t)
  /\ new = CalcBucketStart(q, t) /\ gap = EmptyBuckets(new) /\ n = Len(gap) /\ w = written + 1
  /\ closed = [buf EXCEPT !.cells[buf.off + written] = Bucket(q, bucket.start, ctx)]
  /\ moves = (n > 0 /\ NeedsRoom(w, n, si + 1))
  /\ room = (IF moves THEN MakeRoom(closed, w, si + 1, n) ELSE closed)
  /\ x = (IF moves THEN w + n ELSE si + 1)
  /\ buf' = Filled(room, room.off + w, EmptyValues(gap))
  /\ written' = w + n /\ si' = x
  /\ displaced' = (moves /\ room.off > 0)
  /\ ctx' = <<t>> /\ scope' = new + q.delta
  /\ bucket' = [bucket EXCEPT !.start = BucketStartNormalize(new)]
  /\ unread' = Tail(unread)
  /\ UNCHANGED <<q, pc, iterators, open, reply>>

\* The first unread sample is the one at si.
LEMMA FirstUnread ==
  ASSUME IndInv, pc = "loop", ~displaced, si < buf.num
  PROVE  /\ unread \in Seq(Sent) /\ unread # <<>> /\ Ordered(unread)
         /\ Cell(buf, si) = unread[1]
         /\ \E t \in Time : Cell(buf, si) = Sample(t) /\ unread[1].ts = t
<1>1. Unread /\ si \in Nat /\ buf.num \in Nat
  BY CapIs DEF IndInv, LoopInv, TypeInv, Buffer
<1>2. Len(unread) = buf.num - si /\ unread \in Seq(Sent) /\ Ordered(unread)
  BY <1>1 DEF Unread
<1>3. 1 \in 1 .. Len(unread) /\ si + 1 - 1 = si
  BY <1>1, <1>2
<1>4. Cell(buf, si) = unread[1]
  BY <1>1, <1>3 DEF Unread
<1>5. PICK t \in Time : unread[1] = Sample(t) /\ unread[1].ts = t
  BY <1>2, <1>3 DEF Ordered, Up, Down, Samples
<1>6. unread # <<>>
  BY <1>3
<1> QED BY <1>2, <1>4, <1>5, <1>6

\* Every step of CloseBucket has such results.
LEMMA CloseBucketIs ==
  ASSUME IndInv, CloseBucket
  PROVE  \E t \in Time : \E new, gap, n, w, closed, moves, room, x :
           Closing(t, new, gap, n, w, closed, moves, room, x)
<1>1. pc = "loop" /\ ~displaced /\ si < buf.num
  BY DEF CloseBucket
<1>2. PICK t \in Time : Cell(buf, si) = Sample(t)
  BY <1>1, FirstUnread
<1>3. Sample(t).ts = t /\ Sample(t).val = <<t>>
  BY SampleSent
<1>4. PICK new, gap, n, w : new = CalcBucketStart(q, t) /\ gap = EmptyBuckets(new) /\ n = Len(gap) /\ w = written + 1
  OBVIOUS
<1>5. PICK closed, moves : /\ closed = [buf EXCEPT !.cells[buf.off + written] = Bucket(q, bucket.start, ctx)]
                           /\ moves = (n > 0 /\ NeedsRoom(w, n, si + 1))
  OBVIOUS
<1>6. PICK room, x : /\ room = (IF moves THEN MakeRoom(closed, w, si + 1, n) ELSE closed)
                     /\ x = (IF moves THEN w + n ELSE si + 1)
  OBVIOUS
<1>7. EndsBucket(Cell(buf, si).ts)
  BY DEF CloseBucket
<1>8. /\ buf' = [room EXCEPT !.cells = SetCells(room, room.off + w, EmptyValues(gap))]
      /\ written' = w + n /\ si' = x
      /\ displaced' = (moves /\ room.off > 0)
      /\ ctx' = Cell(buf, si).val /\ scope' = new + q.delta
      /\ bucket' = [bucket EXCEPT !.start = BucketStartNormalize(new)]
  BY <1>2, <1>3, <1>4, <1>5, <1>6 DEF CloseBucket
<1>9. unread' = Tail(unread) /\ UNCHANGED <<q, pc, iterators, open, reply>>
  BY DEF CloseBucket
<1>10. Closing(t, new, gap, n, w, closed, moves, room, x)
  BY <1>1, <1>2, <1>3, <1>4, <1>5, <1>6, <1>7, <1>8, <1>9 DEF Closing, Filled
<1> QED BY <1>10

\* What has changed after it: the cells behind the buckets written before have the bucket
\* that ends with the sample t and the empty ones of the gap.
Ended(t, new, gap) ==
  /\ pc = "loop" /\ ~displaced /\ unread # <<>> /\ unread[1].ts = t /\ EndsBucket(t)
  /\ new = CalcBucketStart(q, t) /\ gap = EmptyBuckets(new)
  /\ written' = (written + 1) + Len(gap) /\ ctx' = <<t>> /\ scope' = new + q.delta
  /\ bucket'.start = BucketStartNormalize(new) /\ bucket'.initialized = bucket.initialized
  /\ unread' = SubSeq(unread, 2, Len(unread)) /\ UNCHANGED <<q, pc, iterators, open, reply>>
  /\ \A i \in 0 .. written - 1 : Cell(buf', i) = Cell(buf, i)
  /\ Cell(buf', written) = Bucket(q, bucket.start, ctx)
  /\ \A i \in 1 .. Len(gap) : Cell(buf', written + i) = Bucket(q, gap[i], <<>>)

\* The bucket and the empty ones after it are written, and the sample begins the next one.
LEMMA CloseBucketInv ==
  ASSUME IndInv, CloseBucket
  PROVE  /\ IndInv'
         /\ ~displaced' => \E t \in Time : \E new \in Int : \E gap \in Seq(Time) : Ended(t, new, gap)
<1>a. PICK t \in Time : \E new, gap, n, w, closed, moves, room, x :
        Closing(t, new, gap, n, w, closed, moves, room, x)
  BY CloseBucketIs
<1>1. PICK new, gap, n, w, closed, moves, room, x :
        Closing(t, new, gap, n, w, closed, moves, room, x)
  BY <1>a
<1>2. /\ pc = "loop" /\ ~displaced /\ si < buf.num
      /\ Cell(buf, si) = Sample(t) /\ EndsBucket(t)
      /\ new = CalcBucketStart(q, t) /\ gap = EmptyBuckets(new) /\ n = Len(gap)
      /\ w = written + 1
  BY <1>1 DEF Closing
<1>3. /\ displaced' = (moves /\ room.off > 0)
      /\ written' = w + n /\ si' = x /\ ctx' = <<t>> /\ scope' = new + q.delta
      /\ bucket' = [bucket EXCEPT !.start = BucketStartNormalize(new)]
      /\ unread' = Tail(unread) /\ UNCHANGED <<q, pc, iterators, open, reply>>
  BY <1>1 DEF Closing
<1>4. buf' = Filled(room, room.off + w, EmptyValues(gap))
  BY <1>1 DEF Closing
<1>5. /\ unread \in Seq(Sent) /\ unread # <<>> /\ Ordered(unread) /\ unread[1].ts = t
      /\ Unread /\ Written /\ Fits(buf)
  <2>1. Unread /\ Written /\ Fits(buf)
    BY <1>2 DEF IndInv, LoopInv
  <2>2. /\ unread \in Seq(Sent) /\ unread # <<>> /\ Ordered(unread) /\ Cell(buf, si) = unread[1]
    BY <1>2, FirstUnread
  <2> QED BY <1>2, <2>1, <2>2, SampleSent
<1>6. /\ q \in Queries /\ q.delta \in 1 .. MaxTime + 1 /\ MaxTime \in Nat /\ Cap \in Nat
      /\ buf \in Buffer /\ bucket \in [start : Time, initialized : BOOLEAN] /\ ctx \in Seq(Time)
      /\ written \in Nat /\ si \in Nat /\ buf.num \in Nat
  BY QueryOK, CapIs DEF IndInv, TypeInv, Buffer
<1>r. PICK v \in Nat, r \in Nat, num \in Nat, len \in Nat :
        v = written /\ r = si /\ num = buf.num /\ len = Len(unread)
  <2>1. Len(unread) \in Nat
    BY <1>5
  <2> QED BY <1>6, <2>1
<1>s. r < num /\ len = num - r
  BY <1>2, <1>5, <1>r DEF Unread
<1>7. PICK left \in Nat : left = len - 1 /\ left = num - (r + 1) /\ len = left + 1
  <2>1. len - 1 \in Nat /\ len - 1 = num - (r + 1) /\ len = (len - 1) + 1
    BY <1>s
  <2> QED BY <2>1
<1>8. /\ gap \in Seq(Time) /\ n \in Nat /\ w \in Nat
      /\ w + n + left <= Cap
      /\ IF q.reverse THEN w + n + (new + q.delta) <= MaxTime + q.delta ELSE w + n < new + q.delta
  <2>1. /\ gap \in Seq(Time)
        /\ (written + 1) + Len(gap) + (Len(unread) - 1) <= Cap
        /\ IF q.reverse
           THEN (written + 1) + Len(gap) + (new + q.delta) <= MaxTime + q.delta
           ELSE (written + 1) + Len(gap) < new + q.delta
    BY <1>2, <1>5, GapFits
  <2>2. n \in Nat /\ w \in Nat
    BY <1>2, <1>6, <2>1
  <2> QED BY <1>2, <1>r, <1>7, <2>1, <2>2
\* The bucket itself.
<1>9. /\ Split(closed, v + 1, r + 1) /\ closed.num = num
      /\ \A i \in r + 1 .. num - 1 : Cell(closed, i) = Cell(buf, i)
      /\ Cell(closed, v) = Bucket(q, bucket.start, ctx) /\ \A i \in 0 .. v - 1 : Cell(closed, i) = Cell(buf, i)
  <2>1. PICK bk \in Sent : bk = Bucket(q, bucket.start, ctx)
    BY <1>6, BucketSent
  <2>2. v <= r /\ \A i \in 0 .. v - 1 : Cell(buf, i) \in Sent
    BY <1>5, <1>r DEF Written
  <2>3. ASSUME NEW i \in r .. num - 1 PROVE Cell(buf, i) \in Sent
    <3>1. PICK k \in 1 .. len : r + k - 1 = i
      <4>1. (i - r) + 1 \in 1 .. len /\ r + ((i - r) + 1) - 1 = i
        BY <1>s
      <4> QED BY <4>1
    <3>2. unread[k] = Cell(buf, r + k - 1)
      BY <1>5, <1>r DEF Unread
    <3> QED BY <1>5, <1>r, <3>1, <3>2, ElementOfSeq
  <2>4. closed = [buf EXCEPT !.cells[buf.off + v] = bk]
    BY <1>1, <1>r, <2>1 DEF Closing
  <2>5. buf \in Buffer /\ Fits(buf) /\ r < buf.num /\ \A i \in r .. buf.num - 1 : Cell(buf, i) \in Sent
    BY <1>s, <1>r, <1>5, <1>6, <2>3
  <2>6. /\ Split(closed, v + 1, r + 1) /\ closed.num = buf.num
        /\ \A i \in r + 1 .. buf.num - 1 : Cell(closed, i) = Cell(buf, i)
        /\ Cell(closed, v) = bk /\ \A i \in 0 .. v - 1 : Cell(closed, i) = Cell(buf, i)
    BY <2>2, <2>4, <2>5, Closed
  <2> QED BY <1>r, <2>1, <2>6
\* The room for the empty ones.
<1>10. /\ moves \in BOOLEAN /\ room \in Buffer /\ x \in 0 .. Cap
       /\ ~(moves /\ room.off > 0) =>
            /\ Fits(room) /\ w + n <= x /\ room.num = x + left
            /\ \A i \in 0 .. w - 1 : Cell(room, i) \in Sent /\ Cell(room, i) = Cell(closed, i)
            /\ \A i \in 0 .. left - 1 : Cell(room, x + i) = Cell(closed, (r + 1) + i)
  <2>1. PICK s \in Nat : s = r + 1 /\ left = num - s
    BY <1>7
  <2>2. moves \in BOOLEAN
    BY <1>1 DEF Closing
  <2>3. Expands(closed, w, s, n, moves, room, x)
    BY <1>1, <1>r, <2>1 DEF Closing, Expands
  <2>4. Split(closed, w, s)
    BY <1>2, <1>r, <1>9, <2>1
  <2>5. Space(closed, w, s, n, left) /\ n \in Nat
    BY <1>8, <1>9, <2>1 DEF Space
  <2>6. /\ room \in Buffer /\ x \in 0 .. Cap
        /\ ~(moves /\ room.off > 0) => Kept(closed, w, s, n, left, room, x)
    BY <2>2, <2>3, <2>4, <2>5, RoomKept
  <2> QED BY <2>1, <2>2, <2>6 DEF Kept
<1>11. EmptyValues(gap) \in Seq(Sent) /\ Len(EmptyValues(gap)) = n
  BY <1>2, <1>6, <1>8, EmptyValuesSent
<1>12. buf' \in Buffer
  <2>1. PICK o \in Nat : o = room.off
    BY <1>6, <1>10 DEF Buffer
  <2>2. PICK from \in Nat : from = o + w
    BY <1>8
  <2>3. buf' = Filled(room, from, EmptyValues(gap))
    BY <1>4, <2>1, <2>2
  <2> QED BY <1>10, <1>11, <2>3, FillIs
\* The next bucket.
<1>13. /\ new \in Int /\ new <= t /\ t < new + q.delta /\ t \in Nat /\ t <= MaxTime
  <2>1. new \in Int /\ new <= t /\ t < new + q.delta
    BY <1>2, <1>6, StartBounds
  <2>2. t \in Nat /\ t <= MaxTime
    BY <1>6 DEF Time
  <2> QED BY <2>1, <2>2
<1>14. /\ scope' \in 1 .. MaxTime + q.delta
       /\ bucket'.start \in Time /\ bucket'.initialized = bucket.initialized
       /\ bucket' \in [start : Time, initialized : BOOLEAN]
       /\ bucket'.start > 0 => scope' = bucket'.start + q.delta
  <2>1. /\ BucketStartNormalize(new) \in Time
        /\ BucketStartNormalize(new) > 0 => new = BucketStartNormalize(new)
    BY <1>6, <1>13 DEF BucketStartNormalize, Max0, Time
  <2>2. new + q.delta \in 1 .. MaxTime + q.delta
    BY <1>6, <1>13
  <2>3. bucket'.start = BucketStartNormalize(new) /\ bucket'.initialized = bucket.initialized
        /\ bucket' \in [start : Time, initialized : BOOLEAN]
    BY <1>3, <1>6, <2>1
  <2> QED BY <1>3, <2>1, <2>2, <2>3
<1>15. scope' # NoScope
  BY <1>6, <1>14, NoScopeAssumption
<1>16. TypeInv'
  <2>1. w + n \in 0 .. Cap
    BY <1>6, <1>7, <1>8
  <2>2. ctx' \in Seq(Time)
    BY <1>3
  <2>3. displaced' \in BOOLEAN
    BY <1>3, <1>10
  <2> QED BY <1>3, <1>10, <1>12, <1>14, <2>1, <2>2, <2>3 DEF IndInv, TypeInv, iterators
<1>17. BucketInv'
  <2>1. bucket.initialized
    BY <1>2 DEF IndInv, BucketInv
  <2> QED BY <1>2, <1>3, <1>14, <1>15, <2>1 DEF BucketInv
<1>18. ChunkInv'
  BY <1>2, <1>3 DEF ChunkInv
\* The samples behind it.
<1>19. ASSUME ~displaced' PROVE /\ Unread' /\ Written' /\ Fits(buf)'
                                 /\ \E z \in Time : \E y \in Int : \E g \in Seq(Time) : Ended(z, y, g)
  <2>1. /\ Fits(room) /\ w + n <= x /\ room.num = x + left
        /\ \A i \in 0 .. w - 1 : Cell(room, i) \in Sent /\ Cell(room, i) = Cell(closed, i)
        /\ \A i \in 0 .. left - 1 : Cell(room, x + i) = Cell(closed, (r + 1) + i)
    BY <1>3, <1>10, <1>19
  <2>2. x \in Nat
    BY <1>6, <1>10
  <2>3. PICK o \in Nat, p \in Nat, sz \in Nat :
          Shape(room, o, p, sz) /\ o + p <= sz /\ sz <= Cap /\ p = x + left /\ o = room.off
    <3>1. room.off \in Nat /\ room.num \in Nat /\ room.size \in Nat /\ room.size <= Cap
      BY <1>6, <1>10 DEF Buffer
    <3>2. room.off + room.num <= room.size
      BY <2>1 DEF Fits
    <3> QED BY <1>10, <2>1, <3>1, <3>2 DEF Shape
  <2>4. PICK from \in Nat : from = o + w
    BY <1>8
  <2>5. Writes(buf', room, from, EmptyValues(gap), n)
    BY <1>4, <1>11, <2>3, <2>4 DEF Writes
  <2>6. /\ Fits(buf') /\ buf'.num = p
        /\ \A i \in 0 .. w - 1 : Cell(buf', i) = Cell(room, i)
        /\ \A i \in w .. (w + n) - 1 : Cell(buf', i) \in Sent /\ Cell(buf', i) = EmptyValues(gap)[(i - w) + 1]
        /\ \A i \in x .. p - 1 : Cell(buf', i) = Cell(room, i)
    <3>1. x <= p
      BY <2>2, <2>3
    <3>2. Apart(o, p, sz, w, n, x, from)
      BY <2>1, <2>3, <2>4, <3>1 DEF Apart
    <3>3. PICK z : z = buf'
      OBVIOUS
    <3>4. Intact(z, room, EmptyValues(gap), p, w, n, x)
      BY <1>8, <2>2, <2>3, <2>5, <3>2, <3>3, EmptyFilled
    <3> QED BY <3>3, <3>4 DEF Intact
  <2>7. Written'
    <3>1. ASSUME NEW i \in 0 .. (w + n) - 1 PROVE Cell(buf', i) \in Sent
      <4>1. i \in 0 .. w - 1 \/ i \in w .. (w + n) - 1
        BY <1>8
      <4> QED BY <2>1, <2>6, <4>1
    <3>2. \A i \in 0 .. written' - 1 : Cell(buf', i) \in Sent
      BY <1>3, <3>1
    <3>3. written' <= si'
      BY <1>3, <2>1
    <3>4. IF q'.reverse THEN written' + scope' <= MaxTime + q'.delta ELSE written' < scope'
      BY <1>3, <1>8
    <3> QED BY <3>2, <3>3, <3>4 DEF Written, Cell
  <2>8. PICK u : u = SubSeq(unread, 2, Len(unread))
    OBVIOUS
  <2>9. /\ u \in Seq(Sent) /\ Ordered(u) /\ Len(u) = left
        /\ \A i \in 1 .. left : u[i] = unread[i + 1]
    <3>1. 2 \in Nat \ {0} /\ (2 <= len => len - 2 + 1 = left) /\ (~(2 <= len) => 0 = left)
      BY <1>7
    <3>2. /\ u \in Seq(Sent) /\ Ordered(u)
          /\ Len(u) = (IF 2 <= Len(unread) THEN Len(unread) - 2 + 1 ELSE 0)
          /\ \A i \in 1 .. Len(u) : 2 + i - 1 \in 1 .. Len(unread) /\ u[i] = unread[2 + i - 1]
      BY <1>5, <2>8, <3>1, OrderedRest
    <3>3. Len(u) = left
      BY <1>r, <3>1, <3>2
    <3>4. \A i \in 1 .. left : 2 + i - 1 = i + 1
      OBVIOUS
    <3> QED BY <3>2, <3>3, <3>4
  <2>10. unread' = u
    BY <1>3, <1>5, <2>8, TailIsSubSeq
  <2>11. ASSUME NEW i \in 1 .. left PROVE u[i] = Cell(buf', x + i - 1)
    <3>1. PICK j \in 0 .. left - 1 : j = i - 1
      BY <1>7
    <3>2. PICK k \in x .. p - 1 : k = x + j /\ k = x + i - 1
      <4>1. x + j \in x .. p - 1 /\ x + j = x + i - 1
        BY <2>2, <2>3, <3>1
      <4> QED BY <4>1
    <3>3. Cell(buf', k) = Cell(room, x + j)
      BY <2>6, <3>2
    <3>4. Cell(room, x + j) = Cell(closed, (r + 1) + j)
      BY <2>1
    <3>5. (r + 1) + j \in r + 1 .. num - 1 /\ (r + 1) + j = r + (i + 1) - 1 /\ i + 1 \in 1 .. len
      BY <1>s, <1>7, <3>1
    <3>6. Cell(closed, (r + 1) + j) = Cell(buf, (r + 1) + j)
      BY <1>9, <3>5
    <3>7. unread[i + 1] = Cell(buf, (r + 1) + j)
      BY <1>5, <1>r, <3>5 DEF Unread
    <3>8. u[i] = unread[i + 1]
      BY <2>9
    <3> QED BY <3>2, <3>3, <3>4, <3>6, <3>7, <3>8
  <2>12. Unread'
    <3>1. unread' \in Seq(Sent) /\ Ordered(unread)' /\ Len(unread') = left
      BY <1>3, <2>9, <2>10 DEF Ordered
    <3>2. si' <= buf'.num /\ left = buf'.num - si'
      BY <1>3, <2>2, <2>3, <2>6
    <3>3. \A i \in 1 .. Len(unread') : unread'[i] = Cell(buf', si' + i - 1)
      BY <1>3, <2>10, <2>11, <3>1
    <3> QED BY <3>1, <3>2, <3>3 DEF Unread, Cell
  <2>13. ASSUME NEW i \in 0 .. v - 1 PROVE Cell(buf', i) = Cell(buf, i)
    <3>1. i \in 0 .. w - 1
      BY <1>2, <1>r
    <3> QED BY <1>9, <2>1, <2>6, <3>1
  <2>14. Cell(buf', v) = Bucket(q, bucket.start, ctx)
    <3>1. v \in 0 .. w - 1
      BY <1>2, <1>r
    <3> QED BY <1>9, <2>1, <2>6, <3>1
  <2>15. ASSUME NEW i \in 1 .. n PROVE Cell(buf', v + i) = Bucket(q, gap[i], <<>>)
    <3>1. PICK j \in w .. (w + n) - 1 : j = v + i /\ (j - w) + 1 = i
      <4>1. v + i \in w .. (w + n) - 1 /\ ((v + i) - w) + 1 = i
        BY <1>2, <1>r, <1>8
      <4> QED BY <4>1
    <3>2. Cell(buf', j) = EmptyValues(gap)[(j - w) + 1]
      BY <2>6
    <3>3. i \in DOMAIN gap
      BY <1>2, <1>8
    <3>4. EmptyValues(gap)[i] = Bucket(q, gap[i], <<>>)
      BY <3>3 DEF EmptyValues
    <3> QED BY <3>1, <3>2, <3>4
  <2>16. bucket'.start = BucketStartNormalize(new)
    <3>1. bucket \in [start : Time, initialized : BOOLEAN]
      BY <1>6
    <3> QED BY <1>3, <3>1
  <2>17. written' = (written + 1) + Len(gap)
    BY <1>2, <1>3
  <2>18. Ended(t, new, gap)
    BY <1>2, <1>3, <1>5, <1>r, <1>14, <2>8, <2>10, <2>13, <2>14, <2>15, <2>16, <2>17 DEF Ended
  <2> QED BY <1>8, <1>13, <2>6, <2>7, <2>12, <2>18 DEF Fits
<1> QED BY <1>16, <1>17, <1>18, <1>19 DEF IndInv, LoopInv

----------------------------------------------------------------------------
(***************************************************************************)
(* The theorems.                                                           *)
(***************************************************************************)
\* Every step keeps the invariant.
LEMMA NextInv ==
  ASSUME IndInv, [Next]_vars
  PROVE  IndInv'
<1>1. CASE Next
  BY <1>1, ReadChunkInv, ReadLatestInv, EndOfInputInv, ReplyChunkInv, BeginChunkInv,
     AssertDirectionInv, AppendValueInv, CloseBucketInv, ReturnChunkInv, FinalizeInv, EndOfReplyInv DEF Next
<1>2. CASE UNCHANGED vars
  BY <1>2 DEF vars, IndInv, TypeInv, BucketInv, ChunkInv, LoopInv, Unread, Written, Ordered, Cell
<1> QED BY <1>1, <1>2

\* Every execution of a range query keeps the inductive invariant, whatever the series,
\* its division into chunks and the options of the command.
THEOREM Invariance == Spec => []IndInv
<1>1. Init => IndInv
  BY InitInv
<1>2. IndInv /\ [Next]_vars => IndInv'
  BY NextInv
<1> QED BY <1>1, <1>2, PTL DEF Spec

\* The indices into the buffer stay inside the array, the end of the current bucket and the
\* timestamps sent inside their bounds: 2 * (MaxTime + 2) cells are enough for any query.
THEOREM TypeCorrect == Spec => []TypeOK
<1>1. IndInv => TypeOK
  <2> SUFFICES ASSUME IndInv PROVE TypeOK
    OBVIOUS
  <2>1. q \in Query /\ q.delta \in 1 .. MaxTime + 1 /\ MaxTime \in Nat
    BY QueryOK, TimeAssumption DEF IndInv, TypeInv
  <2>2. pc \in {"fetch", "chunk", "loop", "end", "done", "undefined", "failed"} /\ Len(chunks) <= MaxTime + 1
    BY DEF IndInv, TypeInv, Places
  <2>3. {latest, open, displaced, bucket.initialized} \subseteq BOOLEAN /\ bucket.start \in Time
    BY DEF IndInv, TypeInv
  <2>4. {buf.size, buf.off, buf.num, si, written} \subseteq 0 .. Cap
    BY DEF IndInv, TypeInv, Buffer
  <2>5. scope \in 0 .. 2 * MaxTime + 2 \/ scope = NoScope
    <3>1. scope # NoScope => scope \in 1 .. MaxTime + q.delta
      BY DEF IndInv, BucketInv
    <3> QED BY <2>1, <3>1
  <2>6. ASSUME NEW s \in Seq(Time) PROVE Range(s) \subseteq Time
    BY DEF Range
  <2>7. Range(wanted) \subseteq Time /\ Range(ctx) \subseteq Time
    BY <2>6 DEF IndInv, TypeInv
  <2>8. ASSUME NEW i \in DOMAIN reply
        PROVE  reply[i].ts \in 0 .. 2 * MaxTime + 1 /\ Range(reply[i].val) \subseteq Time
    <3>1. reply[i] \in Sent
      BY DEF IndInv, TypeInv
    <3>2. reply[i].ts \in 0 .. 2 * MaxTime + 1 /\ reply[i].val \in Seq(Time)
      BY <3>1 DEF Sent
    <3> QED BY <2>6, <3>2
  <2> QED BY <2>1, <2>2, <2>3, <2>4, <2>5, <2>7, <2>8 DEF TypeOK
<1> QED BY <1>1, Invariance, PTL

\* Aggregation in place is safe: as long as the buffer was not displaced, the buckets
\* written into it (EMPTY ones and the expansion of the buffer for them included) have
\* not touched a sample that is still to be read, and all of it is inside the array.
THEOREM UnreadTheorem == Spec => []UnreadIntact
<1>1. IndInv => UnreadIntact
  <2> SUFFICES ASSUME IndInv, pc = "loop", ~displaced
               PROVE  /\ SubSeq(View(buf), si + 1, buf.num) = unread
                      /\ written <= si
                      /\ buf.off + buf.num <= buf.size
    BY DEF UnreadIntact
  <2>1. Unread /\ Written /\ Fits(buf) /\ buf \in Buffer
    BY DEF IndInv, LoopInv, TypeInv
  <2>2. PICK r \in Nat, n \in Nat, o \in Nat : r = si /\ n = buf.num /\ o = buf.off
    <3>1. si \in Nat /\ buf.num \in Nat /\ buf.off \in Nat
      BY CapIs DEF IndInv, TypeInv, Buffer
    <3> QED BY <3>1
  <2>3. /\ unread \in Seq(Sent) /\ r <= n /\ Len(unread) = n - r
        /\ \A i \in 1 .. Len(unread) : unread[i] = Cell(buf, r + i - 1)
    BY <2>1, <2>2 DEF Unread
  <2>4. PICK left \in Nat : left = n - r
    <3>1. n - r \in Nat
      BY <2>3
    <3> QED BY <3>1
  <2>5. PICK u : u = SubSeq(View(buf), r + 1, n)
    OBVIOUS
  <2>6. u = [i \in 1 .. left |-> View(buf)[r + i]]
    <3>1. \A i \in 1 .. left : (r + 1) + i - 1 = r + i
      OBVIOUS
    <3>2. 1 .. 1 + n - (r + 1) = 1 .. left
      BY <2>4
    <3> QED BY <2>5, <3>1, <3>2 DEF SubSeq
  <2>7. ASSUME NEW i \in 1 .. left PROVE View(buf)[r + i] = unread[i]
    <3>1. r + i \in 1 .. n /\ (r + i) - 1 = r + i - 1 /\ i \in 1 .. Len(unread)
      BY <2>3, <2>4
    <3>2. View(buf)[r + i] = Cell(buf, (r + i) - 1)
      BY <2>2, <3>1 DEF View
    <3> QED BY <2>3, <3>1, <3>2
  <2>8. unread = [i \in 1 .. left |-> unread[i]]
    BY <2>3, <2>4
  <2>9. u = unread
    BY <2>6, <2>7, <2>8
  <2> QED BY <2>1, <2>2, <2>5, <2>9 DEF Written, Fits
<1> QED BY <1>1, Invariance, PTL
=============================================================================
