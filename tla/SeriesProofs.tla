---------------------------- MODULE SeriesProofs ----------------------------
(***************************************************************************)
(* Proofs about the chunk dictionary of a series, for every number of      *)
(* timestamps, values, chunk sizes, retention times and policies.          *)
(***************************************************************************)
EXTENDS Series, FiniteSetTheorems, WellFoundedInduction, TLAPS

----------------------------------------------------------------------------
(***************************************************************************)
(* Sets of timestamps have a smallest and a largest element.               *)
(***************************************************************************)

\* A non-empty set of natural numbers has a smallest element.
LEMMA SmallestExists ==
  ASSUME NEW T \in SUBSET Nat, T # {}
  PROVE  \E t \in T : \A u \in T : t <= u
<1>1. PICK t \in T : \A u \in T : ~(<<u, t>> \in OpToRel(<, Nat))
  BY NatLessThanWellFounded, WFMin
<1>2. ASSUME NEW u \in T PROVE t <= u
  <2>1. u \in Nat /\ t \in Nat
    OBVIOUS
  <2>2. u < t => <<u, t>> \in OpToRel(<, Nat)
    BY <2>1 DEF OpToRel
  <2>3. ~(u < t)
    BY <1>1, <2>2, Zenon
  <2> QED BY <2>1, <2>3
<1> QED BY <1>2

\* The choice behind GetFirstTimestamp and "^" is well defined.
LEMMA SmallestProperty ==
  ASSUME NEW T \in SUBSET Nat, T # {}
  PROVE  /\ Smallest(T) \in T
         /\ \A u \in T : Smallest(T) <= u
<1>1. \E t \in T : IsSmallest(T, t)
  BY SmallestExists DEF IsSmallest
<1> QED BY <1>1 DEF Smallest, IsSmallest

\* The choice behind GetLastTimestamp, "$" and the "<=" seek is well defined.
LEMMA LargestProperty ==
  ASSUME NEW T \in SUBSET Time, T # {}
  PROVE  /\ Largest(T) \in T
         /\ \A u \in T : u <= Largest(T)
<1> DEFINE M == {n \in Nat : MaxTime - n \in T}
<1>1. MaxTime \in Nat /\ \A t \in T : t \in Nat /\ t <= MaxTime
  BY TimeAssumption DEF Time
<1>2. PICK any \in T : TRUE
  OBVIOUS
<1>3. MaxTime - any \in Nat /\ MaxTime - (MaxTime - any) = any
  BY <1>1
<1>4. M \in SUBSET Nat /\ M # {}
  BY <1>3
<1> HIDE DEF M
<1>5. PICK m \in M : \A n \in M : m <= n
  BY <1>4, SmallestExists
<1> DEFINE t == MaxTime - m
<1>6. m \in Nat /\ t \in T
  BY <1>5 DEF M
<1>7. ASSUME NEW u \in T PROVE u <= t
  <2>1. MaxTime - u \in Nat /\ MaxTime - (MaxTime - u) = u
    BY <1>1
  <2>2. m <= MaxTime - u
    BY <1>5, <2>1 DEF M
  <2> QED BY <1>1, <1>6, <2>2
<1>8. \E x \in T : IsLargest(T, x)
  BY <1>6, <1>7 DEF IsLargest
<1> QED BY <1>8 DEF Largest, IsLargest

----------------------------------------------------------------------------
(***************************************************************************)
(* Chunks.  Below, a chunk is known by its type and by the set of its      *)
(* timestamps.                                                             *)
(***************************************************************************)

\* Timestamps are natural numbers and there are finitely many of them.
LEMMA TimeFacts ==
  /\ Time \subseteq Nat
  /\ 0 \in Time
  /\ IsFiniteSet(Time)
<1>1. IsFiniteSet(0 .. MaxTime)
  BY TimeAssumption, FS_Interval
<1> QED BY <1>1, TimeAssumption DEF Time

\* NoValue is not a value.
LEMMA NoValueFact == NoValue \notin Value
BY MarkerAssumption DEF Value

\* GetFirstTimestamp and GetLastTimestamp find the ends of a chunk.
LEMMA ChunkEnds ==
  ASSUME NEW c
  PROVE  /\ Timestamps(c) \subseteq Time
         /\ IsFiniteSet(Timestamps(c))
         /\ Timestamps(c) = {} => GetFirstTimestamp(c) = 0
         /\ Timestamps(c) # {} =>
              /\ GetFirstTimestamp(c) \in Timestamps(c)
              /\ \A u \in Timestamps(c) : GetFirstTimestamp(c) <= u
              /\ GetLastTimestamp(c) \in Timestamps(c)
              /\ \A u \in Timestamps(c) : u <= GetLastTimestamp(c)
<1>1. Timestamps(c) \in SUBSET Time /\ Timestamps(c) \in SUBSET Nat
  BY TimeFacts DEF Timestamps
<1>2. IsFiniteSet(Timestamps(c))
  BY <1>1, TimeFacts, FS_Subset
<1>3. Timestamps(c) # {} =>
        /\ Smallest(Timestamps(c)) \in Timestamps(c)
        /\ \A u \in Timestamps(c) : Smallest(Timestamps(c)) <= u
  BY <1>1, SmallestProperty
<1>4. Timestamps(c) # {} =>
        /\ Largest(Timestamps(c)) \in Timestamps(c)
        /\ \A u \in Timestamps(c) : u <= Largest(Timestamps(c))
  BY <1>1, LargestProperty
<1> QED BY <1>1, <1>2, <1>3, <1>4 DEF GetFirstTimestamp, GetLastTimestamp

\* The first timestamp of a chunk is determined by the set of its timestamps.
LEMMA FirstUnique ==
  ASSUME NEW c, NEW t \in Timestamps(c), \A u \in Timestamps(c) : t <= u
  PROVE  GetFirstTimestamp(c) = t
<1>1. /\ GetFirstTimestamp(c) \in Timestamps(c)
      /\ GetFirstTimestamp(c) <= t
      /\ t <= GetFirstTimestamp(c)
      /\ Timestamps(c) \subseteq Nat
  BY ChunkEnds, TimeFacts
<1> QED BY <1>1

\* The fields of a chunk.
LEMMA ChunkFields ==
  ASSUME NEW c \in Chunk
  PROVE  /\ c.samples \in [Time -> Value \cup {NoValue}]
         /\ c.size \in Nat \ {0}
         /\ c # NoChunk
         /\ NumOfSample(c) \in Nat
<1>1. NumOfSample(c) \in Nat
  BY ChunkEnds, FS_CardinalityType DEF NumOfSample
<1> QED BY <1>1, NoChunkAssumption DEF Chunk

\* A new chunk is empty.
LEMMA NewChunkFacts ==
  ASSUME NEW size \in Nat \ {0}
  PROVE  NewChunk(size) \in Chunk /\ Timestamps(NewChunk(size)) = {}
BY DEF NewChunk, Chunk, Timestamps

\* Storing a sample adds its timestamp and changes no other sample.
LEMMA WithSampleFacts ==
  ASSUME NEW c \in Chunk, NEW t \in Time, NEW v \in Value
  PROVE  /\ WithSample(c, t, v) \in Chunk
         /\ Timestamps(WithSample(c, t, v)) = Timestamps(c) \cup {t}
         /\ WithSample(c, t, v).samples[t] = v
         /\ \A u \in Time \ {t} : WithSample(c, t, v).samples[u] = c.samples[u]
<1>1. c.samples \in [Time -> Value \cup {NoValue}] /\ c.size \in Nat \ {0}
  BY ChunkFields
<1>2. WithSample(c, t, v) = [samples |-> [c.samples EXCEPT ![t] = v], size |-> c.size]
  BY DEF WithSample, Chunk
<1> QED BY <1>1, <1>2, NoValueFact DEF Chunk, Timestamps

\* Resizing a chunk keeps its samples.
LEMMA ResizeFacts ==
  ASSUME NEW c \in Chunk, NEW size \in Nat \ {0}
  PROVE  /\ [c EXCEPT !.size = size] \in Chunk
         /\ [c EXCEPT !.size = size].samples = c.samples
         /\ Timestamps([c EXCEPT !.size = size]) = Timestamps(c)
BY ChunkFields DEF Chunk, Timestamps

\* Deleting a range keeps the samples outside it.
LEMMA DelRangeFacts ==
  ASSUME NEW c \in Chunk, NEW a, NEW b
  PROVE  /\ DelRangeOfChunk(c, a, b) \in Chunk
         /\ Timestamps(DelRangeOfChunk(c, a, b))
              = {t \in Timestamps(c) : ~(a <= t /\ t <= b)}
         /\ \A t \in Timestamps(DelRangeOfChunk(c, a, b)) :
              DelRangeOfChunk(c, a, b).samples[t] = c.samples[t]
BY ChunkFields DEF DelRangeOfChunk, Chunk, Timestamps

\* Splitting distributes the samples between the two halves.
LEMMA SplitFacts ==
  ASSUME NEW c \in Chunk, NEW t, NEW size \in Nat \ {0}
  PROVE  /\ Before(c, t, size) \in Chunk
         /\ Timestamps(Before(c, t, size)) = {u \in Timestamps(c) : u < t}
         /\ \A u \in Time : u < t => Before(c, t, size).samples[u] = c.samples[u]
         /\ From(c, t, size) \in Chunk
         /\ Timestamps(From(c, t, size)) = {u \in Timestamps(c) : ~(u < t)}
         /\ \A u \in Time : ~(u < t) => From(c, t, size).samples[u] = c.samples[u]
BY ChunkFields DEF Before, From, Chunk, Timestamps

----------------------------------------------------------------------------
(***************************************************************************)
(* Dictionaries.                                                           *)
(***************************************************************************)
KeysIn(d) == {k \in Time : d[k] # NoChunk}

AllTimestamps(d) == {t \in Time : \E k \in KeysIn(d) : t \in Timestamps(d[k])}

IsDict(d) == d \in [Time -> Chunk \cup {NoChunk}]

InOrder(d) ==
  \A k \in KeysIn(d) : \A t \in Timestamps(d[k]) :
    k <= t /\ \A j \in KeysIn(d) : k < j => t < j

WellKeyed(d) == \A k \in KeysIn(d) : k # 0 => k \in Timestamps(d[k])

NoneEmpty(d) == KeysIn(d) # {} /\ \A k \in KeysIn(d) : Timestamps(d[k]) # {}

IsEmptySeries(d) == KeysIn(d) = {0} /\ Timestamps(d[0]) = {}

WellFormed(d) ==
  IsDict(d) /\ InOrder(d) /\ WellKeyed(d) /\ (NoneEmpty(d) \/ IsEmptySeries(d))

\* The state of a series that has the dictionary d, whose lastChunk is the one
\* under last, whose newest sample is (ts, val), and which counts n samples.
Good(d, last, ts, val, n) ==
  /\ WellFormed(d)
  /\ IsLargest(KeysIn(d), last)
  /\ n = Cardinality(AllTimestamps(d))
  /\ IF AllTimestamps(d) = {} THEN ts = 0 /\ val = 0
     ELSE IsLargest(Timestamps(d[last]), ts) /\ val = d[last].samples[ts]

\* What is true of a chunk of a dictionary.
LEMMA DictFacts ==
  ASSUME NEW d, IsDict(d)
  PROVE  /\ KeysIn(d) \subseteq Time
         /\ \A k \in KeysIn(d) : d[k] \in Chunk
         /\ IsFiniteSet(AllTimestamps(d))
         /\ Cardinality(AllTimestamps(d)) \in Nat
<1>1. AllTimestamps(d) \in SUBSET Time
  BY DEF AllTimestamps
<1>2. IsFiniteSet(AllTimestamps(d))
  BY <1>1, TimeFacts, FS_Subset
<1> QED BY <1>2, FS_CardinalityType DEF KeysIn, IsDict

\* The dictionary e holds exactly the chunks g[k], each under the key f[k]; the
\* keys fit the chunks, and the chunks come in the order of K.
Holds(e, K, f, g) ==
  /\ K \in SUBSET Time /\ K # {} /\ f \in [K -> Time] /\ g \in [K -> Chunk]
  /\ IsDict(e)
  /\ \A k \in K : e[f[k]] = g[k]
  /\ \A n \in Time : e[n] # NoChunk => \E k \in K : f[k] = n
  /\ \A k \in K : Timestamps(g[k]) # {}
  /\ \A k \in K : f[k] # 0 => f[k] \in Timestamps(g[k])
  /\ \A k \in K : \A t \in Timestamps(g[k]) : f[k] <= t
  /\ \A k, j \in K : k < j => \A t \in Timestamps(g[k]) : t < f[j]

\* Such a dictionary is well formed.  Every operation that moves, adds or
\* removes chunks is an instance of this.
LEMMA Rekey ==
  ASSUME NEW e, NEW K, NEW f, NEW g, Holds(e, K, f, g)
  PROVE  /\ WellFormed(e)
         /\ NoneEmpty(e)
         /\ KeysIn(e) = {f[k] : k \in K}
         /\ AllTimestamps(e) = {t \in Time : \E k \in K : t \in Timestamps(g[k])}
         /\ \A k, j \in K : k < j => f[k] < f[j]
         /\ \A m \in K : IsLargest(K, m) => IsLargest(KeysIn(e), f[m])
<1> USE DEF Holds
<1>1. KeysIn(e) = {f[k] : k \in K}
  BY ChunkFields DEF KeysIn
<1>2. NoneEmpty(e)
  BY <1>1 DEF NoneEmpty
<1>3. AllTimestamps(e) = {t \in Time : \E k \in K : t \in Timestamps(g[k])}
  BY <1>1 DEF AllTimestamps
<1>4. ASSUME NEW k \in K, NEW j \in K, k < j PROVE f[k] < f[j]
  <2>1. PICK t \in Timestamps(g[k]) : TRUE
    OBVIOUS
  <2>2. f[k] <= t /\ t < f[j]
    BY <1>4
  <2>3. t \in Nat /\ f[k] \in Nat /\ f[j] \in Nat
    BY ChunkEnds, TimeFacts
  <2> QED BY <2>2, <2>3
<1>5. ASSUME NEW k \in K, NEW j \in K, f[k] < f[j] PROVE k < j
  <2>1. k \in Nat /\ j \in Nat /\ f[k] \in Nat /\ f[j] \in Nat
    BY TimeFacts
  <2>2. CASE k = j
    BY <1>5, <2>1, <2>2
  <2>3. CASE j < k
    BY <1>4, <1>5, <2>1, <2>3
  <2> QED BY <2>1, <2>2, <2>3
<1>6. InOrder(e)
  <2> SUFFICES ASSUME NEW p \in KeysIn(e), NEW t \in Timestamps(e[p])
               PROVE  p <= t /\ \A q \in KeysIn(e) : p < q => t < q
    BY DEF InOrder
  <2>1. PICK k \in K : p = f[k]
    BY <1>1
  <2>2. p <= t
    BY <2>1
  <2>3. ASSUME NEW q \in KeysIn(e), p < q PROVE t < q
    <3>1. PICK j \in K : q = f[j]
      BY <1>1
    <3>2. k < j
      BY <1>5, <2>1, <2>3, <3>1
    <3> QED BY <2>1, <3>1, <3>2
  <2> QED BY <2>2, <2>3
<1>7. WellKeyed(e)
  BY <1>1 DEF WellKeyed
<1>8. ASSUME NEW m \in K, IsLargest(K, m) PROVE IsLargest(KeysIn(e), f[m])
  <2>1. ASSUME NEW k \in K PROVE f[k] <= f[m]
    <3>1. k <= m /\ k \in Nat /\ m \in Nat /\ f[k] \in Nat /\ f[m] \in Nat
      BY <1>8, TimeFacts DEF IsLargest
    <3>2. k = m \/ k < m
      BY <3>1
    <3> QED BY <1>4, <3>1, <3>2
  <2> QED BY <1>1, <2>1 DEF IsLargest
<1> QED BY <1>1, <1>2, <1>3, <1>4, <1>6, <1>7, <1>8 DEF WellFormed

(***************************************************************************)
(* What a dictionary holds at a timestamp, and how two dictionaries can    *)
(* differ in it.                                                           *)
(***************************************************************************)
ValueAt(d, u) ==
  IF u \in AllTimestamps(d)
  THEN d[CHOOSE k \in KeysIn(d) : u \in Timestamps(d[k])].samples[u]
  ELSE NoValue

SameValues(d, e) == \A u \in Time : ValueAt(e, u) = ValueAt(d, u)

Written(d, e, t, w) == \A u \in Time : ValueAt(e, u) = IF u = t THEN w ELSE ValueAt(d, u)

Emptied(d, e, a, b) ==
  \A u \in Time : ValueAt(e, u) = IF a <= u /\ u <= b THEN NoValue ELSE ValueAt(d, u)

\* No two chunks hold the same timestamp.
LEMMA OneChunk ==
  ASSUME NEW d, WellFormed(d), NEW k \in KeysIn(d), NEW j \in KeysIn(d),
         NEW u \in Timestamps(d[k]), u \in Timestamps(d[j])
  PROVE  j = k
<1>1. k \in Nat /\ j \in Nat /\ u \in Nat
  BY ChunkEnds, TimeFacts DEF KeysIn
<1>2. k <= u /\ j <= u /\ (k < j => u < j) /\ (j < k => u < k)
  BY DEF WellFormed, InOrder
<1> QED BY <1>1, <1>2

\* So the value at a timestamp is that of the chunk that holds it.
LEMMA ValueIs ==
  ASSUME NEW d, WellFormed(d), NEW k \in KeysIn(d), NEW u \in Timestamps(d[k])
  PROVE  u \in AllTimestamps(d) /\ ValueAt(d, u) = d[k].samples[u]
<1> DEFINE j == CHOOSE i \in KeysIn(d) : u \in Timestamps(d[i])
<1>1. u \in AllTimestamps(d)
  BY ChunkEnds DEF AllTimestamps
<1>2. j \in KeysIn(d) /\ u \in Timestamps(d[j])
  OBVIOUS
<1> HIDE DEF j
<1>3. j = k
  BY <1>2, OneChunk
<1> QED BY <1>1, <1>3 DEF ValueAt, j

\* It is a value exactly where there is a sample.
LEMMA ValueType ==
  ASSUME NEW d, WellFormed(d), NEW u \in Time
  PROVE  /\ u \in AllTimestamps(d) => ValueAt(d, u) \in Value /\ ValueAt(d, u) # NoValue
         /\ u \notin AllTimestamps(d) => ValueAt(d, u) = NoValue
<1>1. ASSUME u \in AllTimestamps(d) PROVE ValueAt(d, u) \in Value /\ ValueAt(d, u) # NoValue
  <2>1. PICK k \in KeysIn(d) : u \in Timestamps(d[k])
    BY <1>1 DEF AllTimestamps
  <2>2. ValueAt(d, u) = d[k].samples[u] /\ d[k] \in Chunk
    BY <2>1, ValueIs, DictFacts DEF WellFormed
  <2> QED BY <2>1, <2>2, ChunkFields DEF Timestamps
<1> QED BY <1>1 DEF ValueAt

\* A sample that is found again, and a timestamp that stays free.
LEMMA SameValue ==
  ASSUME NEW d, NEW e, WellFormed(d), WellFormed(e), NEW u \in Time,
         \A k \in KeysIn(d) : u \in Timestamps(d[k]) =>
            \E j \in KeysIn(e) : u \in Timestamps(e[j]) /\ e[j].samples[u] = d[k].samples[u],
         u \in AllTimestamps(e) => u \in AllTimestamps(d)
  PROVE  ValueAt(e, u) = ValueAt(d, u)
<1>1. CASE u \in AllTimestamps(d)
  <2>1. PICK k \in KeysIn(d) : u \in Timestamps(d[k])
    BY <1>1 DEF AllTimestamps
  <2>2. PICK j \in KeysIn(e) : u \in Timestamps(e[j]) /\ e[j].samples[u] = d[k].samples[u]
    BY <2>1
  <2>3. ValueAt(d, u) = d[k].samples[u]
    BY <2>1, ValueIs
  <2>4. ValueAt(e, u) = e[j].samples[u]
    BY <2>2, ValueIs
  <2> QED BY <2>2, <2>3, <2>4
<1>2. CASE u \notin AllTimestamps(d)
  BY <1>2 DEF ValueAt
<1> QED BY <1>1, <1>2

\* In a good state with samples no chunk is empty and the newest sample is the
\* last one of the chunk under the largest key.
LEMMA NonEmptySeries ==
  ASSUME NEW d, NEW last, NEW ts, NEW val, NEW n, Good(d, last, ts, val, n),
         AllTimestamps(d) # {}
  PROVE  /\ NoneEmpty(d)
         /\ last \in KeysIn(d) /\ ts \in Time /\ last \in Time /\ last <= ts
         /\ ts \in Timestamps(d[last])
         /\ \A k \in KeysIn(d) : k <= last
         /\ \A u \in Timestamps(d[last]) : u <= ts
         /\ \A u \in AllTimestamps(d) : u <= ts
         /\ val = d[last].samples[ts]
         /\ n \in Nat /\ n # 0
<1>1. NoneEmpty(d)
  BY DEF Good, WellFormed, IsEmptySeries, AllTimestamps
<1>2. /\ last \in KeysIn(d) /\ last \in Time
      /\ \A k \in KeysIn(d) : k <= last
      /\ ts \in Timestamps(d[last]) /\ ts \in Time
      /\ \A u \in Timestamps(d[last]) : u <= ts
      /\ val = d[last].samples[ts]
  BY ChunkEnds DEF Good, IsLargest, KeysIn
<1>3. last <= ts
  BY <1>2 DEF Good, WellFormed, InOrder
<1>4. ASSUME NEW u \in AllTimestamps(d) PROVE u <= ts
  <2>1. PICK k \in KeysIn(d) : u \in Timestamps(d[k])
    BY DEF AllTimestamps
  <2>2. CASE k = last
    BY <1>2, <2>1, <2>2
  <2>3. CASE k # last
    <3>1. k \in Nat /\ last \in Nat /\ u \in Nat /\ ts \in Nat
      BY <1>2, TimeFacts DEF KeysIn, AllTimestamps
    <3>2. k < last
      BY <1>2, <2>3, <3>1
    <3>3. u < last
      BY <1>2, <2>1, <3>2 DEF Good, WellFormed, InOrder
    <3> QED BY <1>3, <3>1, <3>3
  <2> QED BY <2>2, <2>3
<1>5. n \in Nat /\ n # 0
  BY DictFacts, FS_EmptySet DEF Good, WellFormed
<1> QED BY <1>1, <1>2, <1>3, <1>4, <1>5

\* A good state without samples is the one NewSeries creates.
LEMMA EmptySeries ==
  ASSUME NEW d, NEW last, NEW ts, NEW val, NEW n, Good(d, last, ts, val, n),
         AllTimestamps(d) = {}
  PROVE  /\ IsEmptySeries(d)
         /\ last = 0 /\ ts = 0 /\ val = 0 /\ n = 0
<1>1. IsEmptySeries(d)
  <2>1. ASSUME NoneEmpty(d) PROVE FALSE
    <3>1. PICK k \in KeysIn(d) : Timestamps(d[k]) # {}
      BY <2>1 DEF NoneEmpty
    <3> QED BY <3>1, ChunkEnds DEF AllTimestamps
  <2> QED BY <2>1 DEF Good, WellFormed
<1>2. last = 0
  BY <1>1 DEF IsEmptySeries, Good, IsLargest
<1> QED BY <1>1, <1>2, FS_EmptySet DEF Good

\* Counting (key, timestamp) pairs counts timestamps: no two chunks share one.
LEMMA PairsCount ==
  ASSUME NEW d, WellFormed(d), NEW P, NEW T,
         \A p \in P : /\ p[1] \in KeysIn(d)
                      /\ p[2] \in Timestamps(d[p[1]])
                      /\ p[2] \in T
                      /\ p = <<p[1], p[2]>>,
         \A t \in T : t \in Time /\ \E p \in P : p[2] = t
  PROVE  IsFiniteSet(T) /\ Cardinality(P) = Cardinality(T)
<1> DEFINE f == [p \in P |-> p[2]]
<1>1. T \in SUBSET Time /\ IsFiniteSet(T)
  BY TimeFacts, FS_Subset
<1>2. ASSUME NEW p \in P, NEW q \in P, p[2] = q[2] PROVE p = q
  <2>1. p[1] \in Nat /\ q[1] \in Nat /\ p[2] \in Nat
    BY TimeFacts, ChunkEnds DEF KeysIn
  <2>2. /\ p[1] <= p[2] /\ q[1] <= p[2]
        /\ p[1] < q[1] => p[2] < q[1]
        /\ q[1] < p[1] => p[2] < p[1]
    BY <1>2 DEF WellFormed, InOrder
  <2>3. p[1] = q[1]
    BY <2>1, <2>2
  <2> QED BY <1>2, <2>3
<1>3. f \in Injection(P, T)
  BY <1>2 DEF Injection, IsInjective
<1>4. f \in Surjection(P, T)
  BY DEF Surjection
<1> QED BY <1>1, <1>3, <1>4, FS_Injection

----------------------------------------------------------------------------
(***************************************************************************)
(* The operations on a dictionary.                                         *)
(***************************************************************************)

\* NewSeries.
LEMMA NewSeriesGood ==
  ASSUME NEW size \in Nat \ {0}
  PROVE  Good(NewSeries(size), 0, 0, 0, 0)
<1> DEFINE d == NewSeries(size)
<1>1. IsDict(d)
  BY NewChunkFacts DEF NewSeries, IsDict
<1>2. KeysIn(d) = {0} /\ d[0] = NewChunk(size)
  BY NewChunkFacts, ChunkFields, TimeFacts DEF NewSeries, KeysIn
<1>3. Timestamps(d[0]) = {}
  BY <1>2, NewChunkFacts
<1> HIDE DEF d
<1>4. IsEmptySeries(d) /\ InOrder(d) /\ WellKeyed(d)
  BY <1>2, <1>3 DEF IsEmptySeries, InOrder, WellKeyed
<1>5. AllTimestamps(d) = {}
  BY <1>2, <1>3 DEF AllTimestamps
<1>6. IsLargest(KeysIn(d), 0)
  BY <1>2 DEF IsLargest
<1>7. Good(d, 0, 0, 0, 0)
  BY <1>1, <1>4, <1>5, <1>6, FS_EmptySet DEF Good, WellFormed
<1> QED BY <1>7 DEF d

\* Appending a newer sample to the last chunk.
LEMMA AppendToLastGood ==
  ASSUME NEW d, NEW last, NEW ts, NEW val, NEW n, Good(d, last, ts, val, n),
         NEW t \in Time, NEW v \in Value,
         AllTimestamps(d) # {} => ts < t
  PROVE  /\ Good([d EXCEPT ![last] = WithSample(@, t, v)], last, t, v, n + 1)
         /\ Written(d, [d EXCEPT ![last] = WithSample(@, t, v)], t, v)
<1> DEFINE new == WithSample(d[last], t, v)
           e == [d EXCEPT ![last] = new]
           K == KeysIn(d)
           f == [k \in K |-> k]
           g == [k \in K |-> IF k = last THEN new ELSE d[k]]
<1>1. /\ IsDict(d) /\ InOrder(d) /\ WellKeyed(d)
      /\ last \in K /\ last \in Time /\ K \subseteq Time
      /\ \A k \in K : k <= last /\ d[k] \in Chunk
  BY DictFacts DEF Good, WellFormed, IsLargest, KeysIn
<1>2. /\ new \in Chunk
      /\ Timestamps(new) = Timestamps(d[last]) \cup {t}
      /\ new.samples[t] = v
      /\ \A u \in Time \ {t} : new.samples[u] = d[last].samples[u]
  BY <1>1, WithSampleFacts
<1> HIDE DEF new
<1>3. IsDict(e) /\ e[last] = new /\ \A k \in Time : k # last => e[k] = d[k]
  BY <1>1, <1>2 DEF IsDict
<1>4. f \in [K -> Time] /\ g \in [K -> Chunk]
  BY <1>1, <1>2
<1>5. last <= t /\ \A u \in AllTimestamps(d) : u < t
  <2>1. CASE AllTimestamps(d) = {}
    BY <2>1, EmptySeries, TimeFacts
  <2>2. CASE AllTimestamps(d) # {}
    <3>1. /\ ts \in Nat /\ t \in Nat /\ last \in Nat /\ ts < t /\ last <= ts
          /\ \A u \in AllTimestamps(d) : u \in Nat /\ u <= ts
      BY <2>2, NonEmptySeries, TimeFacts DEF AllTimestamps
    <3> QED BY <3>1
  <2> QED BY <2>1, <2>2
<1>6. \A k \in K : Timestamps(g[k]) # {}
  <2>1. ASSUME NEW k \in K, k # last PROVE Timestamps(d[k]) # {}
    <3>1. ~IsEmptySeries(d)
      BY <1>1, <2>1 DEF IsEmptySeries
    <3> QED BY <3>1 DEF Good, WellFormed, NoneEmpty
  <2> QED BY <1>2, <2>1
<1>7. \A k \in K : f[k] # 0 => f[k] \in Timestamps(g[k])
  BY <1>1, <1>2 DEF WellKeyed
<1>8. \A k \in K : \A u \in Timestamps(g[k]) : f[k] <= u
  BY <1>1, <1>2, <1>5 DEF InOrder
<1>9. ASSUME NEW k \in K, NEW j \in K, k < j, NEW u \in Timestamps(g[k]) PROVE u < f[j]
  <2>1. k # last
    BY <1>1, <1>9, TimeFacts
  <2> QED BY <1>1, <1>9, <2>1 DEF InOrder
<1>10. \A k \in K : e[f[k]] = g[k]
  BY <1>1, <1>3
<1>11. \A m \in Time : e[m] # NoChunk => \E k \in K : f[k] = m
  BY <1>1, <1>3 DEF KeysIn
<1>12. Holds(e, K, f, g)
  BY <1>1, <1>3, <1>4, <1>6, <1>7, <1>8, <1>9, <1>10, <1>11 DEF Holds
<1> HIDE DEF K, f, g, e
<1>13. /\ WellFormed(e)
       /\ AllTimestamps(e) = {u \in Time : \E k \in K : u \in Timestamps(g[k])}
       /\ \A m \in K : IsLargest(K, m) => IsLargest(KeysIn(e), f[m])
  BY <1>12, Rekey
<1>14. AllTimestamps(e) = AllTimestamps(d) \cup {t}
  BY <1>1, <1>2, <1>13 DEF AllTimestamps, K, g
<1>15. Cardinality(AllTimestamps(e)) = n + 1
  <2>1. t \notin AllTimestamps(d)
    BY <1>5, TimeFacts
  <2> QED BY <1>1, <1>14, <2>1, DictFacts, FS_AddElement DEF Good
<1>16. IsLargest(KeysIn(e), last)
  BY <1>1, <1>13 DEF IsLargest, f, K
<1>17. IsLargest(Timestamps(e[last]), t) /\ v = e[last].samples[t]
  <2>1. \A u \in Timestamps(d[last]) : u \in Nat /\ u < t
    BY <1>1, <1>5, ChunkEnds, TimeFacts DEF AllTimestamps, K
  <2> QED BY <1>2, <1>3, <2>1, TimeFacts DEF IsLargest
<1>18. Good(e, last, t, v, n + 1)
  BY <1>13, <1>14, <1>15, <1>16, <1>17 DEF Good
<1>19. Written(d, e, t, v)
  <2>1. ValueAt(e, t) = v
    <3>1. last \in KeysIn(e) /\ t \in Timestamps(e[last]) /\ e[last].samples[t] = v
      BY <1>16, <1>17 DEF IsLargest
    <3> QED BY <1>13, <3>1, ValueIs
  <2>2. ASSUME NEW u \in Time, u # t PROVE ValueAt(e, u) = ValueAt(d, u)
    <3>1. ASSUME NEW k \in KeysIn(d), u \in Timestamps(d[k])
          PROVE  \E j \in KeysIn(e) : u \in Timestamps(e[j]) /\ e[j].samples[u] = d[k].samples[u]
      <4>1. CASE k = last
        BY <1>2, <1>3, <1>16, <2>2, <3>1, <4>1 DEF IsLargest
      <4>2. CASE k # last
        BY <1>1, <1>3, <3>1, <4>2 DEF KeysIn, K
      <4> QED BY <4>1, <4>2
    <3>2. WellFormed(d)
      BY DEF Good
    <3> QED BY <1>13, <1>14, <2>2, <3>1, <3>2, SameValue
  <2> QED BY <2>1, <2>2 DEF Written
<1> QED BY <1>18, <1>19, <1>1 DEF e, new, IsDict

\* Opening a new chunk for a newer sample, after the chunks R were dropped.
LEMMA AppendToNewGood ==
  ASSUME NEW d, NEW last, NEW ts, NEW val, NEW n, Good(d, last, ts, val, n),
         AllTimestamps(d) # {},
         NEW t \in Time, ts < t, NEW v,
         NEW c \in Chunk, Timestamps(c) = {t}, c.samples[t] = v,
         NEW R \in SUBSET KeysIn(d), last \notin R,
         NEW X, X = {u \in Time : \E k \in R : u \in Timestamps(d[k])}
  PROVE  LET e == DictSet([k \in Time |-> IF k \in R THEN NoChunk ELSE d[k]], t, c) IN
         /\ Good(e, t, t, v, n - Cardinality(X) + 1)
         /\ \A u \in Time : ValueAt(e, u) = IF u = t THEN v
                                           ELSE IF u \in X THEN NoValue ELSE ValueAt(d, u)
<1> DEFINE rest == [k \in Time |-> IF k \in R THEN NoChunk ELSE d[k]]
           e == DictSet(rest, t, c)
           K == (KeysIn(d) \ R) \cup {t}
           f == [k \in K |-> k]
           g == [k \in K |-> IF k = t THEN c ELSE d[k]]
<1>1. /\ IsDict(d) /\ InOrder(d) /\ WellKeyed(d) /\ NoneEmpty(d)
      /\ KeysIn(d) \subseteq Time
      /\ \A k \in KeysIn(d) : d[k] \in Chunk
  BY DictFacts, NonEmptySeries DEF Good, WellFormed
<1>2. /\ \A k \in KeysIn(d) : k < t
      /\ \A u \in AllTimestamps(d) : u < t
  <2>1. /\ ts \in Nat /\ t \in Nat /\ last \in Nat /\ last <= ts
        /\ \A k \in KeysIn(d) : k \in Nat /\ k <= last
        /\ \A u \in AllTimestamps(d) : u \in Nat /\ u <= ts
    BY <1>1, NonEmptySeries, TimeFacts DEF AllTimestamps
  <2> QED BY <2>1
<1>3. t \notin KeysIn(d)
  BY <1>2, TimeFacts
<1>4. e = [rest EXCEPT ![t] = c]
  BY <1>3 DEF DictSet, KeysIn
<1>5. /\ IsDict(e) /\ e[t] = c
      /\ \A k \in Time : k # t => e[k] = IF k \in R THEN NoChunk ELSE d[k]
  BY <1>1, <1>4 DEF IsDict
<1> HIDE DEF e, rest
<1>6. f \in [K -> Time] /\ g \in [K -> Chunk] /\ K \in SUBSET Time /\ K # {}
  BY <1>1
<1>7. \A k \in K : e[f[k]] = g[k]
  BY <1>1, <1>3, <1>5
<1>8. \A m \in Time : e[m] # NoChunk => \E k \in K : f[k] = m
  BY <1>1, <1>5 DEF KeysIn
<1>9. \A k \in K : Timestamps(g[k]) # {} /\ (f[k] # 0 => f[k] \in Timestamps(g[k]))
  BY <1>1 DEF NoneEmpty, WellKeyed
<1>10. \A k \in K : \A u \in Timestamps(g[k]) : f[k] <= u
  BY <1>1, TimeFacts DEF InOrder
<1>11. ASSUME NEW k \in K, NEW j \in K, k < j, NEW u \in Timestamps(g[k]) PROVE u < f[j]
  <2>1. k # t
    BY <1>1, <1>2, <1>11, TimeFacts
  <2>2. k \in KeysIn(d) /\ u \in Timestamps(d[k]) /\ u \in AllTimestamps(d)
    BY <1>1, <1>11, <2>1, ChunkEnds DEF AllTimestamps
  <2> QED BY <1>1, <1>2, <1>11, <2>2 DEF InOrder
<1>12. Holds(e, K, f, g)
  BY <1>5, <1>6, <1>7, <1>8, <1>9, <1>10, <1>11 DEF Holds
<1>13. IsLargest(K, t)
  BY <1>1, <1>2, TimeFacts DEF IsLargest
<1> HIDE DEF K, f, g
<1>14. /\ WellFormed(e)
       /\ AllTimestamps(e) = {u \in Time : \E k \in K : u \in Timestamps(g[k])}
       /\ \A m \in K : IsLargest(K, m) => IsLargest(KeysIn(e), f[m])
  BY <1>12, Rekey
<1>15. AllTimestamps(e) = (AllTimestamps(d) \ X) \cup {t}
  <2>1. ASSUME NEW u \in Time, NEW k \in KeysIn(d) \ R, u \in Timestamps(d[k]) PROVE u \notin X
    <3> SUFFICES ASSUME NEW j \in R, u \in Timestamps(d[j]) PROVE FALSE
      OBVIOUS
    <3>1. j \in Nat /\ k \in Nat /\ u \in Nat /\ j # k
      BY <1>1, <2>1, TimeFacts
    <3>2. j <= u /\ k <= u /\ (j < k => u < k) /\ (k < j => u < j)
      BY <1>1, <2>1 DEF InOrder
    <3> QED BY <3>1, <3>2
  <2>2. \A u \in Time : u \in AllTimestamps(e) <=> u = t \/ \E k \in KeysIn(d) \ R : u \in Timestamps(d[k])
    BY <1>3, <1>14 DEF K, g
  <2> QED BY <2>1, <2>2 DEF AllTimestamps
<1>16. Cardinality(AllTimestamps(e)) = n - Cardinality(X) + 1
  <2>1. X \in SUBSET AllTimestamps(d)
    BY DEF AllTimestamps
  <2>2. /\ IsFiniteSet(AllTimestamps(d)) /\ n = Cardinality(AllTimestamps(d)) /\ n \in Nat
        /\ IsFiniteSet(X) /\ Cardinality(X) \in Nat
    BY <1>1, <2>1, DictFacts, FS_Subset, FS_CardinalityType DEF Good
  <2>3. /\ IsFiniteSet(AllTimestamps(d) \ X)
        /\ Cardinality(AllTimestamps(d) \ X) = n - Cardinality(AllTimestamps(d) \cap X)
    BY <2>2, FS_Difference
  <2>4. AllTimestamps(d) \cap X = X
    BY <2>1
  <2>5. t \notin AllTimestamps(d)
    BY <1>2, TimeFacts
  <2>6. Cardinality((AllTimestamps(d) \ X) \cup {t}) = Cardinality(AllTimestamps(d) \ X) + 1
    BY <2>3, <2>5, FS_AddElement
  <2> QED BY <1>15, <2>2, <2>3, <2>4, <2>6
<1>17. IsLargest(KeysIn(e), t)
  BY <1>13, <1>14 DEF K, f
<1>18. IsLargest(Timestamps(e[t]), t) /\ v = e[t].samples[t]
  BY <1>5, TimeFacts DEF IsLargest
<1>19. Good(e, t, t, v, n - Cardinality(X) + 1)
  BY <1>14, <1>15, <1>16, <1>17, <1>18 DEF Good
<1>20. ASSUME NEW u \in Time
       PROVE  ValueAt(e, u) = IF u = t THEN v ELSE IF u \in X THEN NoValue ELSE ValueAt(d, u)
  <2>1. CASE u = t
    BY <1>14, <1>17, <1>18, <2>1, ValueIs DEF IsLargest
  <2>2. CASE u # t /\ u \in X
    BY <1>15, <2>2 DEF ValueAt
  <2>3. CASE u # t /\ u \notin X
    <3>1. ASSUME NEW k \in KeysIn(d), u \in Timestamps(d[k])
          PROVE  \E j \in KeysIn(e) : u \in Timestamps(e[j]) /\ e[j].samples[u] = d[k].samples[u]
      <4>1. k \notin R /\ k # t
        BY <1>3, <2>3, <3>1
      <4>2. e[k] = d[k] /\ k \in KeysIn(e)
        BY <1>1, <1>5, <4>1 DEF KeysIn
      <4> QED BY <3>1, <4>2
    <3>2. WellFormed(d)
      BY DEF Good
    <3> QED BY <1>14, <1>15, <2>3, <3>1, <3>2, SameValue
  <2> QED BY <2>1, <2>2, <2>3
<1> QED BY <1>19, <1>20 DEF e, rest

\* Inserting a sample into, or overwriting it in, the chunk under k, where t
\* lies in the time range of that chunk or before the first chunk: the chunk
\* moves when its first timestamp changes, and every other chunk stays.
LEMMA ReplaceChunkFacts ==
  ASSUME NEW d, WellFormed(d), NoneEmpty(d), NEW k \in KeysIn(d), NEW t \in Time,
         NEW c \in Chunk, Timestamps(c) = Timestamps(d[k]) \cup {t},
         \A j \in KeysIn(d) : k < j => t < j,
         k <= t \/ \A j \in KeysIn(d) : k <= j,
         NEW e, e = ReplaceChunk(d, k, c), NEW p, p = KeyAfter(k, d[k], c)
  PROVE  /\ WellFormed(e) /\ NoneEmpty(e)
         /\ AllTimestamps(e) = AllTimestamps(d) \cup {t}
         /\ p \in KeysIn(e) /\ e[p] = c
         /\ \A j \in KeysIn(d) \ {k} : e[j] = d[j]
         /\ \A m \in KeysIn(d) : IsLargest(KeysIn(d), m) =>
               IsLargest(KeysIn(e), IF m = k THEN p ELSE m)
<1> DEFINE orig == GetFirstTimestamp(d[k])
           first == GetFirstTimestamp(c)
           K == KeysIn(d)
           f == [j \in K |-> IF j = k THEN p ELSE j]
           g == [j \in K |-> IF j = k THEN c ELSE d[j]]
<1>1. /\ IsDict(d) /\ InOrder(d) /\ WellKeyed(d)
      /\ K \subseteq Time /\ k \in Time /\ k \in Nat /\ t \in Nat
      /\ \A j \in K : j \in Nat /\ d[j] \in Chunk /\ Timestamps(d[j]) # {} /\ d[j] # NoChunk
      /\ c # NoChunk
  BY DictFacts, TimeFacts, ChunkFields DEF WellFormed, NoneEmpty
<1>2. /\ orig \in Timestamps(d[k]) /\ \A u \in Timestamps(d[k]) : orig <= u
      /\ orig \in Nat /\ orig \in Time
      /\ k <= orig
      /\ k # 0 => k = orig
  <2>1. /\ orig \in Timestamps(d[k]) /\ \A u \in Timestamps(d[k]) : orig <= u
        /\ orig \in Time /\ orig \in Nat
    BY <1>1, ChunkEnds, TimeFacts
  <2>2. k <= orig /\ (k # 0 => orig <= k)
    BY <1>1, <2>1 DEF InOrder, WellKeyed
  <2> QED BY <1>1, <2>1, <2>2
<1>3. /\ first \in Timestamps(c) /\ first \in Nat /\ first \in Time
      /\ \A u \in Timestamps(c) : first <= u
      /\ first # orig => first = t /\ t < orig
      /\ first = orig => orig <= t
  <2>1. /\ first \in Timestamps(c) /\ first \in Nat /\ first \in Time
        /\ \A u \in Timestamps(c) : first <= u
    BY ChunkEnds, TimeFacts
  <2>2. first <= orig /\ first <= t /\ (first = t \/ orig <= first)
    BY <1>2, <2>1
  <2> QED BY <1>1, <1>2, <2>1, <2>2
<1>4. p = IF first # orig THEN t ELSE k
  BY <1>3 DEF KeyAfter
<1>5. first # orig => t = k \/ t \notin K
  <2> SUFFICES ASSUME first # orig, t # k, t \in K PROVE FALSE
    OBVIOUS
  <2> QED BY <1>1
<1>6. /\ IsDict(e)
      /\ \A j \in Time : e[j] = IF j = p THEN c ELSE IF j = k THEN NoChunk ELSE d[j]
  <2> DEFINE inPlace == [d EXCEPT ![k] = c]
  <2>1. CASE first = orig
    <3>1. e = inPlace /\ p = k
      BY <1>4, <2>1 DEF ReplaceChunk
    <3> QED BY <1>1, <3>1 DEF IsDict
  <2>2. CASE first # orig
    <3>1. e = UpdateChunkInDict(inPlace, c, orig, t) /\ p = t
      BY <1>3, <1>4, <2>2 DEF ReplaceChunk
    <3>2. (IF inPlace[orig] # NoChunk THEN DictDel(inPlace, orig) ELSE DictDel(inPlace, 0))
            = [d EXCEPT ![k] = NoChunk]
      <4>1. CASE k # 0
        <5>1. k = orig /\ inPlace[orig] = c
          BY <1>1, <1>2, <4>1 DEF IsDict
        <5> QED BY <1>1, <5>1 DEF DictDel, IsDict
      <4>2. CASE k = 0
        <5>1. orig # 0
          BY <1>1, <1>3, <2>2, <4>2
        <5>2. orig \notin K
          BY <1>1, <1>2, <4>2, <5>1 DEF InOrder
        <5>3. inPlace[orig] = NoChunk
          BY <1>1, <1>2, <4>2, <5>1, <5>2 DEF KeysIn, IsDict
        <5> QED BY <1>1, <4>2, <5>3 DEF DictDel, IsDict
      <4> QED BY <4>1, <4>2
    <3>3. [d EXCEPT ![k] = NoChunk][t] = NoChunk
      BY <1>1, <1>5, <2>2 DEF KeysIn, IsDict
    <3>4. e = [[d EXCEPT ![k] = NoChunk] EXCEPT ![t] = c]
      BY <3>1, <3>2, <3>3 DEF UpdateChunkInDict, DictSet
    <3> QED BY <1>1, <3>1, <3>4 DEF IsDict
  <2> QED BY <2>1, <2>2
<1>7. f \in [K -> Time] /\ g \in [K -> Chunk] /\ K \in SUBSET Time /\ K # {} /\ p \in Time
  BY <1>1, <1>4
<1>8. \A j \in K : j # k => j # p
  BY <1>4, <1>5
<1>9. \A j \in K : e[f[j]] = g[j]
  BY <1>1, <1>6, <1>7, <1>8
<1>10. \A m \in Time : e[m] # NoChunk => \E j \in K : f[j] = m
  <2> SUFFICES ASSUME NEW m \in Time, e[m] # NoChunk PROVE \E j \in K : f[j] = m
    OBVIOUS
  <2>1. CASE m = p
    BY <2>1
  <2>2. CASE m # p
    <3>1. m # k /\ m \in K
      BY <1>6, <2>2 DEF KeysIn
    <3> QED BY <3>1
  <2> QED BY <2>1, <2>2
<1>11. \A j \in K : Timestamps(g[j]) # {} /\ (f[j] # 0 => f[j] \in Timestamps(g[j]))
  BY <1>1, <1>4 DEF WellKeyed
<1>12. \A j \in K : \A u \in Timestamps(g[j]) : f[j] <= u
  <2>1. \A u \in Timestamps(c) : p <= u
    <3>1. CASE first # orig
      BY <1>3, <1>4, <3>1
    <3>2. CASE first = orig
      <4>1. p = k /\ k <= first
        BY <1>2, <1>4, <3>2
      <4>2. \A u \in Timestamps(c) : u \in Nat
        BY ChunkEnds, TimeFacts
      <4> QED BY <1>1, <1>3, <4>1, <4>2
    <3> QED BY <3>1, <3>2
  <2> QED BY <1>1, <2>1 DEF InOrder
<1>13. ASSUME NEW i \in K, NEW j \in K, i < j, NEW u \in Timestamps(g[i]) PROVE u < f[j]
  <2>1. CASE i = k
    <3>1. f[j] = j /\ t < j
      BY <1>1, <1>13, <2>1
    <3> QED BY <1>1, <1>13, <2>1, <3>1 DEF InOrder
  <2>2. CASE i # k /\ j # k
    BY <1>1, <1>13, <2>2 DEF InOrder
  <2>3. CASE i # k /\ j = k
    <3>1. u < k /\ u \in Nat
      BY <1>1, <1>13, <2>3, ChunkEnds, TimeFacts DEF InOrder
    <3>2. k <= t
      BY <1>1, <1>13, <2>3
    <3> QED BY <1>1, <1>4, <2>3, <3>1, <3>2
  <2> QED BY <2>1, <2>2, <2>3
<1>14. Holds(e, K, f, g)
  BY <1>6, <1>7, <1>9, <1>10, <1>11, <1>12, <1>13 DEF Holds
<1> HIDE DEF K, f, g
<1>15. /\ WellFormed(e) /\ NoneEmpty(e)
       /\ KeysIn(e) = {f[j] : j \in K}
       /\ AllTimestamps(e) = {u \in Time : \E j \in K : u \in Timestamps(g[j])}
       /\ \A m \in K : IsLargest(K, m) => IsLargest(KeysIn(e), f[m])
  BY <1>14, Rekey
<1>16. AllTimestamps(e) = AllTimestamps(d) \cup {t}
  BY <1>15 DEF AllTimestamps, K, g
<1>17. p \in KeysIn(e) /\ e[p] = c
  BY <1>1, <1>6, <1>7 DEF KeysIn
<1>18. \A j \in K \ {k} : e[j] = d[j]
  BY <1>1, <1>6, <1>8
<1> QED BY <1>15, <1>16, <1>17, <1>18 DEF K, f

\* lo and hi are the two halves of the chunk c, split at the timestamp at.
AreHalves(c, at, lo, hi) ==
  /\ lo \in Chunk /\ Timestamps(lo) = {u \in Timestamps(c) : u < at}
  /\ hi \in Chunk /\ Timestamps(hi) = {u \in Timestamps(c) : ~(u < at)}

\* The dictionary in which they replace the chunk under k.
SplitDict(d, k, at, lo, hi) == DictSet([d EXCEPT ![k] = lo], at, hi)

\* Splitting the chunk under k at a timestamp that is not its first one: the
\* new chunk gets a key of its own, between k and the next key.
LEMMA SplitDictFacts ==
  ASSUME NEW d, WellFormed(d), NoneEmpty(d), NEW k \in KeysIn(d),
         NEW at \in Timestamps(d[k]), GetFirstTimestamp(d[k]) < at,
         NEW lo, NEW hi, AreHalves(d[k], at, lo, hi),
         NEW e, e = SplitDict(d, k, at, lo, hi)
  PROVE  /\ WellFormed(e) /\ NoneEmpty(e)
         /\ AllTimestamps(e) = AllTimestamps(d)
         /\ KeysIn(e) = KeysIn(d) \cup {at} /\ at \notin KeysIn(d) /\ k < at
         /\ e[k] = lo /\ e[at] = hi
         /\ \A j \in KeysIn(d) \ {k} : e[j] = d[j]
         /\ \A j \in KeysIn(d) : k < j => at < j
<1> DEFINE K == KeysIn(d) \cup {at}
           f == [j \in K |-> j]
           g == [j \in K |-> IF j = k THEN lo ELSE IF j = at THEN hi ELSE d[j]]
<1> USE DEF AreHalves, SplitDict
<1>1. /\ IsDict(d) /\ InOrder(d) /\ WellKeyed(d)
      /\ KeysIn(d) \subseteq Time /\ at \in Time /\ at \in Nat
      /\ \A j \in KeysIn(d) : j \in Nat /\ d[j] \in Chunk /\ Timestamps(d[j]) # {}
  BY DictFacts, ChunkEnds, TimeFacts DEF WellFormed, NoneEmpty
<1>2. /\ GetFirstTimestamp(d[k]) \in Timestamps(lo) /\ at \in Timestamps(hi)
      /\ k # 0 => k = GetFirstTimestamp(d[k])
      /\ k < at
  <2>1. /\ GetFirstTimestamp(d[k]) \in Timestamps(d[k])
        /\ \A u \in Timestamps(d[k]) : u \in Nat /\ GetFirstTimestamp(d[k]) <= u /\ k <= u
    BY <1>1, ChunkEnds, TimeFacts DEF InOrder
  <2>2. k # 0 => k \in Timestamps(d[k])
    BY <1>1 DEF WellKeyed
  <2> QED BY <1>1, <2>1, <2>2
<1>3. \A j \in KeysIn(d) : k < j => at < j
  BY <1>1 DEF InOrder
<1>4. at \notin KeysIn(d)
  BY <1>1, <1>2, <1>3
<1>5. /\ IsDict(e)
      /\ \A j \in Time : e[j] = IF j = k THEN lo ELSE IF j = at THEN hi ELSE d[j]
  <2>1. [d EXCEPT ![k] = lo][at] = NoChunk
    BY <1>1, <1>2, <1>4 DEF KeysIn, IsDict
  <2>2. e = [[d EXCEPT ![k] = lo] EXCEPT ![at] = hi]
    BY <2>1 DEF DictSet
  <2> QED BY <1>1, <1>2, <2>2 DEF IsDict
<1>6. f \in [K -> Time] /\ g \in [K -> Chunk] /\ K \in SUBSET Time /\ K # {}
  BY <1>1
<1>7. \A j \in K : e[f[j]] = g[j]
  BY <1>1, <1>5
<1>8. \A m \in Time : e[m] # NoChunk => \E j \in K : f[j] = m
  BY <1>1, <1>5 DEF KeysIn
<1>9. \A j \in K : Timestamps(g[j]) # {} /\ (f[j] # 0 => f[j] \in Timestamps(g[j]))
  BY <1>1, <1>2 DEF WellKeyed
<1>10. \A j \in K : \A u \in Timestamps(g[j]) : f[j] <= u
  <2>1. \A u \in Timestamps(hi) : at <= u
    BY <1>1, ChunkEnds, TimeFacts
  <2> QED BY <1>1, <2>1 DEF InOrder
<1>11. ASSUME NEW i \in K, NEW j \in K, i < j, NEW u \in Timestamps(g[i]) PROVE u < f[j]
  <2>1. CASE i = at
    <3>1. j \in KeysIn(d) /\ k < j
      BY <1>1, <1>2, <1>11, <2>1
    <3> QED BY <1>1, <1>2, <1>4, <1>11, <2>1, <3>1 DEF InOrder
  <2>2. CASE i # at /\ j # at
    BY <1>1, <1>11, <2>2 DEF InOrder
  <2>3. CASE i # at /\ j = at
    <3>1. CASE i = k
      BY <1>11, <2>3, <3>1
    <3>2. CASE i # k
      <4>1. i \in KeysIn(d) /\ ~(k < i)
        BY <1>1, <1>3, <1>11, <2>3
      <4>2. i < k
        BY <1>1, <3>2, <4>1
      <4>3. u < k /\ u \in Nat
        BY <1>1, <1>11, <2>3, <3>2, <4>2, ChunkEnds, TimeFacts DEF InOrder
      <4> QED BY <1>1, <1>2, <2>3, <4>3
    <3> QED BY <3>1, <3>2
  <2> QED BY <2>1, <2>2, <2>3
<1>12. Holds(e, K, f, g)
  BY <1>5, <1>6, <1>7, <1>8, <1>9, <1>10, <1>11 DEF Holds
<1> HIDE DEF K, f, g
<1>13. /\ WellFormed(e) /\ NoneEmpty(e)
       /\ KeysIn(e) = {f[j] : j \in K}
       /\ AllTimestamps(e) = {u \in Time : \E j \in K : u \in Timestamps(g[j])}
  BY ONLY <1>12, Rekey
<1>14. AllTimestamps(e) = AllTimestamps(d)
  <2>1. \A u : u \in Timestamps(d[k]) <=> u \in Timestamps(lo) \/ u \in Timestamps(hi)
    OBVIOUS
  <2> QED BY <1>2, <1>4, <1>13, <2>1 DEF AllTimestamps, K, g
<1>15. KeysIn(e) = K
  BY <1>13 DEF f
<1> QED BY <1>1, <1>2, <1>3, <1>4, <1>5, <1>13, <1>14, <1>15 DEF K

\* A dictionary rebuilt from (key, chunk) pairs whose keys are distinct and
\* ordered as K is.
LEMMA DictOfHolds ==
  ASSUME NEW K \in SUBSET Time, K # {}, NEW f \in [K -> Time], NEW g \in [K -> Chunk],
         \A k \in K : Timestamps(g[k]) # {},
         \A k \in K : f[k] # 0 => f[k] \in Timestamps(g[k]),
         \A k \in K : \A t \in Timestamps(g[k]) : f[k] <= t,
         \A k, j \in K : k < j => \A t \in Timestamps(g[k]) : t < f[j],
         NEW pairs, pairs = {<<f[k], g[k]>> : k \in K}
  PROVE  Holds(DictOf(pairs), K, f, g)
<1>1. ASSUME NEW k \in K, NEW j \in K, k < j PROVE f[k] < f[j]
  <2>1. PICK t \in Timestamps(g[k]) : TRUE
    OBVIOUS
  <2>2. f[k] <= t /\ t < f[j] /\ t \in Nat /\ f[k] \in Nat /\ f[j] \in Nat
    BY <1>1, ChunkEnds, TimeFacts
  <2> QED BY <2>2
<1>2. ASSUME NEW k \in K, NEW j \in K, f[k] = f[j] PROVE k = j
  <2>1. k \in Nat /\ j \in Nat /\ f[k] \in Nat /\ f[j] \in Nat
    BY TimeFacts
  <2>2. ~(k < j) /\ ~(j < k)
    BY <1>1, <1>2, <2>1
  <2> QED BY <2>1, <2>2
<1>3. ASSUME NEW k \in K PROVE DictOf(pairs)[f[k]] = g[k]
  <2>1. <<f[k], g[k]>> \in pairs
    OBVIOUS
  <2>2. \A m \in pairs : m[1] = f[k] => m = <<f[k], g[k]>>
    BY <1>2
  <2>3. (CHOOSE m \in pairs : m[1] = f[k]) = <<f[k], g[k]>>
    BY <2>1, <2>2
  <2>4. f[k] \in Time /\ \E m \in pairs : m[1] = f[k]
    BY <2>1
  <2>5. DictOf(pairs)[f[k]] = (CHOOSE m \in pairs : m[1] = f[k])[2]
    BY <2>4, Zenon DEF DictOf
  <2>6. <<f[k], g[k]>>[2] = g[k]
    OBVIOUS
  <2> QED BY <2>3, <2>5, <2>6, Zenon
<1>4. ASSUME NEW n \in Time, DictOf(pairs)[n] # NoChunk PROVE \E k \in K : f[k] = n
  <2>1. \E m \in pairs : m[1] = n
    BY <1>4 DEF DictOf
  <2> QED BY <2>1
<1>5. IsDict(DictOf(pairs))
  <2>1. ASSUME NEW n \in Time PROVE DictOf(pairs)[n] \in Chunk \cup {NoChunk}
    BY <1>3, <1>4
  <2>2. DictOf(pairs) = [n \in Time |-> DictOf(pairs)[n]]
    BY DEF DictOf
  <2> QED BY <2>1, <2>2 DEF IsDict
<1> QED BY <1>3, <1>4, <1>5 DEF Holds

\* Chunks that lost samples, but not all of them, and moved to the key of their
\* first remaining sample: TS.DEL and loading.
LEMMA ShrinkHolds ==
  ASSUME NEW d, WellFormed(d), NoneEmpty(d), NEW K \in SUBSET KeysIn(d), K # {},
         NEW f \in [K -> Time], NEW g \in [K -> Chunk],
         \A k \in K : Timestamps(g[k]) # {} /\ Timestamps(g[k]) \subseteq Timestamps(d[k]),
         \A k \in K : \/ f[k] = GetFirstTimestamp(g[k])
                      \/ f[k] = k /\ GetFirstTimestamp(g[k]) = GetFirstTimestamp(d[k]),
         NEW pairs, pairs = {<<f[k], g[k]>> : k \in K}
  PROVE  Holds(DictOf(pairs), K, f, g)
<1>1. /\ IsDict(d) /\ InOrder(d) /\ WellKeyed(d) /\ KeysIn(d) \subseteq Time
      /\ K \in SUBSET Time
      /\ \A k \in KeysIn(d) : k \in Nat /\ d[k] \in Chunk /\ Timestamps(d[k]) # {}
  BY DictFacts, TimeFacts DEF WellFormed, NoneEmpty
<1>2. ASSUME NEW k \in K
      PROVE  /\ f[k] # 0 => f[k] \in Timestamps(g[k])
             /\ \A t \in Timestamps(g[k]) : f[k] <= t
             /\ k <= f[k]
  <2>1. /\ GetFirstTimestamp(g[k]) \in Timestamps(g[k])
        /\ \A t \in Timestamps(g[k]) : GetFirstTimestamp(g[k]) <= t /\ t \in Nat /\ k <= t
    BY <1>1, ChunkEnds, TimeFacts DEF InOrder
  <2>2. CASE f[k] = GetFirstTimestamp(g[k])
    BY <2>1, <2>2
  <2>3. CASE f[k] = k /\ GetFirstTimestamp(g[k]) = GetFirstTimestamp(d[k])
    <3>1. k # 0 => k \in Timestamps(d[k]) /\ \A t \in Timestamps(d[k]) : k <= t
      BY <1>1 DEF WellKeyed, InOrder
    <3>2. k # 0 => GetFirstTimestamp(d[k]) = k
      BY <3>1, FirstUnique
    <3> QED BY <1>1, <2>1, <2>3, <3>2
  <2> QED BY <2>2, <2>3
<1>3. ASSUME NEW k \in K, NEW j \in K, k < j, NEW t \in Timestamps(g[k]) PROVE t < f[j]
  <2>1. t < j /\ j <= f[j] /\ t \in Nat /\ j \in Nat /\ f[j] \in Nat
    BY <1>1, <1>2, <1>3, ChunkEnds, TimeFacts DEF InOrder
  <2> QED BY <2>1
<1>4. \A k, j \in K : k < j => \A t \in Timestamps(g[k]) : t < f[j]
  BY <1>3
<1> QED BY <1>1, <1>2, <1>4, DictOfHolds

----------------------------------------------------------------------------
(***************************************************************************)
(* SeriesDelRange.                                                         *)
(***************************************************************************)

\* The loop's early stop and its skips pass over no sample of the range, so
\* every chunk is left with exactly its samples outside it.
LEMMA RemainingFacts ==
  ASSUME WellFormed(chunks), NoneEmpty(chunks), NEW a \in Time, NEW b \in Time,
         NEW touched, touched = Touched(a, b), NEW k \in KeysIn(chunks),
         NEW r, r = Remaining(k, touched, a, b)
  PROVE  /\ r \in Chunk
         /\ Timestamps(r) = {u \in Timestamps(chunks[k]) : ~(a <= u /\ u <= b)}
         /\ \A u \in Timestamps(r) : r.samples[u] = chunks[k].samples[u]
         /\ (\E u \in Timestamps(chunks[k]) : a <= u /\ u <= b) => k \in touched
<1>1. /\ InOrder(chunks)
      /\ \A j \in KeysIn(chunks) : j \in Nat /\ chunks[j] \in Chunk /\ Timestamps(chunks[j]) # {}
      /\ a \in Nat /\ b \in Nat
  BY DictFacts, TimeFacts DEF WellFormed, NoneEmpty
<1>2. ASSUME NEW u \in Timestamps(chunks[k]), a <= u, u <= b PROVE k \in touched
  <2>1. /\ u <= GetLastTimestamp(chunks[k]) /\ u \in Nat
        /\ GetLastTimestamp(chunks[k]) \in Nat
    BY <1>1, ChunkEnds, TimeFacts
  <2>2. GetLastTimestamp(chunks[k]) >= a
    BY <1>1, <1>2, <2>1
  <2>3. ASSUME NEW j \in KeysIn(chunks), GetFirstTimestamp(chunks[j]) > b PROVE k < j
    <3>1. /\ GetFirstTimestamp(chunks[j]) \in Timestamps(chunks[j])
          /\ GetFirstTimestamp(chunks[j]) \in Nat
          /\ \A w \in Timestamps(chunks[j]) : GetFirstTimestamp(chunks[j]) <= w
      BY <1>1, ChunkEnds, TimeFacts
    <3>2. u < GetFirstTimestamp(chunks[j])
      BY <1>1, <1>2, <2>1, <2>3, <3>1
    <3>3. k # j
      <4>1. k = j => GetFirstTimestamp(chunks[j]) <= u
        BY <3>1
      <4> QED BY <2>1, <3>1, <3>2, <4>1
    <3>4. ~(j < k)
      <4>1. j < k => GetFirstTimestamp(chunks[j]) < k /\ k <= u
        BY <1>1, <3>1 DEF InOrder
      <4> QED BY <1>1, <2>1, <3>1, <3>2, <4>1
    <3> QED BY <1>1, <3>3, <3>4
  <2>4. k \in Reached(b)
    BY <1>1, <2>3 DEF Reached, Keys, KeysIn
  <2> QED BY <2>2, <2>4 DEF Touched
<1>3. CASE k \in touched
  BY <1>1, <1>3, DelRangeFacts DEF Remaining
<1>4. CASE k \notin touched
  BY <1>1, <1>2, <1>4 DEF Remaining
<1> QED BY <1>2, <1>3, <1>4

\* deletedSamples is the number of samples of the range.
LEMMA DeletedCount ==
  ASSUME WellFormed(chunks), NoneEmpty(chunks), NEW a \in Time, NEW b \in Time,
         NEW touched, touched = Touched(a, b)
  PROVE  Cardinality(Deleted(touched, a, b))
           = Cardinality({u \in AllTimestamps(chunks) : a <= u /\ u <= b})
<1> DEFINE P == Deleted(touched, a, b)
           T == {u \in AllTimestamps(chunks) : a <= u /\ u <= b}
<1>1. touched \subseteq KeysIn(chunks)
  BY DEF Touched, Reached, Keys, KeysIn
<1>2. ASSUME NEW p \in P
      PROVE  /\ p[1] \in KeysIn(chunks)
             /\ p[2] \in Timestamps(chunks[p[1]])
             /\ p[2] \in T
             /\ p = <<p[1], p[2]>>
  <2>1. PICK k \in touched : p \in {k} \X {u \in Timestamps(chunks[k]) : a <= u /\ u <= b}
    BY DEF Deleted
  <2>2. /\ p[1] = k /\ p = <<p[1], p[2]>>
        /\ p[2] \in Timestamps(chunks[k]) /\ a <= p[2] /\ p[2] <= b
    BY <2>1
  <2> QED BY <1>1, <2>2, ChunkEnds DEF AllTimestamps
<1>3. ASSUME NEW u \in T PROVE u \in Time /\ \E p \in P : p[2] = u
  <2>1. PICK k \in KeysIn(chunks) : u \in Timestamps(chunks[k])
    BY DEF AllTimestamps
  <2>2. k \in touched
    BY <2>1, RemainingFacts
  <2>3. <<k, u>> \in {k} \X {w \in Timestamps(chunks[k]) : a <= w /\ w <= b}
    BY <2>1
  <2>4. <<k, u>> \in P
    BY <2>2, <2>3 DEF Deleted
  <2>5. <<k, u>>[2] = u
    OBVIOUS
  <2> QED BY <2>4, <2>5 DEF AllTimestamps
<1> HIDE DEF P, T
<1>4. Cardinality(P) = Cardinality(T)
  BY <1>2, <1>3, PairsCount
<1> QED BY <1>4 DEF P, T

\* is_only_chunk is true exactly when every sample of the other chunks has been
\* deleted already.
LEMMA OnlyChunk ==
  ASSUME WellFormed(chunks), NoneEmpty(chunks),
         totalSamples = Cardinality(AllTimestamps(chunks)),
         NEW a \in Time, NEW b \in Time,
         NEW touched, touched = Touched(a, b), NEW k \in KeysIn(chunks)
  PROVE  IsOnlyChunk(k, touched, a, b) <=>
           \A u \in AllTimestamps(chunks) :
             u \in Timestamps(chunks[k]) \/ (a <= u /\ u <= b /\ u < k)
<1> DEFINE P == Deleted({j \in touched : j < k}, a, b)
           T == {u \in AllTimestamps(chunks) : a <= u /\ u <= b /\ u < k}
           S == Timestamps(chunks[k])
           A == AllTimestamps(chunks)
<1>1. /\ InOrder(chunks) /\ touched \subseteq KeysIn(chunks)
      /\ \A j \in KeysIn(chunks) : j \in Nat /\ j \in Time
  BY DictFacts, TimeFacts DEF WellFormed, Touched, Reached, Keys, KeysIn
<1>2. ASSUME NEW p \in P
      PROVE  /\ p[1] \in KeysIn(chunks)
             /\ p[2] \in Timestamps(chunks[p[1]])
             /\ p[2] \in T
             /\ p = <<p[1], p[2]>>
  <2>1. PICK j \in touched : j < k /\ p \in {j} \X {u \in Timestamps(chunks[j]) : a <= u /\ u <= b}
    BY DEF Deleted
  <2>2. /\ p[1] = j /\ p = <<p[1], p[2]>>
        /\ p[2] \in Timestamps(chunks[j]) /\ a <= p[2] /\ p[2] <= b
    BY <2>1
  <2>3. p[2] < k
    BY <1>1, <2>1, <2>2 DEF InOrder
  <2> QED BY <1>1, <2>2, <2>3, ChunkEnds DEF AllTimestamps
<1>3. ASSUME NEW u \in T PROVE u \in Time /\ \E p \in P : p[2] = u
  <2>1. PICK j \in KeysIn(chunks) : u \in Timestamps(chunks[j])
    BY DEF AllTimestamps
  <2>2. j \in touched
    BY <2>1, RemainingFacts
  <2>3. j < k
    <3>1. j <= u /\ u < k /\ u \in Nat /\ j \in Nat /\ k \in Nat
      BY <1>1, <2>1, ChunkEnds, TimeFacts DEF InOrder
    <3> QED BY <3>1
  <2>4. <<j, u>> \in {j} \X {w \in Timestamps(chunks[j]) : a <= w /\ w <= b}
    BY <2>1
  <2>5. <<j, u>> \in P
    BY <2>2, <2>3, <2>4 DEF Deleted
  <2>6. <<j, u>>[2] = u
    OBVIOUS
  <2> QED BY <2>5, <2>6 DEF AllTimestamps
<1>4. S \cap T = {} /\ S \cup T \in SUBSET A
  <2>1. \A u \in S : k <= u /\ u \in Nat /\ u \in A
    BY <1>1, ChunkEnds, TimeFacts DEF InOrder, AllTimestamps
  <2> QED BY <1>1, <2>1
<1>5. (\A u \in A : u \in S \/ (a <= u /\ u <= b /\ u < k)) <=> S \cup T = A
  BY <1>4
<1> HIDE DEF P, T, S, A
<1>6. IsFiniteSet(T) /\ Cardinality(P) = Cardinality(T)
  BY <1>2, <1>3, PairsCount
<1>7. IsFiniteSet(S) /\ IsFiniteSet(A)
  BY ChunkEnds, DictFacts DEF S, A, WellFormed
<1>8. Cardinality(S \cup T) = Cardinality(S) + Cardinality(T)
  <2>1. Cardinality(S \cup T) = Cardinality(S) + Cardinality(T) - Cardinality(S \cap T)
    BY <1>6, <1>7, FS_Union
  <2>2. Cardinality(S \cap T) = 0 /\ Cardinality(S) \in Nat /\ Cardinality(T) \in Nat
    BY <1>4, <1>6, <1>7, FS_EmptySet, FS_CardinalityType
  <2> QED BY <2>1, <2>2
<1>9. S \cup T = A <=> Cardinality(S) + Cardinality(T) = Cardinality(A)
  BY <1>4, <1>7, <1>8, FS_Subset
<1>10. IsOnlyChunk(k, touched, a, b) <=> Cardinality(S) + Cardinality(P) = Cardinality(A)
  BY DEF IsOnlyChunk, NumOfSample, P, S, A
<1> QED BY <1>5, <1>6, <1>9, <1>10 DEF S, A

\* A chunk is removed when its samples are all deleted, except the only one.
LEMMA RemovedFacts ==
  ASSUME WellFormed(chunks), NoneEmpty(chunks), NEW a \in Time, NEW b \in Time,
         NEW touched, touched = Touched(a, b), NEW k \in KeysIn(chunks)
  PROVE  k \in Removed(touched, a, b) <=>
           /\ \A u \in Timestamps(chunks[k]) : a <= u /\ u <= b
           /\ ~IsOnlyChunk(k, touched, a, b)
<1> DEFINE c == chunks[k]
<1>1. /\ GetFirstTimestamp(c) \in Timestamps(c) /\ GetLastTimestamp(c) \in Timestamps(c)
      /\ GetFirstTimestamp(c) \in Nat /\ GetLastTimestamp(c) \in Nat /\ a \in Nat /\ b \in Nat
      /\ \A u \in Timestamps(c) : /\ u \in Nat
                                  /\ GetFirstTimestamp(c) <= u
                                  /\ u <= GetLastTimestamp(c)
  BY ChunkEnds, TimeFacts DEF NoneEmpty
<1>2. (GetFirstTimestamp(c) >= a /\ GetLastTimestamp(c) <= b)
        <=> \A u \in Timestamps(c) : a <= u /\ u <= b
  <2>1. ASSUME GetFirstTimestamp(c) >= a, GetLastTimestamp(c) <= b, NEW u \in Timestamps(c)
        PROVE  a <= u /\ u <= b
    <3>1. u \in Nat /\ GetFirstTimestamp(c) <= u /\ u <= GetLastTimestamp(c)
      BY <1>1
    <3> QED BY <1>1, <2>1, <3>1
  <2>2. ASSUME \A u \in Timestamps(c) : a <= u /\ u <= b
        PROVE  GetFirstTimestamp(c) >= a /\ GetLastTimestamp(c) <= b
    <3>1. a <= GetFirstTimestamp(c) /\ GetLastTimestamp(c) <= b
      BY <1>1, <2>2
    <3> QED BY <1>1, <3>1
  <2> QED BY <2>1, <2>2
<1>3. (\A u \in Timestamps(c) : a <= u /\ u <= b) => k \in touched
  BY <1>1, RemainingFacts
<1> QED BY <1>2, <1>3 DEF Removed

\* TS.DEL never removes every chunk, and a chunk that it leaves empty is the
\* only one left of a series that has no samples any more.
LEMMA Survivors ==
  ASSUME WellFormed(chunks), NoneEmpty(chunks),
         totalSamples = Cardinality(AllTimestamps(chunks)),
         NEW last, IsLargest(KeysIn(chunks), last),
         NEW a \in Time, NEW b \in Time, NEW touched, touched = Touched(a, b),
         NEW K, K = KeysIn(chunks) \ Removed(touched, a, b)
  PROVE  /\ K # {}
         /\ \A k \in K : Timestamps(Remaining(k, touched, a, b)) = {} =>
              /\ K = {k}
              /\ \A u \in AllTimestamps(chunks) : a <= u /\ u <= b
<1>1. /\ InOrder(chunks)
      /\ \A j \in KeysIn(chunks) : /\ j \in Nat
                                   /\ Timestamps(chunks[j]) # {}
                                   /\ \A u \in Timestamps(chunks[j]) : u \in Nat /\ j <= u
  BY DictFacts, ChunkEnds, TimeFacts DEF WellFormed, NoneEmpty, InOrder
<1>2. ASSUME NEW i \in KeysIn(chunks), NEW j \in KeysIn(chunks), i # j,
             NEW u \in Timestamps(chunks[i])
      PROVE  u \notin Timestamps(chunks[j])
  <2>1. CASE i < j
    BY <1>1, <1>2, <2>1 DEF InOrder
  <2>2. CASE j < i
    BY <1>1, <1>2, <2>2 DEF InOrder
  <2> QED BY <1>1, <1>2, <2>1, <2>2
<1>3. last \in KeysIn(chunks) /\ \A j \in KeysIn(chunks) : j <= last
  BY DEF IsLargest
<1>4. K # {}
  <2> SUFFICES ASSUME K = {} PROVE FALSE
    OBVIOUS
  <2>1. \A j \in KeysIn(chunks) : \A u \in Timestamps(chunks[j]) : a <= u /\ u <= b
    BY RemovedFacts
  <2>2. ~IsOnlyChunk(last, touched, a, b)
    BY <1>3, RemovedFacts
  <2>3. PICK u \in AllTimestamps(chunks) :
          u \notin Timestamps(chunks[last]) /\ ~(a <= u /\ u <= b /\ u < last)
    BY <1>3, <2>2, OnlyChunk
  <2>4. PICK j \in KeysIn(chunks) : u \in Timestamps(chunks[j])
    BY DEF AllTimestamps
  <2>5. j # last /\ j < last
    BY <1>1, <1>3, <2>3, <2>4
  <2>6. u < last
    BY <1>1, <1>3, <2>4, <2>5 DEF InOrder
  <2> QED BY <2>1, <2>3, <2>4, <2>6
<1>5. ASSUME NEW k \in K, Timestamps(Remaining(k, touched, a, b)) = {}
      PROVE  K = {k} /\ \A u \in AllTimestamps(chunks) : a <= u /\ u <= b
  <2>1. k \in KeysIn(chunks) /\ \A u \in Timestamps(chunks[k]) : a <= u /\ u <= b
    BY <1>5, RemainingFacts
  <2>2. IsOnlyChunk(k, touched, a, b)
    BY <2>1, RemovedFacts
  <2>3. \A u \in AllTimestamps(chunks) :
          u \in Timestamps(chunks[k]) \/ (a <= u /\ u <= b /\ u < k)
    BY <2>1, <2>2, OnlyChunk
  <2>4. \A u \in AllTimestamps(chunks) : a <= u /\ u <= b
    BY <2>1, <2>3
  <2>5. ASSUME NEW j \in KeysIn(chunks), j # k PROVE j \notin K
    <3>1. \A u \in Timestamps(chunks[j]) : u \in AllTimestamps(chunks)
      BY ChunkEnds DEF AllTimestamps
    <3>2. \A u \in Timestamps(chunks[j]) : a <= u /\ u <= b
      BY <2>4, <3>1
    <3>3. j < k
      <4>1. PICK u \in Timestamps(chunks[j]) : TRUE
        BY <1>1
      <4>2. u < k /\ j <= u /\ u \in Nat
        BY <1>1, <1>2, <2>1, <2>3, <2>5, <3>1
      <4> QED BY <1>1, <2>1, <4>2
    <3>4. PICK w \in Timestamps(chunks[k]) : TRUE
      BY <1>1, <2>1
    <3>5. w \in AllTimestamps(chunks) /\ w \notin Timestamps(chunks[j]) /\ ~(w < j)
      <4>1. w \in AllTimestamps(chunks)
        BY <2>1, ChunkEnds DEF AllTimestamps
      <4>2. w \notin Timestamps(chunks[j])
        BY <1>2, <2>1, <2>5
      <4>3. k <= w /\ w \in Nat
        BY <1>1, <2>1
      <4> QED BY <1>1, <2>1, <3>3, <4>1, <4>2, <4>3
    <3>6. ~IsOnlyChunk(j, touched, a, b)
      BY <3>5, OnlyChunk
    <3> QED BY <3>2, <3>6, RemovedFacts
  <2> QED BY <1>5, <2>4, <2>5
<1> QED BY <1>4, <1>5

\* The state of the series, as Good describes it.
GoodSeries == Good(chunks, lastChunk, lastTimestamp, lastValue, totalSamples)

\* A dictionary with a single chunk, stored under 0.
LEMMA SingletonDict ==
  ASSUME NEW c \in Chunk, NEW e, e = DictOf({<<0, c>>})
  PROVE  IsDict(e) /\ KeysIn(e) = {0} /\ e[0] = c
<1>1. \A n \in Time : e[n] = IF n = 0 THEN c ELSE NoChunk
  <2> SUFFICES ASSUME NEW n \in Time PROVE e[n] = IF n = 0 THEN c ELSE NoChunk
    OBVIOUS
  <2> DEFINE pairs == {<<0, c>>}
  <2>1. e[n] = IF \E m \in pairs : m[1] = n THEN (CHOOSE m \in pairs : m[1] = n)[2] ELSE NoChunk
    BY DEF DictOf
  <2>2. (\E m \in pairs : m[1] = n) <=> n = 0
    OBVIOUS
  <2>3. n = 0 => (CHOOSE m \in pairs : m[1] = n) = <<0, c>>
    OBVIOUS
  <2>4. <<0, c>>[2] = c
    OBVIOUS
  <2> HIDE DEF pairs
  <2> QED BY <2>1, <2>2, <2>3, <2>4, Zenon
<1>2. e = [n \in Time |-> e[n]]
  BY DEF DictOf
<1> QED BY <1>1, <1>2, ChunkFields, TimeFacts DEF IsDict, KeysIn

\* A series whose only chunk is empty is good with no samples.
LEMMA EmptyGood ==
  ASSUME NEW e, IsDict(e), KeysIn(e) = {0}, Timestamps(e[0]) = {}
  PROVE  /\ Good(e, 0, 0, 0, 0)
         /\ AllTimestamps(e) = {}
<1>1. AllTimestamps(e) = {}
  BY DEF AllTimestamps
<1>2. InOrder(e) /\ WellKeyed(e) /\ IsEmptySeries(e) /\ IsLargest(KeysIn(e), 0)
  BY DEF InOrder, WellKeyed, IsEmptySeries, IsLargest
<1> QED BY <1>1, <1>2, FS_EmptySet DEF Good, WellFormed

\* TS.DEL on an empty series changes nothing.
LEMMA DelRangeOfEmpty ==
  ASSUME GoodSeries, AllTimestamps(chunks) = {}, NEW a \in Time, NEW b \in Time,
         DelRange(a, b)
  PROVE  GoodSeries' /\ Emptied(chunks, chunks', a, b)
<1> DEFINE touched == Touched(a, b)
           removed == Removed(touched, a, b)
           moved == Moved(touched, removed, a, b)
           end == Largest({m[1] : m \in moved})
<1>1. /\ KeysIn(chunks) = {0} /\ Timestamps(chunks[0]) = {} /\ lastChunk = 0
      /\ lastTimestamp = 0 /\ lastValue = 0 /\ totalSamples = 0
  BY EmptySeries DEF GoodSeries, IsEmptySeries
<1>2. chunks[0] \in Chunk
  BY <1>1, DictFacts DEF GoodSeries, Good, WellFormed
<1>3. Keys = {0}
  BY <1>1 DEF Keys, KeysIn
<1>4. touched = {}
  BY <1>1, <1>3 DEF Touched, Reached
<1>5. removed = {}
  BY <1>4 DEF Removed
<1>6. NewKey(0, touched, a, b) = 0 /\ Remaining(0, touched, a, b) = chunks[0]
  BY <1>4 DEF NewKey, Remaining, KeyAfter
<1>7. moved = {<<0, chunks[0]>>}
  BY <1>3, <1>5, <1>6 DEF Moved
<1>8. {m[1] : m \in moved} = {0}
  BY <1>7
<1> HIDE DEF moved, removed, touched
<1>9. end = 0
  BY <1>8, TimeFacts, LargestProperty
<1>10. IsDict(DictOf(moved)) /\ KeysIn(DictOf(moved)) = {0} /\ DictOf(moved)[0] = chunks[0]
  BY <1>2, <1>7, SingletonDict
<1>11. Cardinality(Deleted(touched, a, b)) = 0
  BY <1>4, FS_EmptySet DEF Deleted
<1>12. /\ chunks' = DictOf(moved) /\ lastChunk' = 0 /\ totalSamples' = 0
       /\ lastTimestamp' = 0 /\ lastValue' = 0
  <2>1. /\ chunks' = DictOf(moved)
        /\ totalSamples' = totalSamples - Cardinality(Deleted(touched, a, b))
        /\ lastChunk' = IF lastChunk \in removed THEN end ELSE NewKey(lastChunk, touched, a, b)
        /\ \/ Timestamps(DictOf(moved)[end]) = {} => lastTimestamp' = 0 /\ lastValue' = 0
           \/ UNCHANGED <<lastTimestamp, lastValue>>
    BY DEF DelRange, moved, removed, touched
  <2>2. lastChunk' = 0
    BY <1>1, <1>5, <1>6, <2>1
  <2>3. lastTimestamp' = 0 /\ lastValue' = 0
    BY <1>1, <1>9, <1>10, <2>1
  <2> QED BY <1>1, <1>11, <2>1, <2>2, <2>3
<1> DEFINE e == DictOf(moved)
<1>13. chunks' = e
  BY <1>12
<1> HIDE DEF e
<1>14. Good(e, 0, 0, 0, 0) /\ AllTimestamps(e) = {}
  BY <1>1, <1>10, EmptyGood DEF e
<1>15. GoodSeries'
  BY <1>12, <1>13, <1>14 DEF GoodSeries
<1>16. \A u \in Time : ValueAt(e, u) = NoValue /\ ValueAt(chunks, u) = NoValue
  BY <1>14 DEF ValueAt
<1> QED BY <1>13, <1>15, <1>16 DEF Emptied

\* TS.DEL of every sample leaves one empty chunk, stored under 0.
LEMMA DelRangeOfAll ==
  ASSUME GoodSeries, AllTimestamps(chunks) # {}, NEW a \in Time, NEW b \in Time,
         DelRange(a, b),
         NEW k \in KeysIn(chunks) \ Removed(Touched(a, b), a, b),
         Timestamps(Remaining(k, Touched(a, b), a, b)) = {}
  PROVE  GoodSeries' /\ Emptied(chunks, chunks', a, b)
<1> DEFINE touched == Touched(a, b)
           removed == Removed(touched, a, b)
           moved == Moved(touched, removed, a, b)
           end == Largest({m[1] : m \in moved})
           r == Remaining(k, touched, a, b)
<1>1. /\ WellFormed(chunks) /\ NoneEmpty(chunks) /\ IsDict(chunks)
      /\ IsLargest(KeysIn(chunks), lastChunk)
      /\ totalSamples = Cardinality(AllTimestamps(chunks))
      /\ lastTimestamp \in AllTimestamps(chunks)
  BY NonEmptySeries DEF GoodSeries, Good, WellFormed, AllTimestamps
<1>2. /\ KeysIn(chunks) \ removed = {k}
      /\ \A u \in AllTimestamps(chunks) : a <= u /\ u <= b
  BY <1>1, Survivors
<1>3. r \in Chunk /\ Timestamps(r) = {}
  BY <1>1, RemainingFacts
<1>4. NewKey(k, touched, a, b) = 0
  <2>1. GetFirstTimestamp(r) = 0
    BY <1>3, ChunkEnds
  <2>2. CASE GetFirstTimestamp(chunks[k]) # 0
    BY <2>1, <2>2 DEF NewKey, KeyAfter
  <2>3. CASE GetFirstTimestamp(chunks[k]) = 0
    <3>1. k # 0 => GetFirstTimestamp(chunks[k]) = k
      <4>1. k # 0 => k \in Timestamps(chunks[k]) /\ \A u \in Timestamps(chunks[k]) : k <= u
        BY <1>1 DEF WellFormed, WellKeyed, InOrder
      <4> QED BY <4>1, FirstUnique
    <3> QED BY <2>1, <2>3, <3>1 DEF NewKey, KeyAfter
  <2> QED BY <2>2, <2>3
<1>5. Keys = KeysIn(chunks)
  BY DEF Keys, KeysIn
<1>6. moved = {<<0, r>>}
  BY <1>2, <1>4, <1>5 DEF Moved
<1>7. {m[1] : m \in moved} = {0}
  BY <1>6
<1>8. lastChunk \in KeysIn(chunks)
  BY <1>1 DEF IsLargest
<1>9. lastChunk \notin removed => lastChunk = k
  BY <1>2, <1>8
<1> HIDE DEF moved, removed, touched, r
<1>10. end = 0
  BY <1>7, TimeFacts, LargestProperty
<1>11. IsDict(DictOf(moved)) /\ KeysIn(DictOf(moved)) = {0} /\ DictOf(moved)[0] = r
  BY <1>3, <1>6, SingletonDict
<1>12. Cardinality(Deleted(touched, a, b)) = totalSamples /\ totalSamples \in Nat
  <2>1. {u \in AllTimestamps(chunks) : a <= u /\ u <= b} = AllTimestamps(chunks)
    BY <1>2
  <2> QED BY <1>1, <2>1, DeletedCount, DictFacts DEF touched
<1>13. /\ chunks' = DictOf(moved) /\ lastChunk' = 0 /\ totalSamples' = 0
       /\ lastTimestamp' = 0 /\ lastValue' = 0
  <2>1. a <= lastTimestamp /\ lastTimestamp <= b
    BY <1>1, <1>2
  <2>2. /\ chunks' = DictOf(moved)
        /\ totalSamples' = totalSamples - Cardinality(Deleted(touched, a, b))
        /\ lastChunk' = IF lastChunk \in removed THEN end ELSE NewKey(lastChunk, touched, a, b)
        /\ Timestamps(DictOf(moved)[end]) = {} => lastTimestamp' = 0 /\ lastValue' = 0
    BY <2>1 DEF DelRange, moved, removed, touched
  <2>3. lastChunk' = 0
    BY <1>4, <1>9, <1>10, <2>2
  <2>4. lastTimestamp' = 0 /\ lastValue' = 0
    BY <1>3, <1>10, <1>11, <2>2
  <2> QED BY <1>12, <2>2, <2>3, <2>4
<1> DEFINE e == DictOf(moved)
<1>14. chunks' = e
  BY <1>13
<1> HIDE DEF e
<1>15. Good(e, 0, 0, 0, 0) /\ AllTimestamps(e) = {}
  BY <1>3, <1>11, EmptyGood DEF e
<1>16. GoodSeries'
  BY <1>13, <1>14, <1>15 DEF GoodSeries
<1>17. ASSUME NEW u \in Time
       PROVE  ValueAt(e, u) = NoValue /\ (~(a <= u /\ u <= b) => ValueAt(chunks, u) = NoValue)
  BY <1>2, <1>15 DEF ValueAt
<1> QED BY <1>14, <1>16, <1>17 DEF Emptied

\* The largest element of a set of timestamps is unique.
LEMMA LargestUnique ==
  ASSUME NEW T \in SUBSET Time, NEW m, IsLargest(T, m)
  PROVE  Largest(T) = m
<1>1. Largest(T) \in T /\ m <= Largest(T) /\ Largest(T) <= m /\ m \in T
  BY LargestProperty DEF IsLargest
<1>2. Largest(T) \in Nat /\ m \in Nat
  BY <1>1, TimeFacts
<1> QED BY <1>1, <1>2

\* TS.DEL that leaves samples.
LEMMA DelRangeOfSome ==
  ASSUME GoodSeries, AllTimestamps(chunks) # {}, NEW a \in Time, NEW b \in Time,
         DelRange(a, b),
         \A k \in KeysIn(chunks) \ Removed(Touched(a, b), a, b) :
           Timestamps(Remaining(k, Touched(a, b), a, b)) # {}
  PROVE  GoodSeries' /\ Emptied(chunks, chunks', a, b)
<1> DEFINE touched == Touched(a, b)
           removed == Removed(touched, a, b)
           moved == Moved(touched, removed, a, b)
           end == Largest({m[1] : m \in moved})
           K == KeysIn(chunks) \ removed
           f == [k \in K |-> NewKey(k, touched, a, b)]
           g == [k \in K |-> Remaining(k, touched, a, b)]
           e == DictOf(moved)
           D == {u \in AllTimestamps(chunks) : a <= u /\ u <= b}
<1>1. /\ WellFormed(chunks) /\ NoneEmpty(chunks) /\ IsDict(chunks)
      /\ IsLargest(KeysIn(chunks), lastChunk)
      /\ lastChunk \in KeysIn(chunks) /\ lastTimestamp \in Time
      /\ lastTimestamp \in Timestamps(chunks[lastChunk])
      /\ \A u \in Timestamps(chunks[lastChunk]) : u <= lastTimestamp
      /\ lastValue = chunks[lastChunk].samples[lastTimestamp]
      /\ totalSamples = Cardinality(AllTimestamps(chunks))
      /\ totalSamples \in Nat
      /\ KeysIn(chunks) \subseteq Time
      /\ \A k \in KeysIn(chunks) : chunks[k] \in Chunk
      /\ Keys = KeysIn(chunks)
  BY NonEmptySeries, DictFacts DEF GoodSeries, Good, WellFormed, Keys, KeysIn
<1>2. K # {} /\ K \in SUBSET KeysIn(chunks) /\ K \in SUBSET Time
  BY <1>1, Survivors
<1>3. ASSUME NEW k \in K
      PROVE  /\ g[k] \in Chunk
             /\ Timestamps(g[k]) = {u \in Timestamps(chunks[k]) : ~(a <= u /\ u <= b)}
             /\ Timestamps(g[k]) # {}
             /\ \A u \in Timestamps(g[k]) : g[k].samples[u] = chunks[k].samples[u]
  BY <1>1, RemainingFacts
<1>4. ASSUME NEW k \in K
      PROVE  /\ f[k] \in Time
             /\ \/ f[k] = GetFirstTimestamp(g[k])
                \/ f[k] = k /\ GetFirstTimestamp(g[k]) = GetFirstTimestamp(chunks[k])
  BY <1>2, <1>3, ChunkEnds, TimeFacts DEF NewKey, KeyAfter
<1>5. moved = {<<f[k], g[k]>> : k \in K}
  BY <1>1 DEF Moved
<1>6. f \in [K -> Time] /\ g \in [K -> Chunk]
  BY <1>3, <1>4
<1>7. \A k \in removed : \A u \in Timestamps(chunks[k]) : a <= u /\ u <= b
  BY <1>1, RemovedFacts DEF Removed, Touched, Reached
<1>8. f = [k \in K |-> NewKey(k, touched, a, b)]
  OBVIOUS
<1> HIDE DEF f, g, moved
<1>9. Holds(e, K, f, g)
  <2>1. \A k \in K : Timestamps(g[k]) # {} /\ Timestamps(g[k]) \subseteq Timestamps(chunks[k])
    BY <1>3
  <2> HIDE DEF K
  <2> QED BY <1>1, <1>2, <1>4, <1>5, <1>6, <2>1, ShrinkHolds
<1>10. /\ WellFormed(e) /\ NoneEmpty(e)
       /\ KeysIn(e) = {f[k] : k \in K}
       /\ AllTimestamps(e) = {t \in Time : \E k \in K : t \in Timestamps(g[k])}
       /\ \A m \in K : IsLargest(K, m) => IsLargest(KeysIn(e), f[m])
       /\ \A k \in K : e[f[k]] = g[k]
  <2>1. \A k \in K : e[f[k]] = g[k]
    BY <1>9 DEF Holds
  <2> HIDE DEF e, K
  <2> QED BY ONLY <1>9, <2>1, Rekey
<1> HIDE DEF e
<1>11. {m[1] : m \in moved} = KeysIn(e)
  <2> HIDE DEF K
  <2>1. ASSUME NEW k \in K PROVE f[k] \in {m[1] : m \in moved}
    <3>1. <<f[k], g[k]>> \in moved /\ <<f[k], g[k]>>[1] = f[k]
      BY <1>5
    <3> QED BY <3>1
  <2>2. ASSUME NEW m \in moved PROVE m[1] \in {f[k] : k \in K}
    <3>1. PICK k \in K : m = <<f[k], g[k]>>
      BY <1>5
    <3> QED BY <3>1
  <2> QED BY <1>10, <2>1, <2>2
<1>12. /\ KeysIn(e) \in SUBSET Time /\ KeysIn(e) # {} /\ IsDict(e)
       /\ \A k \in KeysIn(e) : e[k] \in Chunk /\ Timestamps(e[k]) # {}
  BY <1>10, DictFacts DEF WellFormed, NoneEmpty
<1>13. IsLargest(KeysIn(e), end)
  BY <1>11, <1>12, LargestProperty DEF IsLargest
<1>14. lastChunk \notin removed =>
         IsLargest(KeysIn(e), f[lastChunk]) /\ end = f[lastChunk] /\ lastChunk \in K
  <2> SUFFICES ASSUME lastChunk \notin removed
               PROVE  IsLargest(KeysIn(e), f[lastChunk]) /\ end = f[lastChunk] /\ lastChunk \in K
    OBVIOUS
  <2>1. lastChunk \in K /\ IsLargest(K, lastChunk)
    BY <1>1 DEF IsLargest
  <2>2. IsLargest(KeysIn(e), f[lastChunk])
    BY <1>10, <2>1
  <2> QED BY <1>11, <1>12, <2>1, <2>2, LargestUnique
<1>15. /\ chunks' = e
       /\ totalSamples' = totalSamples - Cardinality(Deleted(touched, a, b))
       /\ lastChunk' = IF lastChunk \in removed THEN end ELSE NewKey(lastChunk, touched, a, b)
       /\ IF a <= lastTimestamp /\ lastTimestamp <= b
          THEN Timestamps(e[end]) # {} =>
                 lastTimestamp' = GetLastTimestamp(e[end]) /\ lastValue' = GetLastValue(e[end])
          ELSE UNCHANGED <<lastTimestamp, lastValue>>
  BY DEF DelRange, moved, e
<1>16. lastChunk' = end
  BY <1>8, <1>14, <1>15
<1>17. AllTimestamps(e) = AllTimestamps(chunks) \ D
  <2>1. ASSUME NEW u \in AllTimestamps(chunks) \ D PROVE u \in AllTimestamps(e)
    <3>1. PICK k \in KeysIn(chunks) : u \in Timestamps(chunks[k])
      BY DEF AllTimestamps
    <3>2. k \notin removed
      BY <1>7, <3>1
    <3> QED BY <1>3, <1>10, <3>1, <3>2 DEF AllTimestamps
  <2>2. ASSUME NEW u \in AllTimestamps(e) PROVE u \in AllTimestamps(chunks) \ D
    <3>1. PICK k \in K : u \in Timestamps(g[k])
      BY <1>10
    <3> QED BY <1>2, <1>3, <3>1, ChunkEnds DEF AllTimestamps
  <2> QED BY <2>1, <2>2
<1>18. totalSamples' = Cardinality(AllTimestamps(e))
  <2>1. D \in SUBSET AllTimestamps(chunks) /\ AllTimestamps(chunks) \cap D = D
    OBVIOUS
  <2>2. IsFiniteSet(AllTimestamps(chunks)) /\ Cardinality(Deleted(touched, a, b)) = Cardinality(D)
    BY <1>1, DictFacts, DeletedCount
  <2> HIDE DEF D
  <2>3. Cardinality(AllTimestamps(chunks) \ D) = totalSamples - Cardinality(D)
    <3>1. Cardinality(AllTimestamps(chunks) \ D)
            = Cardinality(AllTimestamps(chunks)) - Cardinality(AllTimestamps(chunks) \cap D)
      BY <2>2, FS_Difference
    <3> QED BY <1>1, <2>1, <3>1
  <2> QED BY <1>15, <1>17, <2>2, <2>3
<1>19. AllTimestamps(e) # {}
  BY <1>12, ChunkEnds DEF AllTimestamps
<1>20. IsLargest(Timestamps(e[end]), lastTimestamp') /\ lastValue' = e[end].samples[lastTimestamp']
  <2>1. CASE a <= lastTimestamp /\ lastTimestamp <= b
    <3>1. /\ Timestamps(e[end]) # {}
          /\ lastTimestamp' = GetLastTimestamp(e[end]) /\ lastValue' = GetLastValue(e[end])
      BY <1>12, <1>13, <1>15, <2>1 DEF IsLargest
    <3> QED BY <3>1, ChunkEnds DEF IsLargest, GetLastValue
  <2>2. CASE ~(a <= lastTimestamp /\ lastTimestamp <= b)
    <3>1. lastTimestamp' = lastTimestamp /\ lastValue' = lastValue
      BY <1>15, <2>2
    <3>2. lastChunk \in K /\ e[end] = g[lastChunk]
      BY <1>1, <1>7, <1>10, <1>14, <2>2
    <3>3. lastTimestamp \in Timestamps(g[lastChunk])
      BY <1>1, <1>3, <2>2, <3>2
    <3> QED BY <1>1, <1>3, <3>1, <3>2, <3>3 DEF IsLargest
  <2> QED BY <2>1, <2>2
<1>21. Good(e, end, lastTimestamp', lastValue', totalSamples')
  BY <1>10, <1>13, <1>18, <1>19, <1>20 DEF Good
<1>22. ASSUME NEW u \in Time
       PROVE  ValueAt(e, u) = IF a <= u /\ u <= b THEN NoValue ELSE ValueAt(chunks, u)
  <2>1. CASE a <= u /\ u <= b
    BY <1>17, <2>1 DEF ValueAt
  <2>2. CASE ~(a <= u /\ u <= b)
    <3>1. ASSUME NEW k \in KeysIn(chunks), u \in Timestamps(chunks[k])
          PROVE  \E j \in KeysIn(e) : u \in Timestamps(e[j]) /\ e[j].samples[u] = chunks[k].samples[u]
      <4>1. k \in K
        BY <1>7, <2>2, <3>1
      <4>2. f[k] \in KeysIn(e) /\ e[f[k]] = g[k]
        BY <1>10, <4>1
      <4>3. u \in Timestamps(g[k]) /\ g[k].samples[u] = chunks[k].samples[u]
        BY <1>3, <2>2, <3>1, <4>1
      <4> QED BY <4>2, <4>3
    <3>2. u \in AllTimestamps(e) => u \in AllTimestamps(chunks)
      BY <1>17
    <3> QED BY <1>1, <1>10, <2>2, <3>1, <3>2, SameValue
  <2> QED BY <2>1, <2>2
<1> QED BY <1>15, <1>16, <1>21, <1>22 DEF GoodSeries, Emptied

\* TS.DEL keeps the series good.
LEMMA DelRangeGood ==
  ASSUME GoodSeries, NEW a \in Time, NEW b \in Time, DelRange(a, b)
  PROVE  GoodSeries' /\ Emptied(chunks, chunks', a, b)
<1>1. CASE AllTimestamps(chunks) = {}
  BY <1>1, DelRangeOfEmpty
<1>2. CASE /\ AllTimestamps(chunks) # {}
           /\ \E k \in KeysIn(chunks) \ Removed(Touched(a, b), a, b) :
                Timestamps(Remaining(k, Touched(a, b), a, b)) = {}
  BY <1>2, DelRangeOfAll
<1>3. CASE /\ AllTimestamps(chunks) # {}
           /\ \A k \in KeysIn(chunks) \ Removed(Touched(a, b), a, b) :
                Timestamps(Remaining(k, Touched(a, b), a, b)) # {}
  BY <1>3, DelRangeOfSome
<1> QED BY <1>1, <1>2, <1>3

----------------------------------------------------------------------------
(***************************************************************************)
(* Saving and loading.                                                     *)
(***************************************************************************)

\* Loading stores every chunk under its first timestamp and keeps the series
\* good.
LEMMA ReloadGood ==
  ASSUME GoodSeries, Reload
  PROVE  GoodSeries' /\ SameValues(chunks, chunks')
<1> DEFINE loaded == {<<GetFirstTimestamp(chunks[k]), chunks[k]>> : k \in Keys}
           e == DictOf(loaded)
           end == Largest({m[1] : m \in loaded})
<1>1. /\ chunks' = e /\ lastChunk' = end
      /\ lastTimestamp' = lastTimestamp /\ lastValue' = lastValue
      /\ totalSamples' = totalSamples
  BY DEF Reload
<1>2. /\ Keys = KeysIn(chunks) /\ IsDict(chunks) /\ KeysIn(chunks) \subseteq Time
      /\ \A k \in KeysIn(chunks) : chunks[k] \in Chunk
      /\ WellFormed(chunks) /\ IsLargest(KeysIn(chunks), lastChunk)
      /\ totalSamples = Cardinality(AllTimestamps(chunks))
  BY DictFacts DEF GoodSeries, Good, WellFormed, Keys, KeysIn
<1>3. CASE AllTimestamps(chunks) = {}
  <2>1. /\ KeysIn(chunks) = {0} /\ Timestamps(chunks[0]) = {}
        /\ lastTimestamp = 0 /\ lastValue = 0 /\ totalSamples = 0
    BY <1>3, EmptySeries DEF GoodSeries, IsEmptySeries
  <2>2. GetFirstTimestamp(chunks[0]) = 0
    BY <2>1, ChunkEnds
  <2>3. loaded = {<<0, chunks[0]>>}
    BY <1>2, <2>1, <2>2
  <2> HIDE DEF loaded
  <2>4. {m[1] : m \in loaded} = {0}
    BY <2>3
  <2>5. end = 0
    BY <2>4, TimeFacts, LargestProperty
  <2>6. IsDict(e) /\ KeysIn(e) = {0} /\ e[0] = chunks[0]
    BY <1>2, <2>1, <2>3, SingletonDict
  <2> HIDE DEF e
  <2>7. GoodSeries'
    BY <1>1, <2>1, <2>5, <2>6, EmptyGood DEF GoodSeries
  <2>8. AllTimestamps(e) = {}
    BY <2>1, <2>6, EmptyGood
  <2> QED BY <1>1, <1>3, <2>7, <2>8 DEF SameValues, ValueAt
<1>4. CASE AllTimestamps(chunks) # {}
  <2> DEFINE K == KeysIn(chunks)
             g == [k \in K |-> chunks[k]]
             f == [k \in K |-> GetFirstTimestamp(chunks[k])]
  <2>1. /\ NoneEmpty(chunks) /\ lastChunk \in K
        /\ IsLargest(Timestamps(chunks[lastChunk]), lastTimestamp)
        /\ lastValue = chunks[lastChunk].samples[lastTimestamp]
    BY <1>4, NonEmptySeries DEF GoodSeries, Good
  <2>2. K \in SUBSET KeysIn(chunks) /\ K # {} /\ f \in [K -> Time] /\ g \in [K -> Chunk]
    BY <1>2, <2>1, ChunkEnds DEF NoneEmpty
  <2>3. \A k \in K : /\ Timestamps(g[k]) # {} /\ Timestamps(g[k]) \subseteq Timestamps(chunks[k])
                     /\ f[k] = GetFirstTimestamp(g[k]) /\ g[k] = chunks[k]
    BY <2>1 DEF NoneEmpty
  <2>4. loaded = {<<f[k], g[k]>> : k \in K}
    BY <1>2
  <2> HIDE DEF K, f, g, loaded
  <2>5. Holds(e, K, f, g)
    BY <1>2, <2>1, <2>2, <2>3, <2>4, ShrinkHolds
  <2> HIDE DEF e
  <2>6. /\ WellFormed(e) /\ KeysIn(e) = {f[k] : k \in K}
        /\ AllTimestamps(e) = {t \in Time : \E k \in K : t \in Timestamps(g[k])}
        /\ \A m \in K : IsLargest(K, m) => IsLargest(KeysIn(e), f[m])
    BY ONLY <2>5, Rekey
  <2>7. \A k \in K : e[f[k]] = chunks[k]
    BY <2>3, <2>5 DEF Holds
  <2>8. {m[1] : m \in loaded} = KeysIn(e)
    <3>1. ASSUME NEW k \in K PROVE f[k] \in {m[1] : m \in loaded}
      <4>1. <<f[k], g[k]>> \in loaded /\ <<f[k], g[k]>>[1] = f[k]
        BY <2>4
      <4> QED BY <4>1
    <3>2. ASSUME NEW m \in loaded PROVE m[1] \in {f[k] : k \in K}
      <4>1. PICK k \in K : m = <<f[k], g[k]>>
        BY <2>4
      <4> QED BY <4>1
    <3> QED BY <2>6, <3>1, <3>2
  <2>9. IsLargest(KeysIn(e), f[lastChunk])
    BY <1>2, <2>1, <2>6 DEF K
  <2>10. KeysIn(e) \in SUBSET Time
    BY DEF KeysIn
  <2>11. end = f[lastChunk]
    BY <2>8, <2>9, <2>10, LargestUnique
  <2>12. AllTimestamps(e) = AllTimestamps(chunks)
    BY <2>3, <2>6 DEF AllTimestamps, K
  <2>13. Good(e, end, lastTimestamp, lastValue, totalSamples)
    BY <1>2, <1>4, <2>1, <2>6, <2>7, <2>9, <2>11, <2>12 DEF Good
  <2>14. ASSUME NEW u \in Time PROVE ValueAt(e, u) = ValueAt(chunks, u)
    <3>1. ASSUME NEW k \in KeysIn(chunks), u \in Timestamps(chunks[k])
          PROVE  \E j \in KeysIn(e) : u \in Timestamps(e[j]) /\ e[j].samples[u] = chunks[k].samples[u]
      <4>1. k \in K /\ f[k] \in KeysIn(e) /\ e[f[k]] = chunks[k]
        BY <2>6, <2>7 DEF K
      <4> QED BY <3>1, <4>1
    <3> QED BY <1>2, <2>6, <2>12, <3>1, SameValue
  <2> QED BY <1>1, <2>13, <2>14 DEF GoodSeries, SameValues
<1> QED BY <1>3, <1>4

----------------------------------------------------------------------------
(***************************************************************************)
(* SeriesAddSample.                                                        *)
(***************************************************************************)

\* The retention rule never drops the chunk of the newest sample.
LEMMA LastNotTrimmed ==
  ASSUME GoodSeries, AllTimestamps(chunks) # {}, retentionTime \in Nat
  PROVE  ~Trimmed(lastChunk)
<1>1. /\ lastChunk \in KeysIn(chunks) /\ lastTimestamp \in Nat /\ lastChunk \in Nat
      /\ GetLastTimestamp(chunks[lastChunk]) \in Nat
      /\ lastTimestamp <= GetLastTimestamp(chunks[lastChunk])
  BY NonEmptySeries, ChunkEnds, TimeFacts DEF GoodSeries
<1>2. MinTimestamp \in Nat /\ MinTimestamp <= lastTimestamp
  BY <1>1 DEF MinTimestamp
<1>3. ~(GetLastTimestamp(chunks[lastChunk]) < MinTimestamp)
  BY <1>1, <1>2
<1> QED BY <1>1, <1>3 DEF Trimmed, Keys, KeysIn

\* An append keeps the series good, whether or not it opens a new chunk.
LEMMA SeriesAddSampleGood ==
  ASSUME GoodSeries, NEW t \in Time, NEW v \in Value,
         AllTimestamps(chunks) # {} => lastTimestamp < t,
         retentionTime \in Nat, chunkSize \in Nat \ {0},
         SeriesAddSample(t, v)
  PROVE  /\ GoodSeries'
         /\ ValueAt(chunks', t) = v
         /\ \A u \in Time \ {t} :
              \/ ValueAt(chunks', u) = ValueAt(chunks, u)
              \/ /\ ValueAt(chunks', u) = NoValue
                 /\ \E k \in KeysIn(chunks) : Trimmed(k) /\ u \in Timestamps(chunks[k])
<1>1. lastTimestamp' = t /\ lastValue' = v
  BY DEF SeriesAddSample
<1>2. CASE AppendToLast(t, v)
  <2>1. /\ chunks' = [chunks EXCEPT ![lastChunk] = WithSample(@, t, v)]
        /\ totalSamples' = totalSamples + 1 /\ lastChunk' = lastChunk
    BY <1>2 DEF AppendToLast
  <2>2. /\ Good([chunks EXCEPT ![lastChunk] = WithSample(@, t, v)], lastChunk, t, v, totalSamples + 1)
        /\ Written(chunks, [chunks EXCEPT ![lastChunk] = WithSample(@, t, v)], t, v)
    BY AppendToLastGood DEF GoodSeries
  <2>3. GoodSeries' /\ Written(chunks, chunks', t, v)
    BY <1>1, <2>1, <2>2 DEF GoodSeries
  <2> QED BY <2>3 DEF Written
<1>3. CASE AppendToNew(t, v)
  <2> DEFINE c == WithSample(NewChunk(chunkSize), t, v)
             R == {k \in KeysIn(chunks) : Trimmed(k)}
             X == {u \in Time : \E k \in R : u \in Timestamps(chunks[k])}
             P == {p \in Entries : Trimmed(p[1])}
  <2>1. /\ TRUE \in AddSampleEnds(chunks[lastChunk])
        /\ chunks' = DictSet(SeriesTrim, t, c)
        /\ totalSamples' = totalSamples - Cardinality(P) + 1
        /\ lastChunk' = t
    BY <1>3 DEF AppendToNew
  <2>2. AllTimestamps(chunks) # {}
    <3> SUFFICES ASSUME AllTimestamps(chunks) = {} PROVE FALSE
      OBVIOUS
    <3>1. lastChunk = 0 /\ Timestamps(chunks[0]) = {} /\ chunks[0] \in Chunk
      BY EmptySeries, DictFacts DEF GoodSeries, Good, WellFormed, IsEmptySeries
    <3>2. NumOfSample(chunks[0]) = 0 /\ chunks[0].size # 0
      BY <3>1, ChunkFields, FS_EmptySet DEF NumOfSample
    <3> QED BY <2>1, <3>1, <3>2 DEF AddSampleEnds
  <2>3. lastChunk \notin R
    BY <2>2, LastNotTrimmed
  <2>4. c \in Chunk /\ Timestamps(c) = {t} /\ c.samples[t] = v
    BY NewChunkFacts, WithSampleFacts
  <2>5. SeriesTrim = [k \in Time |-> IF k \in R THEN NoChunk ELSE chunks[k]]
    BY DEF SeriesTrim, Keys, KeysIn
  <2>6. ASSUME NEW p \in P
        PROVE  /\ p[1] \in KeysIn(chunks)
               /\ p[2] \in Timestamps(chunks[p[1]])
               /\ p[2] \in X
               /\ p = <<p[1], p[2]>>
    <3>1. PICK k \in KeysIn(chunks) : p \in {k} \X Timestamps(chunks[k])
      BY DEF Entries, Keys, KeysIn
    <3>2. p[1] = k /\ p = <<p[1], p[2]>> /\ p[2] \in Timestamps(chunks[k])
      BY <3>1
    <3> QED BY <3>2, ChunkEnds
  <2>7. ASSUME NEW u \in X PROVE u \in Time /\ \E p \in P : p[2] = u
    <3>1. PICK k \in R : u \in Timestamps(chunks[k])
      OBVIOUS
    <3>2. <<k, u>> \in {k} \X Timestamps(chunks[k])
      BY <3>1
    <3>3. <<k, u>> \in Entries /\ <<k, u>>[1] = k /\ <<k, u>>[2] = u
      BY <3>2 DEF Entries, Keys, KeysIn
    <3> QED BY <3>3
  <2> HIDE DEF P, X, c
  <2>8. Cardinality(P) = Cardinality(X)
    BY <2>6, <2>7, PairsCount DEF GoodSeries, Good
  <2>9. X = {u \in Time : \E k \in R : u \in Timestamps(chunks[k])}
    BY DEF X
  <2>10. R \in SUBSET KeysIn(chunks)
    OBVIOUS
  <2> HIDE DEF R
  <2> DEFINE e == DictSet([k \in Time |-> IF k \in R THEN NoChunk ELSE chunks[k]], t, c)
  <2>11. /\ Good(e, t, t, v, totalSamples - Cardinality(X) + 1)
         /\ \A u \in Time : ValueAt(e, u) = IF u = t THEN v
                                           ELSE IF u \in X THEN NoValue ELSE ValueAt(chunks, u)
    BY <2>2, <2>3, <2>4, <2>9, <2>10, AppendToNewGood DEF GoodSeries
  <2>12. chunks' = e
    BY <2>1, <2>5
  <2> HIDE DEF e
  <2>13. GoodSeries'
    BY <1>1, <2>1, <2>8, <2>11, <2>12 DEF GoodSeries
  <2>14. \A u \in X : \E k \in KeysIn(chunks) : Trimmed(k) /\ u \in Timestamps(chunks[k])
    BY DEF X, R
  <2> QED BY <2>11, <2>12, <2>13, <2>14
<1> QED BY <1>2, <1>3 DEF SeriesAddSample

----------------------------------------------------------------------------
(***************************************************************************)
(* SeriesUpsertSample.                                                     *)
(***************************************************************************)

\* t lies in the time range of the chunk under k of the dictionary d: before
\* the next chunk, and not before k unless k is the first chunk.
Covers(d, k, t) ==
  /\ k \in KeysIn(d)
  /\ \A j \in KeysIn(d) : k < j => t < j
  /\ k <= t \/ \A j \in KeysIn(d) : k <= j

\* A sample of the dictionary that the chunk covers is in that chunk.
LEMMA CoversFinds ==
  ASSUME NEW d, WellFormed(d), NEW k, NEW t \in AllTimestamps(d), Covers(d, k, t)
  PROVE  t \in Timestamps(d[k])
<1>1. PICK j \in KeysIn(d) : t \in Timestamps(d[j])
  BY DEF AllTimestamps
<1>2. j \in Nat /\ k \in Nat /\ t \in Nat /\ j <= t /\ (j < k => t < k)
  BY <1>1, TimeFacts DEF KeysIn, AllTimestamps, Covers, WellFormed, InOrder
<1>3. j = k
  BY <1>1, <1>2 DEF Covers
<1> QED BY <1>1, <1>3

\* The dictionary d becomes e when v is written at t under the policy dp.
UpsertedTo(d, e, t, v, dp) ==
  LET old == ValueAt(d, t)
      new == IF old = NoValue THEN v ELSE HandleDuplicateSample(dp, old, v)
  IN  \/ SameValues(d, e)
      \/ (old = NoValue \/ dp # "block") /\ new \in Value /\ Written(d, e, t, new)

\* Storing a sample in the chunk that covers it keeps the series good, and
\* changes the value at its own timestamp only.
LEMMA UpsertIntoChunkGood ==
  ASSUME NEW d, NEW k, NEW last,
         Good(d, last, lastTimestamp, lastValue, totalSamples), AllTimestamps(d) # {},
         NEW t \in Time, NEW v \in Value, NEW dp, t <= lastTimestamp, Covers(d, k, t),
         UpsertIntoChunk(d, k, last, t, v, dp)
  PROVE  GoodSeries' /\ UpsertedTo(d, chunks', t, v, dp)
<1> DEFINE c == d[k]
           old == c.samples[t]
           new == IF old = NoValue THEN v ELSE HandleDuplicateSample(dp, old, v)
<1>1. /\ WellFormed(d) /\ IsDict(d) /\ NoneEmpty(d) /\ k \in KeysIn(d) /\ c \in Chunk
      /\ last \in KeysIn(d) /\ lastTimestamp \in Nat /\ t \in Nat /\ last \in Nat /\ k \in Nat
      /\ \A j \in KeysIn(d) : j <= last
      /\ IsLargest(KeysIn(d), last)
      /\ lastTimestamp \in Timestamps(d[last]) /\ lastTimestamp \in Time
      /\ \A u \in Timestamps(d[last]) : u <= lastTimestamp
      /\ lastValue = d[last].samples[lastTimestamp]
      /\ totalSamples = Cardinality(AllTimestamps(d)) /\ totalSamples \in Nat
  BY NonEmptySeries, DictFacts, TimeFacts DEF Good, WellFormed, Covers, KeysIn
<1>2. CASE chunks' = d /\ lastChunk' = last /\ UNCHANGED <<lastTimestamp, lastValue, totalSamples>>
  BY <1>2 DEF GoodSeries, UpsertedTo, SameValues
<1>3. ASSUME NEW size \in IF old = NoValue \/ Compressed THEN UpsertSizes(c) ELSE {c.size},
             old = NoValue \/ dp # "block", new \in Value,
             chunks' = ReplaceChunk(d, k, [WithSample(c, t, new) EXCEPT !.size = size]),
             lastChunk' = IF last = k
                          THEN KeyAfter(k, c, [WithSample(c, t, new) EXCEPT !.size = size])
                          ELSE last,
             totalSamples' = totalSamples + (IF old = NoValue THEN 1 ELSE 0),
             lastValue' = (IF t = lastTimestamp THEN new ELSE lastValue),
             lastTimestamp' = lastTimestamp
      PROVE  GoodSeries' /\ UpsertedTo(d, chunks', t, v, dp)
  <2> DEFINE up == [WithSample(c, t, new) EXCEPT !.size = size]
             e == ReplaceChunk(d, k, up)
             p == KeyAfter(k, c, up)
  <2>1. size \in Nat \ {0}
    BY <1>1, <1>3, ChunkFields DEF UpsertSizes
  <2> HIDE DEF new
  <2>2. /\ WithSample(c, t, new) \in Chunk
        /\ Timestamps(WithSample(c, t, new)) = Timestamps(c) \cup {t}
        /\ WithSample(c, t, new).samples[t] = new
        /\ \A u \in Time \ {t} : WithSample(c, t, new).samples[u] = c.samples[u]
    BY <1>1, <1>3, WithSampleFacts
  <2>3. /\ up \in Chunk /\ Timestamps(up) = Timestamps(c) \cup {t}
        /\ up.samples = WithSample(c, t, new).samples
    BY <2>1, <2>2, ResizeFacts
  <2>4. up.samples[t] = new /\ \A u \in Time \ {t} : up.samples[u] = c.samples[u]
    BY <2>2, <2>3
  <2>5. chunks' = e /\ lastChunk' = IF last = k THEN p ELSE last
    BY <1>3
  <2>6. old = NoValue <=> t \notin AllTimestamps(d)
    <3>1. old = NoValue <=> t \notin Timestamps(c)
      BY DEF Timestamps
    <3>2. t \in AllTimestamps(d) => t \in Timestamps(c)
      BY <1>1, CoversFinds
    <3>3. t \in Timestamps(c) => t \in AllTimestamps(d)
      BY <1>1 DEF AllTimestamps
    <3> QED BY <3>1, <3>2, <3>3
  <2>v. ValueAt(d, t) = old
    <3>1. CASE t \in Timestamps(c)
      BY <1>1, <3>1, ValueIs
    <3>2. CASE t \notin Timestamps(c)
      <4>1. old = NoValue
        BY <3>2 DEF Timestamps
      <4> QED BY <2>6, <4>1 DEF ValueAt
    <3> QED BY <3>1, <3>2
  <2>n. new = IF old = NoValue THEN v ELSE HandleDuplicateSample(dp, old, v)
    BY DEF new
  <2> HIDE DEF up, old
  <2>7. /\ WellFormed(e) /\ NoneEmpty(e)
        /\ AllTimestamps(e) = AllTimestamps(d) \cup {t}
        /\ p \in KeysIn(e) /\ e[p] = up
        /\ \A j \in KeysIn(d) \ {k} : e[j] = d[j]
        /\ \A m \in KeysIn(d) : IsLargest(KeysIn(d), m) =>
              IsLargest(KeysIn(e), IF m = k THEN p ELSE m)
    BY <1>1, <2>3, ReplaceChunkFacts DEF Covers
  <2> HIDE DEF e, p
  <2>8. totalSamples' = Cardinality(AllTimestamps(e))
    <3>1. Cardinality(AllTimestamps(d) \cup {t})
            = IF t \in AllTimestamps(d) THEN totalSamples ELSE totalSamples + 1
      BY <1>1, DictFacts, FS_AddElement
    <3> QED BY <1>1, <1>3, <2>6, <2>7, <3>1
  <2>9. IsLargest(KeysIn(e), lastChunk')
    BY <1>1, <2>5, <2>7
  <2>10. /\ IsLargest(Timestamps(e[lastChunk']), lastTimestamp')
         /\ lastValue' = e[lastChunk'].samples[lastTimestamp']
    <3>1. CASE last = k
      <4>1. e[lastChunk'] = up
        BY <2>5, <2>7, <3>1
      <4>2. IsLargest(Timestamps(up), lastTimestamp)
        BY <1>1, <2>3, <3>1 DEF IsLargest
      <4>3. lastValue' = up.samples[lastTimestamp]
        BY <1>1, <1>3, <2>4, <3>1
      <4> QED BY <1>3, <4>1, <4>2, <4>3
    <3>2. CASE last # k
      <4>1. lastChunk' = last /\ e[last] = d[last]
        BY <1>1, <2>5, <2>7, <3>2
      <4>2. k < last
        BY <1>1, <3>2
      <4>3. t < last /\ last <= lastTimestamp
        BY <1>1, <4>2 DEF Covers, WellFormed, InOrder
      <4>4. t # lastTimestamp
        BY <1>1, <4>3
      <4> QED BY <1>1, <1>3, <4>1, <4>4 DEF IsLargest
    <3> QED BY <3>1, <3>2
  <2>11. AllTimestamps(e) # {}
    BY <2>7
  <2>12. Good(e, lastChunk', lastTimestamp', lastValue', totalSamples')
    BY <2>7, <2>8, <2>9, <2>10, <2>11 DEF Good
  <2>13. Written(d, e, t, new)
    <3>1. ValueAt(e, t) = new
      <4>1. t \in Timestamps(e[p])
        BY <2>3, <2>7
      <4> QED BY <2>4, <2>7, <4>1, ValueIs
    <3>2. ASSUME NEW u \in Time, u # t PROVE ValueAt(e, u) = ValueAt(d, u)
      <4>1. ASSUME NEW i \in KeysIn(d), u \in Timestamps(d[i])
            PROVE  \E j \in KeysIn(e) : u \in Timestamps(e[j]) /\ e[j].samples[u] = d[i].samples[u]
        <5>1. CASE i = k
          BY <2>3, <2>4, <2>7, <3>2, <4>1, <5>1
        <5>2. CASE i # k
          BY <2>7, <4>1, <5>2 DEF KeysIn
        <5> QED BY <5>1, <5>2
      <4> QED BY <1>1, <2>7, <3>2, <4>1, SameValue
    <3> QED BY <3>1, <3>2 DEF Written
  <2>14. UpsertedTo(d, e, t, v, dp)
    BY <1>3, <2>13, <2>n, <2>v DEF UpsertedTo
  <2> QED BY <2>5, <2>12, <2>14 DEF GoodSeries
<1> QED BY <1>2, <1>3 DEF UpsertIntoChunk

\* The chunk SeriesUpsertSample picks covers the sample; it is the last chunk,
\* or lies before it when the sample is older than the last chunk.
LEMMA UpsertKeyCovers ==
  ASSUME GoodSeries, AllTimestamps(chunks) # {}, NEW t \in Time, NEW k, k = UpsertKey(t)
  PROVE  /\ Covers(chunks, k, t)
         /\ IF InOlderChunk(t) THEN k < lastChunk ELSE k = lastChunk
<1> DEFINE K == KeysIn(chunks)
           first == GetFirstTimestamp(chunks[lastChunk])
<1>1. /\ InOrder(chunks) /\ WellKeyed(chunks) /\ Keys = K
      /\ K \in SUBSET Time /\ K \in SUBSET Nat /\ lastChunk \in K /\ t \in Nat
      /\ lastChunk \in Nat /\ \A j \in K : j \in Nat /\ j <= lastChunk
      /\ IsFiniteSet(K)
  <2>1. K \in SUBSET Time
    BY DEF KeysIn
  <2>2. IsFiniteSet(K)
    BY <2>1, TimeFacts, FS_Subset
  <2> QED BY <2>1, <2>2, NonEmptySeries, TimeFacts
          DEF GoodSeries, Good, WellFormed, Keys, KeysIn
<1>2. /\ first \in Nat /\ lastChunk <= first
      /\ lastChunk # 0 => lastChunk = first
  <2>1. /\ first \in Timestamps(chunks[lastChunk]) /\ first \in Nat
        /\ \A u \in Timestamps(chunks[lastChunk]) : first <= u
    BY NonEmptySeries, ChunkEnds, TimeFacts DEF GoodSeries
  <2>2. lastChunk <= first /\ (lastChunk # 0 => first <= lastChunk)
    BY <1>1, <2>1 DEF InOrder, WellKeyed
  <2> QED BY <1>1, <2>1, <2>2
<1>3. (\A j \in K : j = lastChunk) <=> ~(Cardinality(K) > 1)
  <2>1. /\ Cardinality(K \ {lastChunk}) = Cardinality(K) - 1
        /\ IsFiniteSet(K \ {lastChunk})
        /\ Cardinality(K) \in Nat
    BY <1>1, FS_RemoveElement, FS_CardinalityType
  <2>2. Cardinality(K \ {lastChunk}) = 0 <=> K \ {lastChunk} = {}
    BY <2>1, FS_EmptySet
  <2>3. Cardinality(K) # 0
    BY <1>1, FS_EmptySet
  <2>4. Cardinality(K) = 1 <=> K \ {lastChunk} = {}
    BY <2>1, <2>2
  <2>5. Cardinality(K) = 1 <=> ~(Cardinality(K) > 1)
    BY <2>1, <2>3
  <2> QED BY <2>4, <2>5
<1> HIDE DEF K
<1>4. CASE InOlderChunk(t)
  <2>1. t < first /\ \E j \in K : j # lastChunk
    BY <1>1, <1>3, <1>4 DEF InOlderChunk
  <2>2. lastChunk = first
    <3>1. lastChunk # 0
      BY <1>1, <2>1
    <3> QED BY <1>2, <3>1
  <2> DEFINE U == {j \in K : j <= t}
  <2>3. CASE U # {}
    <3>1. k = Largest(U)
      BY <1>1, <1>4, <2>3 DEF UpsertKey, Seek
    <3>2. U \in SUBSET Time
      BY <1>1
    <3>3. k \in U /\ \A j \in U : j <= k
      BY <2>3, <3>1, <3>2, LargestProperty
    <3>4. k \in K /\ k <= t /\ \A j \in K : k < j => t < j
      BY <1>1, <3>3
    <3>5. k < lastChunk
      BY <1>1, <2>1, <2>2, <3>4
    <3> QED BY <1>4, <3>4, <3>5 DEF Covers, K
  <2>4. CASE U = {}
    <3>1. k = Smallest(K)
      BY <1>1, <1>4, <2>4 DEF UpsertKey, Seek
    <3>2. k \in K /\ \A j \in K : k <= j
      BY <1>1, <3>1, SmallestProperty
    <3>3. \A j \in K : t < j
      BY <1>1, <2>4
    <3>4. k < lastChunk
      BY <1>1, <2>1, <3>2
    <3> QED BY <1>4, <3>2, <3>3, <3>4 DEF Covers, K
  <2> QED BY <2>3, <2>4
<1>5. CASE ~InOlderChunk(t)
  <2>1. k = lastChunk
    BY <1>5 DEF UpsertKey
  <2>2. k <= t \/ \A j \in K : k <= j
    <3>1. CASE ~(t < first)
      BY <1>1, <1>2, <2>1, <3>1
    <3>2. CASE ~(Cardinality(K) > 1)
      BY <1>1, <1>3, <2>1, <3>2
    <3> QED BY <1>1, <1>5, <3>1, <3>2 DEF InOlderChunk
  <2> QED BY <1>1, <1>5, <2>1, <2>2 DEF Covers, K
<1> QED BY <1>4, <1>5

\* SplitChunk leaves the first sample in the old chunk.
LEMMA SplitKeepsFirst ==
  ASSUME NEW c, NEW at, SplitsAt(c, at), NumOfSample(c) >= 2
  PROVE  at \in Timestamps(c) /\ GetFirstTimestamp(c) < at
<1> DEFINE S == {u \in Timestamps(c) : at <= u}
           n == NumOfSample(c)
<1>1. at \in Timestamps(c) /\ Cardinality(S) = n \div 2
  BY DEF SplitsAt
<1>2. n \in Nat /\ n = Cardinality(Timestamps(c))
  BY ChunkEnds, FS_CardinalityType DEF NumOfSample
<1>3. /\ GetFirstTimestamp(c) \in Timestamps(c) /\ GetFirstTimestamp(c) <= at
      /\ \A u \in Timestamps(c) : GetFirstTimestamp(c) <= u
      /\ GetFirstTimestamp(c) \in Nat /\ at \in Nat
  BY <1>1, ChunkEnds, TimeFacts
<1>4. GetFirstTimestamp(c) = at => S = Timestamps(c)
  BY <1>3
<1> HIDE DEF S, n
<1>5. n >= 2
  BY DEF n
<1>6. n \div 2 # n
  BY <1>2, <1>5
<1>7. GetFirstTimestamp(c) # at
  BY <1>1, <1>2, <1>4, <1>6
<1> QED BY <1>1, <1>3, <1>7

\* An upsert into a chunk that need not be split keeps the series good.
LEMMA UpsertInPlaceGood ==
  ASSUME GoodSeries, AllTimestamps(chunks) # {},
         NEW t \in Time, NEW v \in Value, NEW dp, t <= lastTimestamp,
         UpsertInPlace(t, v, dp)
  PROVE  GoodSeries' /\ UpsertedTo(chunks, chunks', t, v, dp)
<1>1. Covers(chunks, UpsertKey(t), t)
  BY UpsertKeyCovers
<1>2. UpsertIntoChunk(chunks, UpsertKey(t), lastChunk, t, v, dp)
  BY DEF UpsertInPlace
<1> QED BY <1>1, <1>2, UpsertIntoChunkGood DEF GoodSeries

\* So does an upsert that first splits the chunk.
LEMMA UpsertAfterSplitGood ==
  ASSUME GoodSeries, AllTimestamps(chunks) # {},
         NEW t \in Time, NEW v \in Value, NEW dp, t <= lastTimestamp,
         UpsertAfterSplit(t, v, dp)
  PROVE  GoodSeries' /\ UpsertedTo(chunks, chunks', t, v, dp)
<1> DEFINE k == UpsertKey(t)
           c == chunks[k]
           n == NumOfSample(c)
<1>1. PICK at \in Time, size1 \in SplitSizes(n - n \div 2), size2 \in SplitSizes(n \div 2) :
        /\ SplitsAt(c, at)
        /\ UpsertIntoChunk(DictSet([chunks EXCEPT ![k] = Before(c, at, size1)],
                                   at, From(c, at, size2)),
                           IF t >= at THEN at ELSE k,
                           IF InOlderChunk(t) THEN lastChunk ELSE at,
                           t, v, dp)
  BY DEF UpsertAfterSplit
<1> DEFINE lo == Before(c, at, size1)
           hi == From(c, at, size2)
           d == DictSet([chunks EXCEPT ![k] = lo], at, hi)
           last == IF InOlderChunk(t) THEN lastChunk ELSE at
           j == IF t >= at THEN at ELSE k
<1>2. n >= 2
  BY DEF UpsertAfterSplit
<1>3. /\ Covers(chunks, k, t)
      /\ IF InOlderChunk(t) THEN k < lastChunk ELSE k = lastChunk
  BY UpsertKeyCovers
<1> HIDE DEF k
<1>4. /\ WellFormed(chunks) /\ NoneEmpty(chunks) /\ k \in KeysIn(chunks) /\ c \in Chunk
      /\ lastChunk \in KeysIn(chunks)
      /\ \A i \in KeysIn(chunks) : i \in Nat /\ i <= lastChunk
      /\ lastTimestamp \in Timestamps(chunks[lastChunk]) /\ lastTimestamp \in Time
      /\ \A u \in Timestamps(chunks[lastChunk]) : u <= lastTimestamp
      /\ lastValue = chunks[lastChunk].samples[lastTimestamp]
      /\ totalSamples = Cardinality(AllTimestamps(chunks))
      /\ t \in Nat /\ at \in Nat /\ lastTimestamp \in Nat
  BY <1>3, NonEmptySeries, DictFacts, TimeFacts DEF GoodSeries, Good, WellFormed, Covers, KeysIn
<1>5. at \in Timestamps(c) /\ GetFirstTimestamp(c) < at
  BY <1>1, <1>2, SplitKeepsFirst
<1>6. size1 \in Nat \ {0} /\ size2 \in Nat \ {0}
  <2>1. n \in Nat
    BY <1>4, ChunkFields
  <2> HIDE DEF n
  <2>2. n \div 2 \in Nat \ {0} /\ n - n \div 2 \in Nat \ {0}
    BY <1>2, <2>1
  <2> QED BY <1>1, <2>2 DEF SplitSizes
<1>7. /\ lo \in Chunk /\ Timestamps(lo) = {u \in Timestamps(c) : u < at}
      /\ hi \in Chunk /\ Timestamps(hi) = {u \in Timestamps(c) : ~(u < at)}
      /\ \A u \in Time : ~(u < at) => hi.samples[u] = c.samples[u]
      /\ \A u \in Time : u < at => lo.samples[u] = c.samples[u]
  BY <1>4, <1>6, SplitFacts
<1> HIDE DEF lo, hi
<1>8. /\ WellFormed(d) /\ NoneEmpty(d) /\ AllTimestamps(d) = AllTimestamps(chunks)
      /\ KeysIn(d) = KeysIn(chunks) \cup {at} /\ at \notin KeysIn(chunks) /\ k < at
      /\ d[k] = lo /\ d[at] = hi
      /\ \A i \in KeysIn(chunks) \ {k} : d[i] = chunks[i]
      /\ \A i \in KeysIn(chunks) : k < i => at < i
  <2>1. d = SplitDict(chunks, k, at, lo, hi)
    BY DEF SplitDict
  <2>2. AreHalves(c, at, lo, hi)
    BY <1>7 DEF AreHalves
  <2> HIDE DEF d
  <2> QED BY <1>4, <1>5, <1>7, <2>1, <2>2, SplitDictFacts
<1> HIDE DEF d
<1>9. /\ IsLargest(KeysIn(d), last)
      /\ IsLargest(Timestamps(d[last]), lastTimestamp)
      /\ lastValue = d[last].samples[lastTimestamp]
  <2>1. CASE InOlderChunk(t)
    <3>1. last = lastChunk /\ k < lastChunk /\ at < lastChunk
      BY <1>3, <1>4, <1>8, <2>1
    <3>2. d[last] = chunks[lastChunk]
      BY <1>4, <1>8, <3>1
    <3> QED BY <1>4, <1>8, <3>1, <3>2 DEF IsLargest
  <2>2. CASE ~InOlderChunk(t)
    <3>1. last = at /\ k = lastChunk
      BY <1>3, <2>2
    <3>2. IsLargest(KeysIn(d), at)
      BY <1>4, <1>8, <3>1 DEF IsLargest
    <3>3. at <= lastTimestamp
      BY <1>4, <1>5, <3>1
    <3>4. lastTimestamp \in Timestamps(hi) /\ \A u \in Timestamps(hi) : u <= lastTimestamp
      BY <1>4, <1>7, <3>1, <3>3
    <3>5. lastValue = hi.samples[lastTimestamp]
      BY <1>4, <1>7, <3>1, <3>3
    <3> QED BY <1>8, <3>1, <3>2, <3>4, <3>5 DEF IsLargest
  <2> QED BY <2>1, <2>2
<1>10. Good(d, last, lastTimestamp, lastValue, totalSamples)
  BY <1>4, <1>8, <1>9 DEF Good
<1>11. Covers(d, j, t)
  <2>1. CASE t >= at
    <3>1. j = at /\ at \in KeysIn(d) /\ at <= t
      BY <1>4, <1>8, <2>1
    <3>2. \A i \in KeysIn(d) : at < i => t < i
      BY <1>3, <1>4, <1>8 DEF Covers
    <3> QED BY <3>1, <3>2 DEF Covers
  <2>2. CASE ~(t >= at)
    <3>1. j = k /\ k \in KeysIn(d) /\ t < at
      BY <1>4, <1>8, <2>2
    <3>2. \A i \in KeysIn(d) : k < i => t < i
      BY <1>3, <1>8, <3>1 DEF Covers
    <3>3. k <= t \/ \A i \in KeysIn(d) : k <= i
      BY <1>3, <1>4, <1>8 DEF Covers
    <3> QED BY <3>1, <3>2, <3>3 DEF Covers
  <2> QED BY <2>1, <2>2
<1>12. UpsertIntoChunk(d, j, last, t, v, dp)
  BY <1>1 DEF d, lo, hi
<1> HIDE DEF last, j
<1>13. GoodSeries' /\ UpsertedTo(d, chunks', t, v, dp)
  BY <1>8, <1>10, <1>11, <1>12, UpsertIntoChunkGood
<1>14. ASSUME NEW u \in Time PROVE ValueAt(d, u) = ValueAt(chunks, u)
  <2>1. ASSUME NEW i \in KeysIn(chunks), u \in Timestamps(chunks[i])
        PROVE  \E h \in KeysIn(d) : u \in Timestamps(d[h]) /\ d[h].samples[u] = chunks[i].samples[u]
    <3>1. CASE i # k
      BY <1>8, <2>1, <3>1
    <3>2. CASE i = k /\ u < at
      BY <1>7, <1>8, <2>1, <3>2
    <3>3. CASE i = k /\ ~(u < at)
      BY <1>7, <1>8, <2>1, <3>3
    <3> QED BY <3>1, <3>2, <3>3
  <2> QED BY <1>4, <1>8, <2>1, SameValue
<1> QED BY <1>13, <1>14 DEF UpsertedTo, SameValues, Written

\* The split of a one-sample chunk leaves a state of the right type.
LEMMA EmptySplitTyped ==
  ASSUME TypeOK, GoodSeries, AllTimestamps(chunks) # {},
         NEW t \in Time, NEW v \in Value, NEW dp, UpsertAfterEmptySplit(t, v, dp)
  PROVE  /\ chunks' \in [Time -> Chunk \cup {NoChunk}]
         /\ lastChunk' \in Time \cup {Detached}
         /\ lastTimestamp' \in Time /\ lastValue' \in Value /\ totalSamples' \in Int
         /\ emptySplit' = TRUE
<1> DEFINE k == UpsertKey(t)
           c == chunks[k]
           split == [chunks EXCEPT ![k] = [@ EXCEPT !.size = NumOfSample(c)]]
           moved == IF t = 0 THEN split ELSE DictDel(split, 0)
           stored(w) ==
             /\ chunks' = DictSet(moved, t, WithSample(NewChunk(1), t, w))
             /\ lastValue' = IF t = lastTimestamp THEN w ELSE lastValue
             /\ lastChunk' = IF InOlderChunk(t) THEN lastChunk
                             ELSE IF moved[t] = NoChunk THEN t ELSE Detached
<1>1. Covers(chunks, k, t) /\ NoneEmpty(chunks) /\ WellFormed(chunks)
  BY UpsertKeyCovers, NonEmptySeries DEF GoodSeries, Good
<1>2. c \in Chunk /\ Timestamps(c) # {} /\ k \in Time
  BY <1>1, DictFacts DEF Covers, NoneEmpty, WellFormed, KeysIn
<1>3. NumOfSample(c) \in Nat \ {0}
  BY <1>2, ChunkEnds, FS_CardinalityType, FS_EmptySet DEF NumOfSample
<1>4. [c EXCEPT !.size = NumOfSample(c)] \in Chunk
  BY <1>2, <1>3, ResizeFacts
<1>5. split \in [Time -> Chunk \cup {NoChunk}]
  BY <1>2, <1>4 DEF TypeOK
<1> HIDE DEF split
<1>6. moved \in [Time -> Chunk \cup {NoChunk}]
  BY <1>5 DEF DictDel
<1> HIDE DEF moved
<1>7. NewChunk(1) \in Chunk
  BY NewChunkFacts
<1>8. ASSUME NEW w \in Value, stored(w)
      PROVE  /\ chunks' \in [Time -> Chunk \cup {NoChunk}]
             /\ lastChunk' \in Time \cup {Detached} /\ lastValue' \in Value
  <2>1. WithSample(NewChunk(1), t, w) \in Chunk
    BY <1>7, WithSampleFacts
  <2>2. chunks' \in [Time -> Chunk \cup {NoChunk}]
    BY <1>6, <1>8, <2>1 DEF DictSet
  <2> QED BY <1>8, <2>2 DEF TypeOK
<1>9. DictSet(split, 0, NewChunk(1)) \in [Time -> Chunk \cup {NoChunk}]
  BY <1>5, <1>7 DEF DictSet
<1>10. /\ \/ stored(v) /\ totalSamples' = totalSamples + 1
          \/ /\ \E garbage \in Value : LET w == HandleDuplicateSample(dp, garbage, v)
                                       IN  w \in Value /\ stored(w)
             /\ UNCHANGED totalSamples
          \/ /\ chunks' = DictSet(split, 0, NewChunk(1))
             /\ lastChunk' = IF InOlderChunk(t) THEN lastChunk
                             ELSE IF chunks[0] = NoChunk THEN 0 ELSE Detached
             /\ UNCHANGED <<totalSamples, lastValue>>
       /\ emptySplit' = TRUE /\ UNCHANGED lastTimestamp
  BY DEF UpsertAfterEmptySplit, moved, split
<1>11. lastTimestamp' \in Time /\ totalSamples' \in Int /\ emptySplit' = TRUE
  BY <1>10 DEF TypeOK
<1>12. CASE stored(v)
  BY <1>8, <1>11, <1>12
<1>13. CASE \E garbage \in Value : LET w == HandleDuplicateSample(dp, garbage, v)
                                   IN  w \in Value /\ stored(w)
  BY <1>8, <1>11, <1>13
<1>14. CASE /\ chunks' = DictSet(split, 0, NewChunk(1))
            /\ lastChunk' = IF InOlderChunk(t) THEN lastChunk
                            ELSE IF chunks[0] = NoChunk THEN 0 ELSE Detached
            /\ UNCHANGED <<totalSamples, lastValue>>
  BY <1>9, <1>11, <1>14, TimeFacts DEF TypeOK
<1> QED BY <1>10, <1>12, <1>13, <1>14

----------------------------------------------------------------------------
(***************************************************************************)
(* The inductive invariant and the theorems.                               *)
(***************************************************************************)
IndInv == TypeOK /\ (~emptySplit => GoodSeries)

\* A good state has the right types.
LEMMA GoodTyped ==
  ASSUME NEW d, NEW last, NEW ts, NEW val, NEW n, Good(d, last, ts, val, n)
  PROVE  /\ d \in [Time -> Chunk \cup {NoChunk}]
         /\ last \in Time /\ ts \in Time /\ val \in Value /\ n \in Int
<1>1. IsDict(d) /\ last \in KeysIn(d) /\ n \in Nat /\ d[last] \in Chunk
  BY DictFacts DEF Good, WellFormed, IsLargest
<1>2. ts \in Time /\ val \in Value
  <2>1. CASE AllTimestamps(d) = {}
    BY <2>1, EmptySeries, TimeFacts, NumberAssumption DEF Value
  <2>2. CASE AllTimestamps(d) # {}
    <3>1. ts \in Timestamps(d[last]) /\ val = d[last].samples[ts]
      BY <2>2, NonEmptySeries
    <3> QED BY <1>1, <3>1, ChunkFields DEF Timestamps
  <2> QED BY <2>1, <2>2
<1> QED BY <1>1, <1>2 DEF IsDict, KeysIn

\* A step that keeps the series good keeps the inductive invariant.
LEMMA GoodStep ==
  ASSUME GoodSeries', emptySplit' \in BOOLEAN,
         retentionTime' \in Retentions, chunkSize' \in ChunkSizes, duplicatePolicy' \in Policies
  PROVE  IndInv'
<1>1. /\ chunks' \in [Time -> Chunk \cup {NoChunk}]
      /\ lastChunk' \in Time /\ lastTimestamp' \in Time /\ lastValue' \in Value
      /\ totalSamples' \in Int
  BY GoodTyped DEF GoodSeries
<1> QED BY <1>1 DEF IndInv, TypeOK

\* internalAdd keeps the inductive invariant.
LEMMA InternalAddStep ==
  ASSUME IndInv, ~emptySplit, NEW t \in Time, NEW v \in Value, NEW override,
         InternalAdd(t, v, override)
  PROVE  IndInv'
<1>1. TypeOK /\ GoodSeries
  BY DEF IndInv
<1>2. /\ lastTimestamp \in Nat /\ t \in Nat
      /\ retentionTime \in Nat /\ chunkSize \in Nat \ {0}
      /\ retentionTime' = retentionTime /\ chunkSize' = chunkSize
      /\ duplicatePolicy' = duplicatePolicy
      /\ retentionTime \in Retentions /\ chunkSize \in ChunkSizes /\ duplicatePolicy \in Policies
  BY <1>1, TimeFacts, RetentionsAssumption, ChunkSizesAssumption DEF TypeOK, InternalAdd, config
<1>3. totalSamples # 0 <=> AllTimestamps(chunks) # {}
  BY <1>1, NonEmptySeries, EmptySeries DEF GoodSeries
<1> DEFINE dp == EffectivePolicy(override, duplicatePolicy, GlobalPolicy)
<1>4. CASE t <= lastTimestamp /\ totalSamples # 0
  <2>1. CASE UpsertInPlace(t, v, dp)
    <3>1. GoodSeries'
      BY <1>1, <1>3, <1>4, <2>1, UpsertInPlaceGood
    <3>2. emptySplit' = emptySplit
      BY <2>1 DEF UpsertInPlace
    <3> QED BY <1>1, <1>2, <3>1, <3>2, GoodStep DEF TypeOK
  <2>2. CASE UpsertAfterSplit(t, v, dp)
    <3>1. GoodSeries'
      BY <1>1, <1>3, <1>4, <2>2, UpsertAfterSplitGood
    <3>2. emptySplit' = emptySplit
      BY <2>2 DEF UpsertAfterSplit
    <3> QED BY <1>1, <1>2, <3>1, <3>2, GoodStep DEF TypeOK
  <2>3. CASE UpsertAfterEmptySplit(t, v, dp)
    <3>1. /\ chunks' \in [Time -> Chunk \cup {NoChunk}]
          /\ lastChunk' \in Time \cup {Detached}
          /\ lastTimestamp' \in Time /\ lastValue' \in Value /\ totalSamples' \in Int
          /\ emptySplit' = TRUE
      BY <1>1, <1>3, <1>4, <2>3, EmptySplitTyped
    <3> QED BY <1>2, <3>1 DEF IndInv, TypeOK
  <2> QED BY <1>4, <2>1, <2>2, <2>3 DEF InternalAdd
<1>5. CASE ~(t <= lastTimestamp /\ totalSamples # 0)
  <2>1. SeriesAddSample(t, v)
    BY <1>5 DEF InternalAdd
  <2>2. AllTimestamps(chunks) # {} => lastTimestamp < t
    BY <1>2, <1>3, <1>5
  <2>3. GoodSeries'
    BY <1>1, <1>2, <2>1, <2>2, SeriesAddSampleGood
  <2>4. emptySplit' = emptySplit
    BY <2>1 DEF SeriesAddSample
  <2> QED BY <1>1, <1>2, <2>3, <2>4, GoodStep DEF TypeOK
<1> QED BY <1>4, <1>5

\* NewSeries establishes the inductive invariant.
LEMMA InitInd == Init => IndInv
<1> SUFFICES ASSUME Init PROVE IndInv
  OBVIOUS
<1>1. /\ chunkSize \in Nat \ {0} /\ chunks = NewSeries(chunkSize) /\ lastChunk = 0
      /\ lastTimestamp = 0 /\ lastValue = 0 /\ totalSamples = 0
  BY ChunkSizesAssumption DEF Init
<1>2. GoodSeries
  BY <1>1, NewSeriesGood DEF GoodSeries
<1>3. /\ chunks \in [Time -> Chunk \cup {NoChunk}]
      /\ lastChunk \in Time /\ lastTimestamp \in Time /\ lastValue \in Value
      /\ totalSamples \in Int
  BY <1>2, GoodTyped DEF GoodSeries
<1> QED BY <1>2, <1>3 DEF IndInv, TypeOK, Init

\* Every command keeps the inductive invariant.
LEMMA NextInd == IndInv /\ [Next]_vars => IndInv'
<1> SUFFICES ASSUME IndInv, [Next]_vars PROVE IndInv'
  OBVIOUS
<1>1. TypeOK
  BY DEF IndInv
<1>2. ASSUME NEW t \in Time, NEW v \in Inputs, NEW override \in Policies, Add(t, v, override)
      PROVE  IndInv'
  <2>1. v \in Value
    BY InputsAssumption
  <2> QED BY <1>2, <2>1, InternalAddStep DEF Add
<1>3. ASSUME NEW t \in Time, NEW delta \in Increments, IncrBy(t, delta)
      PROVE  IndInv'
  BY <1>3, InternalAddStep DEF IncrBy
<1>4. ASSUME NEW a \in Time, NEW b \in a .. MaxTime, DelRange(a, b)
      PROVE  IndInv'
  <2>1. b \in Time
    BY TimeAssumption DEF Time
  <2>2. GoodSeries'
    BY <1>4, <2>1, DelRangeGood DEF IndInv, DelRange
  <2>3. UNCHANGED <<config, emptySplit>>
    BY <1>4 DEF DelRange
  <2> QED BY <1>1, <2>2, <2>3, GoodStep DEF TypeOK, config
<1>5. CASE Alter
  <2>1. GoodSeries'
    BY <1>5 DEF Alter, IndInv, GoodSeries
  <2> QED BY <1>1, <1>5, <2>1, GoodStep DEF Alter, TypeOK
<1>6. CASE Reload
  <2>1. GoodSeries'
    BY <1>6, ReloadGood DEF IndInv, Reload
  <2> QED BY <1>1, <1>6, <2>1, GoodStep DEF Reload, TypeOK, config
<1>7. CASE Recreate
  <2>1. /\ chunkSize' \in Nat \ {0} /\ chunks' = NewSeries(chunkSize') /\ lastChunk' = 0
        /\ lastTimestamp' = 0 /\ lastValue' = 0 /\ totalSamples' = 0
    BY <1>7, ChunkSizesAssumption DEF Recreate
  <2>2. GoodSeries'
    BY <2>1, NewSeriesGood DEF GoodSeries
  <2> QED BY <1>7, <2>2, GoodStep DEF Recreate
<1>8. CASE UNCHANGED vars
  BY <1>8 DEF vars, IndInv, TypeOK, GoodSeries
<1> QED BY <1>2, <1>3, <1>4, <1>5, <1>6, <1>7, <1>8 DEF Next

\* The inductive invariant holds in every reachable state.
THEOREM Invariance == Spec => []IndInv
BY InitInd, NextInd, PTL DEF Spec

\* Type correctness, for every number of timestamps, values, sizes and policies.
THEOREM TypeCorrect == Spec => []TypeOK
<1>1. IndInv => TypeOK
  BY DEF IndInv
<1> QED BY <1>1, Invariance, PTL

\* What a good state says in the terms of Series.
LEMMA GoodFacts ==
  ASSUME GoodSeries
  PROVE  /\ Keys = KeysIn(chunks) /\ WellFormed(chunks) /\ Keys # {} /\ Keys \in SUBSET Time
         /\ \A k \in Keys : /\ k \in Nat
                            /\ chunks[k] \in Chunk
                            /\ k # 0 => k \in Timestamps(chunks[k])
                            /\ \A t \in Timestamps(chunks[k]) :
                                 k <= t /\ \A j \in Keys : k < j => t < j
  BY DictFacts, TimeFacts
     DEF GoodSeries, Good, WellFormed, Keys, KeysIn, NoneEmpty, IsEmptySeries, InOrder, WellKeyed

\* The pairs Entries counts.
LEMMA EntriesFacts ==
  ASSUME NEW p \in Entries
  PROVE  p[1] \in Keys /\ p[2] \in Timestamps(chunks[p[1]]) /\ p = <<p[1], p[2]>>
<1>1. PICK k \in Keys : p \in {k} \X Timestamps(chunks[k])
  BY DEF Entries
<1> QED BY <1>1

\* A sample of a chunk is an entry.
LEMMA InEntries ==
  ASSUME NEW k \in Keys, NEW t \in Timestamps(chunks[k])
  PROVE  <<k, t>> \in Entries
<1>1. <<k, t>> \in {k} \X Timestamps(chunks[k])
  OBVIOUS
<1> QED BY <1>1 DEF Entries

\* The chunks cover disjoint, increasing time ranges: no upsert, split, trim,
\* deletion or reload can break the order that the "<=" seeks depend on.
THEOREM OrderTheorem == Spec => []ChunksOrdered
<1>1. IndInv => ChunksOrdered
  BY GoodFacts DEF IndInv, ChunksOrdered
<1> QED BY <1>1, Invariance, PTL

\* A chunk is stored under its first timestamp, the first chunk perhaps under 0.
THEOREM KeyTheorem == Spec => []KeyIsFirstTimestamp
<1>1. IndInv => KeyIsFirstTimestamp
  <2> SUFFICES ASSUME IndInv, ~emptySplit, NEW k \in Keys, k # 0
               PROVE  k = GetFirstTimestamp(chunks[k])
    BY DEF KeyIsFirstTimestamp
  <2>1. k \in Timestamps(chunks[k]) /\ \A t \in Timestamps(chunks[k]) : k <= t
    BY GoodFacts DEF IndInv
  <2> QED BY <2>1, FirstUnique
<1> QED BY <1>1, Invariance, PTL

\* There is always a chunk, and an empty chunk is the only one.
THEOREM EmptyChunkTheorem == Spec => []EmptyChunkIsOnly
<1>1. IndInv => EmptyChunkIsOnly
  <2> SUFFICES ASSUME GoodSeries
               PROVE  /\ Keys # {}
                      /\ \A k \in Keys : Timestamps(chunks[k]) = {} => Keys = {0}
    BY DEF IndInv, EmptyChunkIsOnly
  <2>1. Keys = KeysIn(chunks) /\ Keys # {} /\ (NoneEmpty(chunks) \/ IsEmptySeries(chunks))
    BY GoodFacts DEF WellFormed
  <2> QED BY <2>1 DEF NoneEmpty, IsEmptySeries
<1> QED BY <1>1, Invariance, PTL

\* lastChunk is the chunk under the largest key.
THEOREM LastChunkTheorem == Spec => []LastChunkIsLargest
<1>1. IndInv => LastChunkIsLargest
  BY GoodFacts DEF IndInv, GoodSeries, Good, LastChunkIsLargest
<1> QED BY <1>1, Invariance, PTL

\* lastTimestamp and lastValue are those of the newest stored sample.
THEOREM LastSampleTheorem == Spec => []LastSampleIsNewest
<1>1. IndInv => LastSampleIsNewest
  <2> SUFFICES ASSUME GoodSeries
               PROVE  IF Entries = {} THEN lastTimestamp = 0 /\ lastValue = 0
                      ELSE /\ IsLargest(Timestamps(chunks[lastChunk]), lastTimestamp)
                           /\ lastValue = chunks[lastChunk].samples[lastTimestamp]
    BY DEF IndInv, LastSampleIsNewest
  <2>1. Entries = {} <=> AllTimestamps(chunks) = {}
    <3>1. ASSUME NEW p \in Entries PROVE p[2] \in AllTimestamps(chunks)
      BY GoodFacts, EntriesFacts, ChunkEnds DEF AllTimestamps
    <3>2. ASSUME NEW t \in AllTimestamps(chunks) PROVE Entries # {}
      <4>1. PICK k \in Keys : t \in Timestamps(chunks[k])
        BY GoodFacts DEF AllTimestamps
      <4> QED BY <4>1, InEntries
    <3> QED BY <3>1, <3>2
  <2> QED BY <2>1 DEF GoodSeries, Good
<1> QED BY <1>1, Invariance, PTL

\* totalSamples is the number of stored samples.
THEOREM CountTheorem == Spec => []TotalSamplesCounts
<1>1. IndInv => TotalSamplesCounts
  <2> SUFFICES ASSUME GoodSeries PROVE totalSamples = Cardinality(Entries)
    BY DEF IndInv, TotalSamplesCounts
  <2>1. ASSUME NEW p \in Entries
        PROVE  /\ p[1] \in KeysIn(chunks)
               /\ p[2] \in Timestamps(chunks[p[1]])
               /\ p[2] \in AllTimestamps(chunks)
               /\ p = <<p[1], p[2]>>
    BY GoodFacts, EntriesFacts, ChunkEnds DEF AllTimestamps
  <2>2. ASSUME NEW t \in AllTimestamps(chunks)
        PROVE  t \in Time /\ \E p \in Entries : p[2] = t
    <3>1. PICK k \in Keys : t \in Timestamps(chunks[k])
      BY GoodFacts DEF AllTimestamps
    <3>2. <<k, t>> \in Entries /\ <<k, t>>[2] = t
      BY <3>1, InEntries
    <3> QED BY <3>2 DEF AllTimestamps
  <2>3. Cardinality(Entries) = Cardinality(AllTimestamps(chunks))
    BY <2>1, <2>2, GoodFacts, PairsCount
  <2> QED BY <2>3 DEF GoodSeries, Good
<1> QED BY <1>1, Invariance, PTL

----------------------------------------------------------------------------
(***************************************************************************)
(* Queries.                                                                *)
(***************************************************************************)

\* Where the "<=" seek lands.
LEMMA SeekFacts ==
  ASSUME GoodSeries, NEW t \in Time
  PROVE  /\ Seek(t) \in Keys
         /\ \A k \in Keys : k <= t => k <= Seek(t)
         /\ Seek(t) <= t \/ \A k \in Keys : Seek(t) <= k /\ t < k
<1> DEFINE U == {k \in Keys : k <= t}
<1>1. Keys # {} /\ Keys \in SUBSET Time /\ Keys \in SUBSET Nat /\ t \in Nat
  BY GoodFacts, TimeFacts
<1>2. CASE U # {}
  <2>1. Seek(t) = Largest(U) /\ U \in SUBSET Time
    BY <1>1, <1>2 DEF Seek
  <2>2. Seek(t) \in U /\ \A k \in U : k <= Seek(t)
    BY <1>2, <2>1, LargestProperty
  <2> QED BY <2>2
<1>3. CASE U = {}
  <2>1. Seek(t) = Smallest(Keys)
    BY <1>3 DEF Seek
  <2>2. Seek(t) \in Keys /\ \A k \in Keys : Seek(t) <= k
    BY <1>1, <2>1, SmallestProperty
  <2>3. \A k \in Keys : t < k
    BY <1>1, <1>3
  <2> QED BY <1>1, <2>2, <2>3
<1> QED BY <1>2, <1>3

\* The iterators reach the chunk of every sample of the range.
LEMMA ChunksReached ==
  ASSUME GoodSeries, NEW a \in Time, NEW b \in Time,
         NEW k \in Keys, NEW t \in Timestamps(chunks[k]), a <= t, t <= b
  PROVE  k \in ForwardChunks(a, b) /\ k \in ReverseChunks(a, b)
<1>1. /\ a \in Nat /\ b \in Nat /\ t \in Nat /\ k \in Nat /\ k <= t
      /\ Seek(a) \in Nat /\ Seek(b) \in Nat /\ Seek(a) \in Keys
  BY GoodFacts, SeekFacts, ChunkEnds, TimeFacts
<1>2. ProcessChunk(k, a, b) # {}
  BY DEF ProcessChunk
<1>3. ASSUME NEW j \in Keys, a < j, j <= b PROVE ProcessChunk(j, a, b) # {}
  <2>1. j \in Timestamps(chunks[j]) /\ j \in Nat
    BY <1>1, <1>3, GoodFacts
  <2>2. a <= j
    BY <1>1, <1>3, <2>1
  <2> QED BY <1>3, <2>1, <2>2 DEF ProcessChunk
<1>4. k \in ForwardChunks(a, b)
  <2>1. Seek(a) <= k
    <3>1. CASE \A i \in Keys : Seek(a) <= i /\ a < i
      BY <3>1
    <3>2. CASE Seek(a) <= a
      <4>1. k < Seek(a) => t < Seek(a)
        BY <1>1, GoodFacts
      <4> QED BY <1>1, <3>2, <4>1
    <3> QED BY <3>1, <3>2, SeekFacts
  <2>2. ASSUME NEW j \in Keys, Seek(a) <= j, j <= k
        PROVE  \/ ProcessChunk(j, a, b) # {}
               \/ j < k /\ Timestamps(chunks[j]) # {} /\ GetLastTimestamp(chunks[j]) < a
    <3>1. j \in Nat /\ Timestamps(chunks[j]) # {}
      <4>1. j # 0 => j \in Timestamps(chunks[j])
        BY GoodFacts
      <4>2. ASSUME j = 0, Timestamps(chunks[j]) = {} PROVE FALSE
        <5>1. IsEmptySeries(chunks)
          BY <4>2, GoodFacts DEF WellFormed, NoneEmpty
        <5> QED BY <4>2, <5>1, GoodFacts DEF IsEmptySeries
      <4> QED BY <4>1, <4>2, GoodFacts
    <3>2. CASE j = k
      BY <1>2, <3>2
    <3>3. CASE j < k /\ a < j
      BY <1>1, <1>3, <3>1, <3>3
    <3>4. CASE j < k /\ ~(a < j)
      <4> DEFINE l == GetLastTimestamp(chunks[j])
      <4>1. l \in Timestamps(chunks[j]) /\ l \in Nat
        BY <3>1, ChunkEnds, TimeFacts
      <4>2. l < k
        BY <3>4, <4>1, GoodFacts
      <4>3. CASE l < a
        BY <3>1, <3>4, <4>3
      <4>4. CASE ~(l < a)
        <5>1. a <= l /\ l <= b
          BY <1>1, <4>1, <4>2, <4>4
        <5> QED BY <4>1, <5>1 DEF ProcessChunk
      <4> QED BY <4>3, <4>4
    <3> QED BY <1>1, <2>2, <3>1, <3>2, <3>3, <3>4
  <2> QED BY <1>1, <2>1, <2>2 DEF ForwardChunks
<1>5. k \in ReverseChunks(a, b)
  <2>1. k <= Seek(b) /\ Seek(b) <= b
    <3>1. k <= b
      BY <1>1
    <3>2. k <= Seek(b)
      BY <3>1, SeekFacts
    <3>3. ~(b < k)
      BY <1>1, <3>1
    <3> QED BY <3>2, <3>3, SeekFacts
  <2>2. ASSUME NEW j \in Keys, k <= j, j <= Seek(b) PROVE ProcessChunk(j, a, b) # {}
    <3>1. j \in Nat
      BY GoodFacts
    <3>2. CASE j = k
      BY <1>2, <3>2
    <3>3. CASE k < j
      <4>1. t < j
        BY <3>3, GoodFacts
      <4>2. a < j /\ j <= b
        BY <1>1, <2>1, <2>2, <3>1, <4>1
      <4> QED BY <1>3, <4>2
    <3> QED BY <1>1, <2>2, <3>1, <3>2, <3>3
  <2> QED BY <2>1, <2>2 DEF ReverseChunks
<1> QED BY <1>4, <1>5

\* TS.RANGE and TS.REVRANGE return exactly the samples of the range that the
\* retention window leaves.
THEOREM QueryTheorem == Spec => []QueriesComplete
<1>1. IndInv => QueriesComplete
  <2> SUFFICES ASSUME IndInv, GoodSeries, NEW a \in Time, NEW b \in Time
               PROVE  LET expected == SamplesOf({e \in Entries : QueryStart(a) <= e[2] /\ e[2] <= b})
                      IN  SeriesRange(a, b) = expected /\ SeriesRevRange(a, b) = expected
    BY DEF IndInv, QueriesComplete
  <2> DEFINE from == QueryStart(a)
             E == {e \in Entries : from <= e[2] /\ e[2] <= b}
             F == UNION {{k} \X ProcessChunk(k, from, b) : k \in ForwardChunks(from, b)}
             R == UNION {{k} \X ProcessChunk(k, from, b) : k \in ReverseChunks(from, b)}
  <2>1. from \in Time
    <3>1. /\ a \in Nat /\ lastTimestamp \in Nat /\ retentionTime \in Nat
          /\ a <= MaxTime /\ lastTimestamp <= MaxTime /\ MaxTime \in Nat
      BY TimeAssumption, RetentionsAssumption DEF IndInv, TypeOK, Time
    <3> QED BY <3>1 DEF QueryStart, Time
  <2> HIDE DEF from
  <2>2. ASSUME NEW e \in E PROVE e \in F /\ e \in R
    <3>1. /\ e[1] \in Keys /\ e[2] \in Timestamps(chunks[e[1]]) /\ e = <<e[1], e[2]>>
          /\ from <= e[2] /\ e[2] <= b
      BY EntriesFacts
    <3>2. e[1] \in ForwardChunks(from, b) /\ e[1] \in ReverseChunks(from, b)
      BY <2>1, <3>1, ChunksReached
    <3>3. e \in {e[1]} \X ProcessChunk(e[1], from, b)
      BY <3>1 DEF ProcessChunk
    <3> QED BY <3>2, <3>3
  <2>3. ASSUME NEW k \in Keys, NEW e \in {k} \X ProcessChunk(k, from, b) PROVE e \in E
    <3>1. e = <<k, e[2]>> /\ e[2] \in Timestamps(chunks[k]) /\ from <= e[2] /\ e[2] <= b
      BY DEF ProcessChunk
    <3>2. <<k, e[2]>> \in Entries
      BY <3>1, InEntries
    <3> QED BY <3>1, <3>2
  <2>4. F = E /\ R = E
    BY <2>2, <2>3 DEF ForwardChunks, ReverseChunks
  <2> QED BY <2>4, Zenon DEF SeriesRange, SeriesRevRange, from
<1> QED BY <1>1, Invariance, PTL

----------------------------------------------------------------------------
(***************************************************************************)
(* A series is, for its clients, a sample store.  The refinement mapping   *)
(* is Data, the samples of all chunks by timestamp.  In a good state it    *)
(* reads one chunk per timestamp, so what a command does to the dictionary *)
(* (the lemmas above) is what it does to Data.                             *)
(***************************************************************************)

Held(d) == [u \in Time |-> ValueAt(d, u)]

\* The store reads Samples with the constants of the series.
LEMMA StoreSets ==
  /\ Store!Time = Time /\ Store!Value = Value
  /\ Store!DuplicatePolicy = DuplicatePolicy /\ Store!DP_NONE = DP_NONE
BY DEF Store!Time, Time, Store!Value, Value, Store!DuplicatePolicy, DuplicatePolicy,
       Store!DP_NONE, DP_NONE

LEMMA StoreOperators ==
  ASSUME NEW x, NEW y, NEW z
  PROVE  /\ Store!OlderThanRetention(x, y, z) <=> OlderThanRetention(x, y, z)
         /\ Store!EffectivePolicy(x, y, z) = EffectivePolicy(x, y, z)
         /\ Store!HandleDuplicateSample(x, y, z) = HandleDuplicateSample(x, y, z)
BY Zenon DEF Store!OlderThanRetention, OlderThanRetention, Store!EffectivePolicy, EffectivePolicy,
       Store!HandleDuplicateSample, HandleDuplicateSample, Store!DP_NONE, DP_NONE

\* The refinement mapping, chunk by chunk.
LEMMA DataIs == GoodSeries => Data = Held(chunks)
<1> SUFFICES ASSUME GoodSeries PROVE Data = Held(chunks)
  OBVIOUS
<1>1. WellFormed(chunks) /\ Keys = KeysIn(chunks)
  BY GoodFacts
<1>2. ASSUME NEW t \in Time PROVE Data[t] = ValueAt(chunks, t)
  <2> DEFINE e == CHOOSE p \in Entries : p[2] = t
  <2>1. Data[t] = IF \E p \in Entries : p[2] = t THEN chunks[e[1]].samples[t] ELSE NoValue
    BY DEF Data
  <2>2. CASE \E p \in Entries : p[2] = t
    <3>1. e \in Entries /\ e[2] = t
      BY <2>2
    <3> HIDE DEF e
    <3>2. e[1] \in KeysIn(chunks) /\ t \in Timestamps(chunks[e[1]])
      BY <1>1, <3>1, EntriesFacts
    <3>3. ValueAt(chunks, t) = chunks[e[1]].samples[t]
      BY <1>1, <3>2, ValueIs
    <3> QED BY <2>1, <2>2, <3>3
  <2>3. CASE ~\E p \in Entries : p[2] = t
    <3>1. t \notin AllTimestamps(chunks)
      <4> SUFFICES ASSUME NEW k \in KeysIn(chunks), t \in Timestamps(chunks[k]) PROVE FALSE
        BY DEF AllTimestamps
      <4>1. <<k, t>> \in Entries /\ <<k, t>>[2] = t
        BY <1>1, InEntries
      <4> QED BY <2>3, <4>1
    <3> HIDE DEF e
    <3> QED BY <2>1, <2>3, <3>1 DEF ValueAt
  <2> QED BY <2>2, <2>3
<1>3. Data = [t \in Time |-> Data[t]]
  BY DEF Data
<1> HIDE DEF Data
<1> QED BY <1>2, <1>3 DEF Held

\* The same after a step.
LEMMA DataPrimed == GoodSeries' => Data' = Held(chunks')
<1>1. (GoodSeries => Data = Held(chunks))'
  BY DataIs, PTL
<1> QED BY <1>1 DEF Held, ValueAt, AllTimestamps, KeysIn

\* The newest timestamp of the contents is lastTimestamp.
LEMMA NewestIs ==
  ASSUME GoodSeries, AllTimestamps(chunks) # {}
  PROVE  lastTimestamp \in Time /\ Store!IsNewest(Held(chunks), lastTimestamp)
<1>1. WellFormed(chunks)
  BY GoodFacts
<1>2. /\ lastChunk \in KeysIn(chunks) /\ lastTimestamp \in Timestamps(chunks[lastChunk])
      /\ lastTimestamp \in Time
      /\ \A u \in AllTimestamps(chunks) : u <= lastTimestamp
  BY NonEmptySeries DEF GoodSeries
<1>3. lastTimestamp \in AllTimestamps(chunks)
  BY <1>2 DEF AllTimestamps
<1>4. \A u \in Time : Held(chunks)[u] = ValueAt(chunks, u)
  BY DEF Held
<1>5. \A u \in Time : ValueAt(chunks, u) # NoValue <=> u \in AllTimestamps(chunks)
  BY <1>1, ValueType
<1> QED BY <1>2, <1>3, <1>4, <1>5, StoreSets DEF Store!IsNewest

\* The contents of a good series are contents of a store.
LEMMA HeldType ==
  ASSUME NEW d, WellFormed(d)
  PROVE  Held(d) \in Store!Contents
BY ValueType, StoreSets DEF Held, Store!Contents

\* An append, with the samples the retention rule drops.
LEMMA AppendIsWrite ==
  ASSUME GoodSeries, NEW t \in Time, NEW v \in Value,
         AllTimestamps(chunks) # {} => lastTimestamp < t,
         retentionTime \in Nat, chunkSize \in Nat \ {0},
         SeriesAddSample(t, v)
  PROVE  Store!Appends(Held(chunks), Held(chunks'), t)
<1>1. /\ ValueAt(chunks', t) = v
      /\ \A u \in Time \ {t} :
           \/ ValueAt(chunks', u) = ValueAt(chunks, u)
           \/ /\ ValueAt(chunks', u) = NoValue
              /\ \E k \in KeysIn(chunks) : Trimmed(k) /\ u \in Timestamps(chunks[k])
  BY SeriesAddSampleGood
<1>2. WellFormed(chunks) /\ Keys = KeysIn(chunks)
  BY GoodFacts
<1>3. \A u \in Time : Held(chunks)[u] = ValueAt(chunks, u) /\ Held(chunks')[u] = ValueAt(chunks', u)
  BY DEF Held
<1>4. ASSUME NEW u \in AllTimestamps(chunks) PROVE u < t
  <2>1. u <= lastTimestamp /\ lastTimestamp \in Nat /\ u \in Nat /\ t \in Nat
    BY NonEmptySeries, TimeFacts DEF GoodSeries, AllTimestamps
  <2> QED BY <2>1
<1>5. t \notin AllTimestamps(chunks)
  BY <1>4, TimeFacts
<1>6. ValueAt(chunks, t) = NoValue /\ ValueAt(chunks', t) # NoValue
  BY <1>1, <1>5, NoValueFact DEF ValueAt
<1>7. ASSUME NEW u \in Time, ValueAt(chunks, u) # NoValue PROVE u < t
  BY <1>4, <1>7 DEF ValueAt
<1>8. ASSUME NEW u \in Time, NEW k \in KeysIn(chunks), Trimmed(k), u \in Timestamps(chunks[k])
      PROVE  \E last \in Time : /\ Store!IsNewest(Held(chunks), last)
                                /\ OlderThanRetention(u, last, retentionTime)
  <2>1. AllTimestamps(chunks) # {}
    BY <1>8 DEF AllTimestamps
  <2>2. lastTimestamp \in Time /\ Store!IsNewest(Held(chunks), lastTimestamp)
    BY <2>1, NewestIs
  <2>3. /\ retentionTime # 0
        /\ GetLastTimestamp(chunks[k]) < MinTimestamp
    <3>1. k <= k
      BY TimeFacts DEF KeysIn
    <3> QED BY <1>2, <1>8, <3>1 DEF Trimmed
  <2>4. /\ u <= GetLastTimestamp(chunks[k]) /\ GetLastTimestamp(chunks[k]) \in Nat
        /\ u \in Nat /\ lastTimestamp \in Nat
    BY <1>8, <2>2, ChunkEnds, TimeFacts
  <2>5. lastTimestamp > retentionTime /\ MinTimestamp = lastTimestamp - retentionTime
    BY <2>3, <2>4 DEF MinTimestamp
  <2>6. OlderThanRetention(u, lastTimestamp, retentionTime)
    BY <2>3, <2>4, <2>5 DEF OlderThanRetention
  <2> QED BY <2>2, <2>6
<1>9. ASSUME NEW u \in Time \ {t}
      PROVE  /\ Held(chunks)[u] # NoValue => u < t
             /\ \/ Held(chunks')[u] = Held(chunks)[u]
                \/ /\ Held(chunks')[u] = NoValue
                   /\ \E last \in Time : /\ Store!IsNewest(Held(chunks), last)
                                         /\ OlderThanRetention(u, last, retentionTime)
  BY <1>1, <1>3, <1>7, <1>8
<1>10. Held(chunks)[t] = NoValue /\ Held(chunks')[t] # NoValue
  BY <1>3, <1>6
<1> QED BY <1>9, <1>10, StoreSets, StoreOperators DEF Store!Appends

\* An upsert, decided by the duplicate policy.
LEMMA UpsertIsWrite ==
  ASSUME GoodSeries, AllTimestamps(chunks) # {},
         NEW t \in Time, NEW v \in Value, t <= lastTimestamp,
         NEW override \in DuplicatePolicy \cup {DP_NONE},
         ~OlderThanRetention(t, lastTimestamp, retentionTime),
         UpsertedTo(chunks, chunks', t, v, EffectivePolicy(override, duplicatePolicy, GlobalPolicy))
  PROVE  Held(chunks') = Held(chunks) \/ Store!Upserts(Held(chunks), Held(chunks'), t)
<1> DEFINE dp  == EffectivePolicy(override, duplicatePolicy, GlobalPolicy)
           old == ValueAt(chunks, t)
           new == IF old = NoValue THEN v ELSE HandleDuplicateSample(dp, old, v)
<1>1. \A u \in Time : Held(chunks)[u] = ValueAt(chunks, u) /\ Held(chunks')[u] = ValueAt(chunks', u)
  BY DEF Held
<1>2. CASE SameValues(chunks, chunks')
  BY <1>2 DEF SameValues, Held
<1>3. CASE (old = NoValue \/ dp # "block") /\ new \in Value /\ Written(chunks, chunks', t, new)
  <2>1. \A u \in Time \ {t} : Held(chunks')[u] = Held(chunks)[u]
    BY <1>1, <1>3 DEF Written
  <2>2. Held(chunks')[t] = new /\ Held(chunks)[t] = old
    BY <1>1, <1>3 DEF Written
  <2>3. lastTimestamp \in Time /\ Store!IsNewest(Held(chunks), lastTimestamp)
    BY NewestIs
  <2>4. new # NoValue
    BY <1>3, NoValueFact
  <2>5. old # NoValue => dp # "block" /\ new = HandleDuplicateSample(dp, old, v)
    BY <1>3
  <2> HIDE DEF old, new
  <2>6. \E last \in Store!Time : /\ Store!IsNewest(Held(chunks), last) /\ t <= last
                                 /\ ~Store!OlderThanRetention(t, last, retentionTime)
    BY <2>3, StoreSets, StoreOperators
  <2>7. old # NoValue =>
          \E w \in Store!Value, o \in Store!DuplicatePolicy \cup {Store!DP_NONE} :
            LET p == Store!EffectivePolicy(o, duplicatePolicy, GlobalPolicy)
            IN  p # "block" /\ new = Store!HandleDuplicateSample(p, old, w)
    BY <2>5, StoreSets, StoreOperators
  <2> QED BY <2>1, <2>2, <2>4, <2>6, <2>7, StoreSets DEF Store!Upserts
<1> QED BY <1>2, <1>3 DEF UpsertedTo

----------------------------------------------------------------------------
(***************************************************************************)
(* The steps.                                                              *)
(***************************************************************************)
StoreStep ==
  Store!Next \/ UNCHANGED <<Data, retentionTime, duplicatePolicy>>

\* A write to Held(chunks) is a write of the store.
LEMMA WriteStep ==
  ASSUME GoodSeries, GoodSeries', UNCHANGED <<retentionTime, duplicatePolicy>>, NEW t \in Time,
         \/ Held(chunks') = Held(chunks)
         \/ Store!Appends(Held(chunks), Held(chunks'), t)
         \/ Store!Upserts(Held(chunks), Held(chunks'), t)
  PROVE  StoreStep
<1>1. Data = Held(chunks) /\ Data' = Held(chunks')
  BY DataIs, DataPrimed
<1>2. Held(chunks) \in Store!Contents /\ Held(chunks') \in Store!Contents
  BY HeldType DEF GoodSeries, Good
<1> QED BY <1>1, <1>2, StoreSets DEF StoreStep, Store!Next, Store!Write, Store!settings

\* internalAdd.
LEMMA InternalAddStores ==
  ASSUME IndInv, ~emptySplit, ~emptySplit', NEW t \in Time, NEW v \in Value,
         NEW override \in DuplicatePolicy \cup {DP_NONE}, InternalAdd(t, v, override)
  PROVE  StoreStep
<1> DEFINE dp == EffectivePolicy(override, duplicatePolicy, GlobalPolicy)
<1>1. TypeOK /\ GoodSeries /\ GoodSeries'
  BY InternalAddStep DEF IndInv
<1>2. /\ lastTimestamp \in Nat /\ t \in Nat /\ retentionTime \in Nat /\ chunkSize \in Nat \ {0}
      /\ UNCHANGED <<retentionTime, duplicatePolicy>>
      /\ ~OlderThanRetention(t, lastTimestamp, retentionTime)
  BY <1>1, TimeFacts, RetentionsAssumption, ChunkSizesAssumption DEF TypeOK, InternalAdd, config
<1>3. totalSamples # 0 <=> AllTimestamps(chunks) # {}
  BY <1>1, NonEmptySeries, EmptySeries DEF GoodSeries
<1>4. CASE t <= lastTimestamp /\ totalSamples # 0
  <2>1. UpsertInPlace(t, v, dp) \/ UpsertAfterSplit(t, v, dp) \/ UpsertAfterEmptySplit(t, v, dp)
    BY <1>4 DEF InternalAdd
  <2>2. ~UpsertAfterEmptySplit(t, v, dp)
    BY DEF UpsertAfterEmptySplit
  <2>3. UpsertedTo(chunks, chunks', t, v, dp)
    BY <1>1, <1>3, <1>4, <2>1, <2>2, UpsertInPlaceGood, UpsertAfterSplitGood
  <2>4. Held(chunks') = Held(chunks) \/ Store!Upserts(Held(chunks), Held(chunks'), t)
    BY <1>1, <1>2, <1>3, <1>4, <2>3, UpsertIsWrite
  <2> QED BY <1>1, <1>2, <2>4, WriteStep
<1>5. CASE ~(t <= lastTimestamp /\ totalSamples # 0)
  <2>1. SeriesAddSample(t, v)
    BY <1>5 DEF InternalAdd
  <2>2. AllTimestamps(chunks) # {} => lastTimestamp < t
    BY <1>2, <1>3, <1>5
  <2>3. Store!Appends(Held(chunks), Held(chunks'), t)
    BY <1>1, <1>2, <2>1, <2>2, AppendIsWrite
  <2> QED BY <1>1, <1>2, <2>3, WriteStep
<1> QED BY <1>4, <1>5

\* Every command is a step of the store.
LEMMA NextStores == IndInv /\ IndInv' /\ [Next]_vars => emptySplit' \/ StoreStep
<1> SUFFICES ASSUME IndInv, IndInv', [Next]_vars, ~emptySplit' PROVE StoreStep
  OBVIOUS
<1>1. TypeOK /\ GoodSeries'
  BY DEF IndInv
<1>2. ASSUME NEW t \in Time, NEW v \in Inputs, NEW override \in Policies, Add(t, v, override)
      PROVE  StoreStep
  <2>1. v \in Value /\ override \in DuplicatePolicy \cup {DP_NONE}
    BY InputsAssumption, PoliciesAssumption
  <2> QED BY <1>2, <2>1, InternalAddStores DEF Add
<1>3. ASSUME NEW t \in Time, NEW delta \in Increments, IncrBy(t, delta)
      PROVE  StoreStep
  <2>1. "last" \in DuplicatePolicy \cup {DP_NONE}
    BY DEF DuplicatePolicy
  <2> QED BY <1>3, <2>1, InternalAddStores DEF IncrBy
<1>4. ASSUME NEW a \in Time, NEW b \in a .. MaxTime, DelRange(a, b)
      PROVE  StoreStep
  <2>1. b \in Time
    BY TimeAssumption DEF Time
  <2>2. GoodSeries /\ UNCHANGED config
    BY <1>4 DEF DelRange, IndInv
  <2>3. Emptied(chunks, chunks', a, b)
    BY <1>4, <2>1, <2>2, DelRangeGood
  <2>4. Store!Deletes(Held(chunks), Held(chunks'), a, b)
    BY <2>3, StoreSets DEF Emptied, Held, Store!Deletes
  <2>5. Data = Held(chunks) /\ Data' = Held(chunks')
    BY <1>1, <2>2, DataIs, DataPrimed
  <2>6. Held(chunks) \in Store!Contents /\ Held(chunks') \in Store!Contents
    BY <1>1, <2>2, HeldType DEF GoodSeries, Good
  <2> QED BY <2>1, <2>2, <2>4, <2>5, <2>6, StoreSets
          DEF StoreStep, Store!Next, Store!Delete, Store!settings, config
<1>5. CASE Alter
  <2>1. chunks' = chunks /\ GoodSeries
    BY <1>5 DEF Alter, IndInv
  <2>2. Data' = Data
    <3>1. Data = Held(chunks) /\ Data' = Held(chunks')
      BY <1>1, <2>1, DataIs, DataPrimed
    <3> QED BY <2>1, <3>1
  <2>3. retentionTime' \in Nat /\ duplicatePolicy' \in DuplicatePolicy \cup {DP_NONE}
    BY <1>5, RetentionsAssumption, PoliciesAssumption DEF Alter
  <2> QED BY <2>2, <2>3, StoreSets DEF StoreStep, Store!Next, Store!Alter
<1>6. CASE Reload
  <2>1. GoodSeries /\ UNCHANGED config
    BY <1>6 DEF Reload, IndInv
  <2>2. SameValues(chunks, chunks')
    BY <1>6, <2>1, ReloadGood
  <2>3. Data = Held(chunks) /\ Data' = Held(chunks')
    BY <1>1, <2>1, DataIs, DataPrimed
  <2>4. Held(chunks') = Held(chunks)
    BY <2>2 DEF SameValues, Held
  <2> QED BY <2>1, <2>3, <2>4 DEF StoreStep, config
<1>7. CASE Recreate
  <2>1. Data' = Held(chunks')
    BY <1>1, DataIs, DataPrimed
  <2>2. PICK size \in Nat \ {0} : chunks' = NewSeries(size)
    BY <1>7, ChunkSizesAssumption DEF Recreate
  <2>3. AllTimestamps(chunks') = {}
    <3>1. ASSUME NEW k \in KeysIn(NewSeries(size)) PROVE Timestamps(NewSeries(size)[k]) = {}
      BY NewChunkFacts DEF NewSeries, KeysIn
    <3> QED BY <2>2, <3>1 DEF AllTimestamps
  <2>4. Held(chunks') = Store!Empty
    BY <2>3, StoreSets DEF Held, ValueAt, Store!Empty
  <2>5. retentionTime' \in Nat /\ duplicatePolicy' \in DuplicatePolicy \cup {DP_NONE}
    BY <1>7, RetentionsAssumption, PoliciesAssumption DEF Recreate
  <2> QED BY <2>1, <2>4, <2>5, StoreSets DEF StoreStep, Store!Next, Store!Recreate
<1>8. CASE UNCHANGED vars
  <2>1. GoodSeries /\ chunks' = chunks
    BY <1>8 DEF vars, IndInv
  <2>2. Data = Held(chunks) /\ Data' = Held(chunks')
    BY <1>1, <2>1, DataIs, DataPrimed
  <2> QED BY <1>8, <2>1, <2>2 DEF StoreStep, vars
<1> QED BY <1>2, <1>3, <1>4, <1>5, <1>6, <1>7, <1>8 DEF Next

\* Every command is, for the clients of the series, a step of the sample store:
\* no append, upsert, split, trim, deletion or reload loses, moves or revives a
\* sample, unless it splits a chunk of one sample.
THEOREM StoreTheorem == Spec => ImplementsStoreStep
<1>1. IndInv /\ IndInv' /\ [Next]_vars
        => [emptySplit' \/ Store!Next]_<<Data, retentionTime, duplicatePolicy>>
  BY NextStores DEF StoreStep
<1> QED BY <1>1, Invariance, PTL DEF Spec, ImplementsStoreStep

\* A new series is an empty store.
THEOREM StoreInit == Init => Store!Init
<1> SUFFICES ASSUME Init PROVE Store!Init
  OBVIOUS
<1>1. Data = Held(chunks)
  BY InitInd, DataIs DEF IndInv, Init
<1>2. PICK size \in Nat \ {0} : chunks = NewSeries(size)
  BY ChunkSizesAssumption DEF Init
<1>3. AllTimestamps(chunks) = {}
  <2>1. ASSUME NEW k \in KeysIn(NewSeries(size)) PROVE Timestamps(NewSeries(size)[k]) = {}
    BY NewChunkFacts DEF NewSeries, KeysIn
  <2> QED BY <1>2, <2>1 DEF AllTimestamps
<1>4. Held(chunks) = Store!Empty
  BY <1>3, StoreSets DEF Held, ValueAt, Store!Empty
<1>5. retentionTime \in Nat /\ duplicatePolicy \in DuplicatePolicy \cup {DP_NONE}
  BY RetentionsAssumption, PoliciesAssumption DEF Init
<1> QED BY <1>1, <1>4, <1>5, StoreSets DEF Store!Init
=============================================================================
