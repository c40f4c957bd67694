-------------------------- MODULE CompactionProofs --------------------------
(***************************************************************************)
(* Proofs about a compaction rule, for every number of timestamps, bucket  *)
(* duration, alignment and retention time: as long as the rule is on       *)
(* course, closed buckets are in the destination, exactly aggregated, the  *)
(* open one is in the context, and nothing else is in either.              *)
(***************************************************************************)
EXTENDS Compaction, NaturalsInduction, WellFoundedInduction, TLAPS

----------------------------------------------------------------------------
(***************************************************************************)
(* Buckets.                                                                *)
(***************************************************************************)
LEMMA ModRange ==
  ASSUME NEW x \in Int, NEW d \in Nat \ {0}
  PROVE  x % d \in 0 .. d - 1 /\ x \div d \in Int /\ x = (d * (x \div d)) + (x % d)
  OBVIOUS

\* Multiples of d are at least d apart.
LEMMA Multiples ==
  ASSUME NEW d \in Nat \ {0}, NEW p \in Int, NEW q \in Int, p < q
  PROVE  d * p + d <= d * q
<1>1. PICK k \in Nat : q = p + 1 + k
  <2>1. q - p - 1 \in Nat /\ q = p + 1 + (q - p - 1) OBVIOUS
  <2> QED BY <2>1
<1>2. d * k >= 0 OBVIOUS
<1>3. d * q = d * p + d + d * k BY <1>1
<1> QED BY <1>2, <1>3

\* CalcBucketStart: a timestamp lies in the bucket that it computes.
LEMMA StartBounds ==
  ASSUME NEW t \in Int
  PROVE  /\ CalcBucketStart(t) \in Int
         /\ CalcBucketStart(t) <= t
         /\ t < CalcBucketStart(t) + BucketDuration
<1>1. (t - Alignment) % BucketDuration \in 0 .. BucketDuration - 1
  BY ModRange, RuleAssumption
<1> QED BY <1>1, RuleAssumption DEF CalcBucketStart

\* The timestamps of one bucket have one start.
LEMMA SameStart ==
  ASSUME NEW t \in Int, NEW u \in Int,
         CalcBucketStart(t) <= u, u < CalcBucketStart(t) + BucketDuration
  PROVE  CalcBucketStart(u) = CalcBucketStart(t)
<1> DEFINE d == BucketDuration
           p == (t - Alignment) \div d
           q == (u - Alignment) \div d
<1>0. d \in Nat \ {0} /\ Alignment \in Nat BY RuleAssumption
<1>1. p \in Int /\ CalcBucketStart(t) = Alignment + d * p /\ d * p \in Int
  BY <1>0, ModRange DEF CalcBucketStart
<1>2. q \in Int /\ CalcBucketStart(u) = Alignment + d * q /\ d * q \in Int
  BY <1>0, ModRange DEF CalcBucketStart
<1>3. CalcBucketStart(u) <= u /\ u < CalcBucketStart(u) + BucketDuration BY StartBounds
<1> HIDE DEF p, q
<1>4. ~(p < q)
  <2> SUFFICES ASSUME p < q PROVE FALSE OBVIOUS
  <2>1. d * p + d <= d * q BY <1>0, <1>1, <1>2, Multiples
  <2> HIDE DEF d
  <2> QED BY <2>1, <1>0, <1>1, <1>2, <1>3 DEF d
<1>5. ~(q < p)
  <2> SUFFICES ASSUME q < p PROVE FALSE OBVIOUS
  <2>1. d * q + d <= d * p BY <1>0, <1>1, <1>2, Multiples
  <2> QED BY <2>1, <1>0, <1>1, <1>2, <1>3 
<1>6. p = q BY <1>1, <1>2, <1>4, <1>5
<1> QED BY <1>1, <1>2, <1>6

\* Buckets follow each other without overlapping.
LEMMA StartOrder ==
  ASSUME NEW t \in Int, NEW u \in Int
  PROVE  /\ t <= u => CalcBucketStart(t) <= CalcBucketStart(u)
         /\ CalcBucketStart(t) < CalcBucketStart(u)
              => CalcBucketStart(t) + BucketDuration <= CalcBucketStart(u)
<1>0. BucketDuration \in Nat \ {0} BY RuleAssumption
<1>1. /\ CalcBucketStart(t) \in Int /\ CalcBucketStart(t) <= t /\ t < CalcBucketStart(t) + BucketDuration
      /\ CalcBucketStart(u) \in Int /\ CalcBucketStart(u) <= u /\ u < CalcBucketStart(u) + BucketDuration
  BY StartBounds
<1>2. ASSUME t <= u, CalcBucketStart(u) < CalcBucketStart(t) PROVE FALSE
  <2>1. CalcBucketStart(u) <= t /\ t < CalcBucketStart(u) + BucketDuration BY <1>0, <1>1, <1>2
  <2>2. CalcBucketStart(t) = CalcBucketStart(u) BY <2>1, SameStart
  <2> QED BY <2>2, <1>1, <1>2
<1>3. ASSUME CalcBucketStart(t) < CalcBucketStart(u),
             CalcBucketStart(u) < CalcBucketStart(t) + BucketDuration
      PROVE  FALSE
  <2>1. PICK s \in Int : s = CalcBucketStart(u) BY <1>1
  <2>2. CalcBucketStart(s) = CalcBucketStart(t) BY <2>1, <1>0, <1>1, <1>3, SameStart
  <2>3. CalcBucketStart(s) = CalcBucketStart(u) BY <2>1, <1>0, <1>1, <1>3, SameStart
  <2> QED BY <2>2, <2>3, <1>1, <1>3
<1> QED BY <1>0, <1>1, <1>2, <1>3

\* The beginning of a bucket is a timestamp of the bucket.
LEMMA BucketBounds ==
  ASSUME NEW t \in Time
  PROVE  /\ BucketStart(t) \in Time /\ BucketStart(t) <= t
         /\ BucketEnd(t) \in Int /\ t <= BucketEnd(t)
         /\ CalcBucketStart(BucketStart(t)) = CalcBucketStart(t)
<1>0. BucketDuration \in Nat \ {0} /\ MaxTime \in Nat /\ t \in Int
  BY RuleAssumption, TimeAssumption DEF Time
<1>1. /\ CalcBucketStart(t) \in Int /\ CalcBucketStart(t) <= t /\ t < CalcBucketStart(t) + BucketDuration
  BY <1>0, StartBounds
<1>2. /\ BucketStart(t) \in Time /\ BucketStart(t) <= t
      /\ BucketEnd(t) \in Int /\ t <= BucketEnd(t)
      /\ CalcBucketStart(t) <= BucketStart(t)
  BY <1>0, <1>1 DEF BucketStart, BucketEnd, BucketStartNormalize, Time
<1>3. BucketStart(t) \in Int /\ BucketStart(t) < CalcBucketStart(t) + BucketDuration
  BY <1>0, <1>1, <1>2 DEF Time
<1> QED BY <1>0, <1>1, <1>2, <1>3, SameStart

\* The timestamps between its beginning and its end belong to a bucket, and no others.
LEMMA BucketMembers ==
  ASSUME NEW t \in Time, NEW u \in Time
  PROVE  /\ BucketStart(t) <= u /\ u <= BucketEnd(t) => BucketStart(u) = BucketStart(t)
         /\ BucketStart(u) = BucketStart(t) => BucketEnd(u) = BucketEnd(t)
         /\ BucketStart(u) = BucketStart(t) => BucketStart(t) <= u /\ u <= BucketEnd(t)
<1>0. BucketDuration \in Nat \ {0} /\ t \in Int /\ u \in Int
  BY RuleAssumption DEF Time
<1>1. /\ CalcBucketStart(t) \in Int /\ CalcBucketStart(t) <= t /\ t < CalcBucketStart(t) + BucketDuration
      /\ CalcBucketStart(u) \in Int /\ CalcBucketStart(u) <= u /\ u < CalcBucketStart(u) + BucketDuration
  BY <1>0, StartBounds
<1>2. ASSUME BucketStart(t) <= u, u <= BucketEnd(t) PROVE BucketStart(u) = BucketStart(t)
  <2>1. CalcBucketStart(t) <= u /\ u < CalcBucketStart(t) + BucketDuration
    BY <1>0, <1>1, <1>2 DEF BucketStart, BucketEnd, BucketStartNormalize
  <2> QED BY <2>1, <1>0, SameStart DEF BucketStart
<1>3. ASSUME BucketStart(u) = BucketStart(t) PROVE CalcBucketStart(u) = CalcBucketStart(t)
  BY <1>3, BucketBounds
<1>4. ASSUME BucketStart(u) = BucketStart(t) PROVE BucketStart(t) <= u /\ u <= BucketEnd(t)
  BY <1>0, <1>1, <1>3, <1>4, BucketBounds DEF BucketEnd
<1> QED BY <1>2, <1>3, <1>4 DEF BucketEnd

\* The same for the normalized starts, which the destination's samples have.
LEMMA BucketOrder ==
  ASSUME NEW t \in Time, NEW u \in Time
  PROVE  /\ t <= u => BucketStart(t) <= BucketStart(u)
         /\ BucketStart(t) < BucketStart(u) => BucketEnd(t) < BucketStart(u)
<1>0. BucketDuration \in Nat \ {0} /\ t \in Int /\ u \in Int
  BY RuleAssumption DEF Time
<1>1. /\ CalcBucketStart(t) \in Int /\ CalcBucketStart(u) \in Int
  BY <1>0, StartBounds
<1>2. /\ t <= u => CalcBucketStart(t) <= CalcBucketStart(u)
      /\ CalcBucketStart(t) < CalcBucketStart(u) => CalcBucketStart(t) + BucketDuration <= CalcBucketStart(u)
  BY <1>0, StartOrder
<1> QED BY <1>0, <1>1, <1>2 DEF BucketStart, BucketEnd, BucketStartNormalize

\* A bucket's start is its own bucket's start.
LEMMA BucketOfStart ==
  ASSUME NEW b \in BucketStarts
  PROVE  b \in Time /\ BucketStart(b) = b
<1>1. PICK t \in Time : b = BucketStart(t) BY DEF BucketStarts
<1>2. b \in Time /\ CalcBucketStart(b) = CalcBucketStart(t) BY <1>1, BucketBounds
<1> QED BY <1>1, <1>2 DEF BucketStart

\* The buckets that CompactionDelRange deletes between the first and the last one.
LEMMA BucketsBetween ==
  ASSUME NEW a \in Time, NEW b \in Time, NEW x \in Time, BucketStart(x) = x,
         NEW from, from = CalcBucketStart(a) + BucketDuration,
         NEW to, to = BucketStartNormalize(CalcBucketStart(b) - BucketDuration)
  PROVE  /\ from \in Nat /\ to \in Nat /\ to <= BucketStart(b)
         /\ BucketStart(a) < from
         /\ BucketStart(a) < x /\ x < BucketStart(b) => from <= x /\ x <= to
         /\ BucketStart(a) < BucketStart(b) =>
              BucketStart(a) <= to /\ to < BucketStart(b) /\ from <= BucketStart(b)
<1>0. BucketDuration \in Nat \ {0} /\ a \in Nat /\ b \in Nat /\ x \in Nat
  BY RuleAssumption DEF Time
<1>1. /\ CalcBucketStart(a) \in Int /\ CalcBucketStart(a) <= a /\ a < CalcBucketStart(a) + BucketDuration
      /\ CalcBucketStart(b) \in Int /\ CalcBucketStart(b) <= b /\ b < CalcBucketStart(b) + BucketDuration
      /\ CalcBucketStart(x) \in Int /\ CalcBucketStart(x) <= x /\ x < CalcBucketStart(x) + BucketDuration
  BY <1>0, StartBounds
<1>2. /\ CalcBucketStart(a) < CalcBucketStart(b) => CalcBucketStart(a) + BucketDuration <= CalcBucketStart(b)
      /\ CalcBucketStart(a) < CalcBucketStart(x) => CalcBucketStart(a) + BucketDuration <= CalcBucketStart(x)
      /\ CalcBucketStart(x) < CalcBucketStart(b) => CalcBucketStart(x) + BucketDuration <= CalcBucketStart(b)
  BY <1>0, StartOrder
<1> QED BY <1>0, <1>1, <1>2 DEF BucketStart, BucketStartNormalize

----------------------------------------------------------------------------
(***************************************************************************)
(* The inductive invariant.                                                *)
(***************************************************************************)

\* lastTimestamp is the newest timestamp of the source, and 0 when it is empty.
SourceInv ==
  /\ IF Stored(src) = {} THEN lastTimestamp = 0 ELSE IsNewest(src, lastTimestamp)
  /\ Retention > 0 => lastTimestamp <= horizon + Retention

\* A rule that has not seen an append has an empty context, and its source has nothing
\* newer than the rule.
Unstarted ==
  /\ ctx = NoSamples
  /\ \A t \in Stored(src) : t <= since

\* A rule that has seen one fills the newest bucket, with some of its samples.
Started ==
  /\ Stored(src) # {}
  /\ startBucket = BucketStart(lastTimestamp)
  /\ ctx # NoSamples
  /\ \A t \in Stored(ctx) : t <= lastTimestamp /\ BucketStart(t) = startBucket /\ ctx[t] # Twice

RuleInv ==
  Sound => /\ IF startBucket = NotStarted THEN Unstarted ELSE Started
           /\ LatestBucketExact
           /\ ClosedBucketsExact
           /\ CompactedSamplesClosed

IndInv == TypeOK /\ SourceInv /\ RuleInv

----------------------------------------------------------------------------
(***************************************************************************)
(* Samples and aggregates.                                                 *)
(***************************************************************************)
SourceMap == [Time -> Number \cup {NoValue}]
Compacted == [Time -> Aggregate \cup {NoValue}]
Put(s, t, agg) == [s EXCEPT ![t] = agg]
Without(s, a, b) == [t \in Time |-> IF a <= t /\ t <= b THEN NoValue ELSE s[t]]

\* The aggregate of nothing, which AvgFinalize and its like must never see.
LEMMA NoSamplesType == NoSamples \in Aggregate /\ Stored(NoSamples) = {}
  BY DEF NoSamples, Aggregate, Stored

\* An aggregate of something has a sample in it.
LEMMA NonEmpty ==
  ASSUME NEW c \in Aggregate
  PROVE  c # NoSamples <=> \E t \in Time : c[t] # NoValue
  BY DEF Aggregate, NoSamples

\* aggClass->appendValue adds one sample to the context.
LEMMA AppendedValue ==
  ASSUME NEW c \in Aggregate, NEW t \in Time, NEW v \in Number
  PROVE  /\ AppendValue(c, t, v) \in Aggregate
         /\ c[t] = NoValue => AppendValue(c, t, v)[t] = v
         /\ AppendValue(c, t, v)[t] # NoValue
         /\ \A u \in Time : u # t => AppendValue(c, t, v)[u] = c[u]
  BY InputAssumption, MarkerAssumption DEF AppendValue, Aggregate

\* What a bucket should be made of, sample by sample.
LEMMA SamplesInType ==
  ASSUME NEW s \in SourceMap, NEW a \in Int, NEW b \in Int
  PROVE  /\ SamplesIn(s, a, b) \in Aggregate
         /\ \A t \in Time : SamplesIn(s, a, b)[t] = IF a <= t /\ t <= b THEN s[t] ELSE NoValue
         /\ \A t \in Stored(SamplesIn(s, a, b)) :
              a <= t /\ t <= b /\ t \in Stored(s) /\ SamplesIn(s, a, b)[t] # Twice
  BY InputAssumption, MarkerAssumption DEF SamplesIn, SourceMap, Aggregate, Stored, Value

\* A bucket depends on the samples between its ends only.
LEMMA SamplesInSame ==
  ASSUME NEW s \in SourceMap, NEW r \in SourceMap, NEW a \in Int, NEW b \in Int,
         \A t \in Time : a <= t /\ t <= b => s[t] = r[t]
  PROVE  SamplesIn(s, a, b) = SamplesIn(r, a, b)
  BY DEF SamplesIn

\* A bucket without samples has an empty aggregate ...
LEMMA SamplesInNone ==
  ASSUME NEW s \in SourceMap, NEW a \in Int, NEW b \in Int,
         \A t \in Time : a <= t /\ t <= b => s[t] = NoValue
  PROVE  SamplesIn(s, a, b) = NoSamples
  BY DEF SamplesIn, NoSamples

\* ... and one with a sample has not.
LEMMA SamplesInSome ==
  ASSUME NEW s \in SourceMap, NEW a \in Int, NEW b \in Int,
         NEW t \in Stored(s), a <= t, t <= b
  PROVE  SamplesIn(s, a, b) # NoSamples
<1>1. t \in Time /\ SamplesIn(s, a, b)[t] # NoValue BY DEF SamplesIn, Stored
<1> QED BY <1>1 DEF NoSamples

\* A context that is told sample by sample what a bucket has.
LEMMA AggregateIs ==
  ASSUME NEW c \in Aggregate, NEW s \in SourceMap, NEW a \in Int, NEW b \in Int,
         \A t \in Time : c[t] = IF a <= t /\ t <= b THEN s[t] ELSE NoValue
  PROVE  c = SamplesIn(s, a, b)
  BY DEF SamplesIn, Aggregate

\* The choice behind Newest is well defined.
LEMMA NewestProperty ==
  ASSUME NEW s, Stored(s) # {}
  PROVE  Newest(s) \in Time /\ IsNewest(s, Newest(s))
<1> DEFINE T == Stored(s)
           M == {n \in Nat : MaxTime - n \in T}
<1>1. MaxTime \in Nat /\ \A t \in T : t \in Nat /\ t <= MaxTime
  BY TimeAssumption DEF Time, Stored
<1>2. PICK any \in T : TRUE
  OBVIOUS
<1>3. MaxTime - any \in Nat /\ MaxTime - (MaxTime - any) = any
  BY <1>1
<1>4. M \in SUBSET Nat /\ M # {}
  BY <1>3
<1> HIDE DEF M
<1>5. PICK m \in M : \A n \in M : ~(<<n, m>> \in OpToRel(<, Nat))
  BY <1>4, NatLessThanWellFounded, WFMin
<1>6. ASSUME NEW n \in M PROVE m <= n
  <2>1. m \in Nat /\ n \in Nat
    BY <1>4
  <2>2. n < m => <<n, m>> \in OpToRel(<, Nat)
    BY <2>1 DEF OpToRel
  <2>3. ~(n < m)
    BY <1>5, <2>2, Zenon
  <2> QED BY <2>1, <2>3
<1>7. m \in Nat /\ MaxTime - m \in T
  BY DEF M
<1>8. ASSUME NEW u \in T PROVE u <= MaxTime - m
  <2>1. MaxTime - u \in Nat /\ MaxTime - (MaxTime - u) = u
    BY <1>1
  <2>2. m <= MaxTime - u
    BY <1>6, <2>1 DEF M
  <2> QED BY <1>1, <1>7, <2>2
<1>9. MaxTime - m \in Time /\ IsNewest(s, MaxTime - m)
  BY <1>7, <1>8 DEF IsNewest, Stored
<1> QED BY <1>9 DEF Newest

----------------------------------------------------------------------------
(***************************************************************************)
(* The destination.  Whether a bucket is appended or upserted makes no     *)
(* difference to its samples.                                              *)
(***************************************************************************)
Destination == [samples : Compacted, last : Time]

\* A compacted sample is added or replaced.
LEMMA PutType ==
  ASSUME NEW s \in Compacted, NEW t \in Time, NEW agg \in Aggregate
  PROVE  /\ Put(s, t, agg) \in Compacted
         /\ Put(s, t, agg)[t] = agg
         /\ \A u \in Time : u # t => Put(s, t, agg)[u] = s[u]
  BY DEF Put, Compacted

\* Compacted samples are deleted.
LEMMA WithoutType ==
  ASSUME NEW s \in Compacted, NEW a \in Int, NEW b \in Int
  PROVE  /\ Without(s, a, b) \in Compacted
         /\ \A t \in Time : Without(s, a, b)[t] = IF a <= t /\ t <= b THEN NoValue ELSE s[t]
  BY DEF Without, Compacted

\* SeriesAddSample and SeriesUpsertSample have the same effect on the destination's
\* samples.
LEMMA BothAdd ==
  ASSUME NEW d \in Destination, NEW t \in Time, NEW agg \in Aggregate
  PROVE  /\ Appended(d, t, agg) \in Destination
         /\ Appended(d, t, agg).samples = Put(d.samples, t, agg)
         /\ Upserted(d, t, agg) \in Destination
         /\ Upserted(d, t, agg).samples = Put(d.samples, t, agg)
<1>1. d.samples \in Compacted /\ d.last \in Time BY DEF Destination
<1>2. Put(d.samples, t, agg) \in Compacted BY <1>1, PutType
<1>3. Appended(d, t, agg) = [samples |-> Put(d.samples, t, agg), last |-> t]
  BY DEF Appended, Put
<1>4. Upserted(d, t, agg) = [samples |-> Put(d.samples, t, agg), last |-> d.last]
  BY DEF Upserted, Put, Destination
<1> QED BY <1>1, <1>2, <1>3, <1>4 DEF Destination

\* internalAdd on the destination.
LEMMA InternalAddPuts ==
  ASSUME NEW d \in Destination, NEW t \in Time, NEW agg \in Aggregate
  PROVE  /\ InternalAdd(d, t, agg) \in Destination
         /\ InternalAdd(d, t, agg).samples = Put(d.samples, t, agg)
  BY BothAdd DEF InternalAdd

\* RuleSeriesUpsertSample on the destination.
LEMMA UpsertSamplePuts ==
  ASSUME NEW d \in Destination, NEW t \in Time, NEW agg \in Aggregate
  PROVE  /\ RuleSeriesUpsertSample(d, t, agg) \in Destination
         /\ RuleSeriesUpsertSample(d, t, agg).samples = Put(d.samples, t, agg)
  BY BothAdd DEF RuleSeriesUpsertSample

\* SeriesDelRange on the destination.
LEMMA DeletionRemoves ==
  ASSUME NEW d \in Destination, NEW a \in Int, NEW b \in Int
  PROVE  /\ ContinuousDeletion(d, a, b) \in Destination
         /\ ContinuousDeletion(d, a, b).samples = Without(d.samples, a, b)
<1>1. d.samples \in Compacted /\ d.last \in Time BY DEF Destination
<1>2. PICK left : left = Without(d.samples, a, b) OBVIOUS
<1>3. left \in Compacted BY <1>1, <1>2, WithoutType
<1>4. Stored(left) # {} => Newest(left) \in Time BY NewestProperty
<1>5. 0 \in Time BY TimeAssumption DEF Time
<1>6. PICK l \in Time : ContinuousDeletion(d, a, b) = [samples |-> left, last |-> l]
  <2> DEFINE l == IF ~(a <= d.last /\ d.last <= b) THEN d.last
                  ELSE IF Stored(left) = {} THEN 0 ELSE Newest(left)
  <2>1. l \in Time BY <1>1, <1>4, <1>5
  <2>2. ContinuousDeletion(d, a, b) = [samples |-> left, last |-> l]
    BY <1>2 DEF ContinuousDeletion, Without
  <2> QED BY <2>1, <2>2
<1> QED BY <1>2, <1>3, <1>6 DEF Destination

----------------------------------------------------------------------------
(***************************************************************************)
(* SeriesCalcRange never reads behind the retention window, and reads all  *)
(* of a bucket that has never been behind it.                              *)
(***************************************************************************)
LEMMA Types ==
  ASSUME TypeOK
  PROVE  /\ src \in SourceMap /\ lastTimestamp \in Time /\ hasRule \in BOOLEAN
         /\ startBucket \in Time \cup {NotStarted} /\ ctx \in Aggregate
         /\ dest \in Destination /\ dest.samples \in Compacted
         /\ since \in Time \cup {-1} /\ horizon \in Time /\ derailed \in BOOLEAN
  BY DEF TypeOK, SourceMap, Destination, Compacted

\* The iterator of SeriesCalcRange clips a range at the retention window, but never one
\* that begins behind the horizon or behind a sample that may still be changed.
LEMMA QueryStarts ==
  ASSUME TypeOK, SourceInv, NEW a \in Time
  PROVE  /\ QueryStart(a) \in Time /\ a <= QueryStart(a)
         /\ horizon <= a => QueryStart(a) = a
         /\ \A t \in Time : a <= t /\ t <= lastTimestamp /\ ~OlderThanRetention(t, lastTimestamp, Retention)
              => QueryStart(a) <= t
         /\ a <= lastTimestamp => QueryStart(a) <= lastTimestamp
         /\ \A t \in Time : ~IsObsolete(t) /\ t <= a => QueryStart(a) = a
  BY Types, RuleAssumption, TimeAssumption DEF QueryStart, SourceInv, Time, OlderThanRetention, IsObsolete

\* Therefore SeriesCalcRange aggregates exactly the bucket.
LEMMA CalcRange ==
  ASSUME TypeOK, SourceInv, NEW s \in SourceMap, NEW a \in Time, NEW b \in Int
  PROVE  /\ SeriesCalcRange(s, a, b) \in Aggregate
         /\ horizon <= a => SeriesCalcRange(s, a, b) = SamplesIn(s, a, b)
         /\ \A t \in Time : ~IsObsolete(t) /\ t <= a => SeriesCalcRange(s, a, b) = SamplesIn(s, a, b)
         /\ \A t \in Stored(SeriesCalcRange(s, a, b)) :
              a <= t /\ t <= b /\ t \in Stored(s) /\ SeriesCalcRange(s, a, b)[t] # Twice
<1>1. QueryStart(a) \in Time /\ QueryStart(a) \in Int /\ a <= QueryStart(a) BY QueryStarts DEF Time
<1>2. \A t \in Time : t \in Int BY DEF Time
<1>3. /\ SamplesIn(s, QueryStart(a), b) \in Aggregate
      /\ \A t \in Stored(SamplesIn(s, QueryStart(a), b)) :
           /\ QueryStart(a) <= t /\ t <= b /\ t \in Stored(s)
           /\ SamplesIn(s, QueryStart(a), b)[t] # Twice
  BY <1>1, SamplesInType
<1>4. SeriesCalcRange(s, a, b) \in Aggregate BY <1>3 DEF SeriesCalcRange
<1>5. horizon <= a => SeriesCalcRange(s, a, b) = SamplesIn(s, a, b)
  BY QueryStarts DEF SeriesCalcRange
<1>6. \A t \in Time : ~IsObsolete(t) /\ t <= a => SeriesCalcRange(s, a, b) = SamplesIn(s, a, b)
  BY QueryStarts DEF SeriesCalcRange
<1>7. ASSUME NEW t \in Stored(SeriesCalcRange(s, a, b))
      PROVE  a <= t /\ t <= b /\ t \in Stored(s) /\ SeriesCalcRange(s, a, b)[t] # Twice
  <2>1. /\ QueryStart(a) <= t /\ t <= b /\ t \in Stored(s)
        /\ SeriesCalcRange(s, a, b)[t] # Twice
    BY <1>3 DEF SeriesCalcRange
  <2>2. t \in Int /\ a \in Int BY <1>2, <2>1 DEF Stored
  <2> QED BY <1>1, <2>1, <2>2
<1> QED BY <1>4, <1>5, <1>6, <1>7

\* It finds a sample that is inside the window.
LEMMA CalcRangeFinds ==
  ASSUME TypeOK, SourceInv, NEW s \in SourceMap, NEW a \in Time, NEW b \in Int,
         NEW t \in Stored(s), a <= t, t <= b,
         \/ t <= lastTimestamp /\ ~OlderThanRetention(t, lastTimestamp, Retention)
         \/ t = lastTimestamp
  PROVE  SeriesCalcRange(s, a, b) # NoSamples
<1>1. t \in Time BY DEF Stored
<1>2. QueryStart(a) \in Int /\ QueryStart(a) <= t BY <1>1, QueryStarts DEF Time
<1> QED BY <1>2, SamplesInSome DEF SeriesCalcRange

----------------------------------------------------------------------------
(***************************************************************************)
(* TS.ADD of a newer sample.                                               *)
(***************************************************************************)
LEMMA AppendSource ==
  ASSUME TypeOK, SourceInv, NEW t \in Time, NEW v \in Inputs, Append(t, v)
  PROVE  /\ src' \in SourceMap /\ lastTimestamp' = t /\ horizon' \in Time
         /\ SourceInv'
         /\ v \in Number /\ t \in Stored(src') /\ src'[t] = v /\ src[t] = NoValue
         /\ \A u \in Stored(src) : u < t
         /\ \A u \in Stored(src') : u <= t
         /\ horizon <= horizon'
         /\ \A u \in Time : horizon <= u /\ u # t => src'[u] = src[u]
         /\ \A u \in Time : u # t /\ src[u] = NoValue => src'[u] = NoValue
<1>0. /\ Retention \in Nat /\ MaxTime \in Nat /\ t \in Nat /\ t <= MaxTime
      /\ src \in SourceMap /\ lastTimestamp \in Time /\ horizon \in Time
      /\ lastTimestamp \in Nat /\ horizon \in Nat
  BY Types, RuleAssumption, TimeAssumption DEF Time
<1>1. v \in Number /\ v # NoValue BY InputAssumption, MarkerAssumption
<1>2. PICK cut \in TrimPoints :
        src' = [u \in Time |-> IF u = t THEN v ELSE IF u < cut THEN NoValue ELSE src[u]]
  BY DEF Append
<1>3. cut \in Nat /\ cut <= horizon
  BY <1>0 DEF TrimPoints, SourceInv
<1>4. lastTimestamp' = t /\ horizon' \in Time /\ horizon <= horizon'
      /\ (Retention > 0 => t <= horizon' + Retention)
  BY <1>0 DEF Append, Time
<1>5. src' \in SourceMap BY <1>0, <1>1, <1>2 DEF SourceMap
<1>6. \A u \in Stored(src) : u < t
  <2> SUFFICES ASSUME NEW u \in Stored(src) PROVE u < t OBVIOUS
  <2>1. u \in Nat /\ u <= lastTimestamp BY DEF SourceInv, IsNewest, Stored, Time
  <2>2. ~(t <= lastTimestamp) BY DEF Append
  <2> QED BY <1>0, <2>1, <2>2
<1>7. src[t] = NoValue BY <1>0, <1>6 DEF Stored
<1>8. t \in Stored(src') /\ src'[t] = v BY <1>1, <1>2 DEF Stored
<1>9. ASSUME NEW u \in Stored(src') PROVE u <= t
  <2>1. u = t \/ src[u] # NoValue BY <1>2 DEF Stored
  <2>2. u \in Nat BY DEF Stored, Time
  <2>3. u = t \/ u \in Stored(src) BY <2>1 DEF Stored
  <2> QED BY <2>2, <2>3, <1>6, <1>0
<1>10. IsNewest(src', lastTimestamp') BY <1>4, <1>8, <1>9 DEF IsNewest
<1>11. SourceInv' BY <1>4, <1>8, <1>10 DEF SourceInv
<1>12. \A u \in Time : horizon <= u /\ u # t => src'[u] = src[u]
  BY <1>0, <1>2, <1>3 DEF Time
<1>13. \A u \in Time : u # t /\ src[u] = NoValue => src'[u] = NoValue BY <1>2
<1> QED BY <1>1, <1>4, <1>5, <1>6, <1>7, <1>8, <1>9, <1>11, <1>12, <1>13

\* The bucket a rule is filling, or will begin with.
StartOf(t) == IF startBucket = NotStarted THEN BucketStart(t) ELSE startBucket

\* What handleCompaction does to the rule and to the destination.
LEMMA HandleCompactionIs ==
  ASSUME TypeOK, NEW t \in Time, NEW v \in Inputs, HandleCompaction(t, v)
  PROVE  /\ StartOf(t) \in Time /\ BucketStart(t) \in Time
         /\ startBucket' = IF BucketStart(t) > StartOf(t) THEN BucketStart(t) ELSE StartOf(t)
         /\ ctx' = IF BucketStart(t) > StartOf(t) THEN AppendValue(NoSamples, t, v)
                   ELSE AppendValue(ctx, t, v)
         /\ dest.samples \in Compacted
         /\ dest'.samples = IF BucketStart(t) > StartOf(t) THEN Put(dest.samples, StartOf(t), ctx)
                            ELSE dest.samples
         /\ startBucket' \in Time /\ ctx' \in Aggregate /\ dest' \in Destination
<1>1. StartOf(t) \in Time /\ BucketStart(t) \in Time
  BY BucketBounds, Types DEF StartOf
<1>2. ctx \in Aggregate /\ NoSamples \in Aggregate /\ v \in Number /\ dest \in Destination /\ dest.samples \in Compacted
  BY Types, NoSamplesType, InputAssumption
<1>3. AppendValue(NoSamples, t, v) \in Aggregate /\ AppendValue(ctx, t, v) \in Aggregate
  BY <1>2, AppendedValue
<1>4. /\ startBucket' = IF BucketStart(t) > StartOf(t) THEN BucketStart(t) ELSE StartOf(t)
      /\ ctx' = IF BucketStart(t) > StartOf(t) THEN AppendValue(NoSamples, t, v)
                ELSE AppendValue(ctx, t, v)
      /\ dest' = IF BucketStart(t) > StartOf(t) THEN InternalAdd(dest, StartOf(t), ctx) ELSE dest
  BY DEF HandleCompaction, StartOf
<1>5. /\ InternalAdd(dest, StartOf(t), ctx) \in Destination
      /\ InternalAdd(dest, StartOf(t), ctx).samples = Put(dest.samples, StartOf(t), ctx)
  BY <1>1, <1>2, InternalAddPuts
<1> QED BY <1>1, <1>2, <1>3, <1>4, <1>5

\* An append preserves the types.
LEMMA AppendType ==
  ASSUME TypeOK, SourceInv, NEW t \in Time, NEW v \in Inputs, Append(t, v)
  PROVE  TypeOK'
<1>1. src' \in SourceMap /\ lastTimestamp' \in Time /\ horizon' \in Time
  BY AppendSource
<1>2. hasRule' \in BOOLEAN /\ since' \in Time \cup {-1} /\ derailed' \in BOOLEAN
  BY Types DEF Append
<1>3. /\ startBucket' \in Time \cup {NotStarted} /\ ctx' \in Aggregate /\ dest' \in Destination
  <2>1. CASE hasRule
    <3>1. HandleCompaction(t, v) BY <2>1 DEF Append
    <3> QED BY <3>1, HandleCompactionIs
  <2>2. CASE ~hasRule
    BY <2>2, Types DEF Append
  <2> QED BY <2>1, <2>2
<1> QED BY <1>1, <1>2, <1>3 DEF TypeOK, SourceMap, Destination, Compacted

\* What the invariant says of a rule that is in step with its source.
LEMMA RuleFacts ==
  ASSUME IndInv, Sound
  PROVE  /\ startBucket = NotStarted => ctx = NoSamples /\ \A u \in Stored(src) : u <= since
         /\ startBucket # NotStarted =>
              /\ startBucket = BucketStart(lastTimestamp) /\ startBucket \in Time
              /\ lastTimestamp \in Stored(src)
              /\ ctx # NoSamples
              /\ \A u \in Stored(ctx) : u <= lastTimestamp /\ BucketStart(u) = startBucket /\ ctx[u] # Twice
              /\ since < startBucket /\ horizon <= startBucket
                   => ctx = SamplesIn(src, startBucket, BucketEnd(startBucket))
         /\ \A u \in Stored(src) : u <= lastTimestamp
         /\ ClosedBucketsExact /\ CompactedSamplesClosed
<1>1. /\ IF startBucket = NotStarted THEN Unstarted ELSE Started
      /\ LatestBucketExact /\ ClosedBucketsExact /\ CompactedSamplesClosed
  BY DEF IndInv, RuleInv
<1>2. startBucket \in Time \cup {NotStarted} BY Types DEF IndInv
<1>3. Stored(src) # {} => IsNewest(src, lastTimestamp) BY DEF IndInv, SourceInv
<1>4. \A u \in Stored(src) : u <= lastTimestamp BY <1>3 DEF IsNewest
<1>5. startBucket = NotStarted => ctx = NoSamples /\ \A u \in Stored(src) : u <= since
  BY <1>1 DEF Unstarted
<1>6. ASSUME startBucket # NotStarted
      PROVE  /\ startBucket = BucketStart(lastTimestamp) /\ startBucket \in Time
             /\ lastTimestamp \in Stored(src)
             /\ ctx # NoSamples
             /\ \A u \in Stored(ctx) : u <= lastTimestamp /\ BucketStart(u) = startBucket /\ ctx[u] # Twice
             /\ since < startBucket /\ horizon <= startBucket
                  => ctx = SamplesIn(src, startBucket, BucketEnd(startBucket))
  <2>1. Started BY <1>1, <1>6
  <2>2. lastTimestamp \in Stored(src) BY <2>1, <1>3 DEF Started, IsNewest
  <2>3. since < startBucket /\ horizon <= startBucket => ctx = SamplesIn(src, startBucket, BucketEnd(startBucket))
    BY <1>1 DEF LatestBucketExact
  <2> QED BY <2>1, <2>2, <2>3, <1>2, <1>6 DEF Started
<1> QED BY <1>1, <1>4, <1>5, <1>6

\* Compacted samples are older than the newest bucket, and so is everything in them.
LEMMA CompactedOlder ==
  ASSUME CompactedSamplesClosed, Sound, NEW b \in Time, dest.samples[b] # NoValue
  PROVE  b < BucketStart(lastTimestamp)
  BY DEF CompactedSamplesClosed, Stored

\* What an append does to a rule that is on course.
LEMMA AppendContext ==
  ASSUME IndInv, NEW t \in Time, NEW v \in Inputs, Append(t, v), Sound
  PROVE  /\ startBucket' = BucketStart(t)
         /\ BucketStart(lastTimestamp) <= BucketStart(t)
         /\ ctx'[t] = v
         /\ \A u \in Time : u # t =>
              ctx'[u] = IF startBucket # NotStarted /\ BucketStart(t) = startBucket THEN ctx[u] ELSE NoValue
         /\ dest'.samples = IF startBucket # NotStarted /\ startBucket < BucketStart(t)
                            THEN Put(dest.samples, startBucket, ctx) ELSE dest.samples
<1>1. TypeOK /\ SourceInv BY DEF IndInv
<1>2. HandleCompaction(t, v) BY DEF Append, Sound
<1>3. /\ StartOf(t) \in Time /\ BucketStart(t) \in Time
      /\ startBucket' = IF BucketStart(t) > StartOf(t) THEN BucketStart(t) ELSE StartOf(t)
      /\ ctx' = IF BucketStart(t) > StartOf(t) THEN AppendValue(NoSamples, t, v)
                ELSE AppendValue(ctx, t, v)
      /\ dest'.samples = IF BucketStart(t) > StartOf(t) THEN Put(dest.samples, StartOf(t), ctx)
                         ELSE dest.samples
  BY <1>1, <1>2, HandleCompactionIs
<1>4. lastTimestamp \in Time /\ ctx \in Aggregate /\ NoSamples \in Aggregate /\ v \in Number
  BY <1>1, Types, NoSamplesType, InputAssumption
<1>5. lastTimestamp <= t
  <2>1. CASE Stored(src) = {} BY <2>1, <1>1 DEF SourceInv, Time
  <2>2. CASE Stored(src) # {}
    <3>1. lastTimestamp \in Stored(src) BY <2>2, <1>1 DEF SourceInv, IsNewest
    <3>2. lastTimestamp < t BY <1>1, <3>1, AppendSource
    <3> QED BY <3>2, <1>4 DEF Time
  <2> QED BY <2>1, <2>2
<1>6. BucketStart(lastTimestamp) <= BucketStart(t) /\ BucketStart(lastTimestamp) \in Time
  BY <1>4, <1>5, BucketOrder, BucketBounds
<1>7. /\ startBucket = NotStarted => ctx = NoSamples
      /\ startBucket # NotStarted => /\ startBucket = BucketStart(lastTimestamp)
                                     /\ lastTimestamp \in Stored(src)
                                     /\ \A u \in Stored(ctx) : u <= lastTimestamp
  BY RuleFacts
<1>8. ctx[t] = NoValue /\ NoSamples[t] = NoValue
  <2>1. NoSamples[t] = NoValue BY DEF NoSamples
  <2>2. CASE startBucket = NotStarted BY <2>1, <2>2, <1>7
  <2>3. CASE startBucket # NotStarted
    <3>1. lastTimestamp < t BY <2>3, <1>1, <1>7, AppendSource
    <3>2. t \notin Stored(ctx) BY <3>1, <2>3, <1>4, <1>7 DEF Time
    <3> QED BY <2>1, <3>2 DEF Stored
  <2> QED BY <2>2, <2>3
<1>9. /\ AppendValue(ctx, t, v)[t] = v /\ AppendValue(NoSamples, t, v)[t] = v
      /\ \A u \in Time : u # t => AppendValue(ctx, t, v)[u] = ctx[u]
      /\ \A u \in Time : u # t => AppendValue(NoSamples, t, v)[u] = NoValue
  <2>1. \A u \in Time : NoSamples[u] = NoValue BY DEF NoSamples
  <2> QED BY <2>1, <1>4, <1>8, AppendedValue
<1>10. CASE startBucket = NotStarted
  <2>1. StartOf(t) = BucketStart(t) BY <1>10 DEF StartOf
  <2>2. ~(BucketStart(t) > StartOf(t)) BY <2>1, <1>3 DEF Time
  <2>3. \A u \in Time : ctx[u] = NoValue BY <1>7, <1>10 DEF NoSamples
  <2> QED BY <2>1, <2>2, <2>3, <1>3, <1>6, <1>9, <1>10
<1>11. CASE startBucket # NotStarted
  <2>1. StartOf(t) = startBucket BY <1>11 DEF StartOf
  <2>2. startBucket \in Nat /\ BucketStart(t) \in Nat /\ startBucket <= BucketStart(t)
    BY <2>1, <1>3, <1>6, <1>7, <1>11 DEF Time
  <2>3. CASE startBucket = BucketStart(t)
    BY <2>1, <2>2, <2>3, <1>3, <1>6, <1>9, <1>11
  <2>4. CASE startBucket < BucketStart(t)
    BY <2>1, <2>2, <2>4, <1>3, <1>6, <1>9, <1>11
  <2> QED BY <2>2, <2>3, <2>4
<1> QED BY <1>10, <1>11

\* Afterwards the rule has started with the bucket of the new sample.
LEMMA AppendStarted ==
  ASSUME IndInv, NEW t \in Time, NEW v \in Inputs, Append(t, v), Sound
  PROVE  startBucket' # NotStarted /\ Started'
<1>1. TypeOK /\ SourceInv BY DEF IndInv
<1>2. lastTimestamp' = t /\ t \in Stored(src') /\ v \in Number BY <1>1, AppendSource
<1>3. BucketStart(t) \in Time /\ startBucket' = BucketStart(t) /\ startBucket' # NotStarted
  BY AppendContext, BucketBounds DEF Time, NotStarted
<1>4. v # NoValue /\ v # Twice BY <1>2, InputAssumption, MarkerAssumption DEF Value
<1>5. ctx' # NoSamples
  <2>1. ctx'[t] = v BY AppendContext
  <2>2. NoSamples[t] = NoValue BY DEF NoSamples
  <2> QED BY <2>1, <2>2, <1>4
<1>6. ASSUME NEW u \in Stored(ctx')
      PROVE  u <= t /\ BucketStart(u) = startBucket' /\ ctx'[u] # Twice
  <2>0. u \in Time /\ ctx'[u] # NoValue BY <1>6 DEF Stored
  <2>1. CASE u = t BY <2>1, <1>3, <1>4, AppendContext DEF Time
  <2>2. CASE u # t
    <3>1. startBucket # NotStarted /\ BucketStart(t) = startBucket /\ ctx'[u] = ctx[u]
      BY <2>0, <2>2, AppendContext
    <3>2. u \in Stored(ctx) BY <2>0, <3>1 DEF Stored
    <3>3. u <= lastTimestamp /\ BucketStart(u) = startBucket /\ ctx[u] # Twice /\ lastTimestamp \in Stored(src)
      BY <3>1, <3>2, RuleFacts
    <3>4. lastTimestamp < t BY <1>1, <3>3, AppendSource
    <3>5. lastTimestamp \in Int /\ t \in Int /\ u \in Int BY <2>0, <1>1, Types DEF Time
    <3> QED BY <1>3, <3>1, <3>3, <3>4, <3>5
  <2> QED BY <2>1, <2>2
<1> QED BY <1>2, <1>3, <1>5, <1>6 DEF Started

\* The context is the open bucket's.
LEMMA AppendLatest ==
  ASSUME IndInv, NEW t \in Time, NEW v \in Inputs, Append(t, v), Sound
  PROVE  LatestBucketExact'
<1>1. TypeOK /\ SourceInv BY DEF IndInv
<1>2. since' = since BY DEF Append
<1>3. BucketStart(t) \in Time /\ startBucket' = BucketStart(t) /\ lastTimestamp' = t
  BY <1>1, AppendContext, BucketBounds, AppendSource
<1> SUFFICES ASSUME since < BucketStart(t), horizon' <= BucketStart(t)
             PROVE  ctx' = SamplesIn(src', BucketStart(t), BucketEnd(BucketStart(t)))
  BY <1>2, <1>3 DEF LatestBucketExact
<1> DEFINE n == BucketStart(t)
<1>4. n \in Time /\ BucketStart(n) = n /\ BucketEnd(n) \in Int
  <2>1. n \in BucketStarts BY DEF BucketStarts
  <2> QED BY <2>1, BucketOfStart, BucketBounds
<1>5. n <= t /\ t <= BucketEnd(n) BY <1>4, BucketMembers
<1>6. horizon \in Int /\ horizon' \in Int /\ horizon <= horizon' /\ n \in Int /\ since \in Int
      /\ lastTimestamp \in Time
  BY <1>1, <1>4, Types, AppendSource DEF Time
<1>7. \A u \in Time : n <= u /\ u # t => src'[u] = src[u]
  <2>1. \A u \in Time : u \in Int BY DEF Time
  <2> QED BY <2>1, <1>1, <1>6, AppendSource
<1>8. ctx' \in Aggregate /\ src' \in SourceMap
  <2>1. TypeOK' BY <1>1, AppendType
  <2> QED BY <2>1, <1>1, AppendSource DEF TypeOK
<1>9. ctx'[t] = v /\ src'[t] = v BY <1>1, AppendContext, AppendSource
<1> HIDE DEF n
<1>10. ASSUME NEW u \in Time, u # t
       PROVE  ctx'[u] = IF n <= u /\ u <= BucketEnd(n) THEN src'[u] ELSE NoValue
  <2>0. u \in Int /\ n \in Int /\ BucketEnd(n) \in Int BY <1>4 DEF Time
  <2>1. CASE startBucket # NotStarted /\ n = startBucket
    <3>1. ctx'[u] = ctx[u] BY <2>1, <1>10, AppendContext DEF n
    <3>2. ctx = SamplesIn(src, n, BucketEnd(n))
      <4>1. since < startBucket /\ horizon <= startBucket BY <2>1, <1>6 DEF n
      <4> QED BY <2>1, <4>1, RuleFacts
    <3>3. ctx[u] = IF n <= u /\ u <= BucketEnd(n) THEN src[u] ELSE NoValue
      BY <3>2 DEF SamplesIn
    <3> QED BY <3>1, <3>3, <1>7, <1>10
  <2>2. CASE ~(startBucket # NotStarted /\ n = startBucket)
    <3>1. ctx'[u] = NoValue BY <2>2, <1>10, AppendContext DEF n
    <3>2. ASSUME n <= u, u <= BucketEnd(n), u \in Stored(src) PROVE FALSE
      <4>1. BucketStart(u) = n BY <1>4, <3>2, BucketMembers
      <4>2. CASE startBucket = NotStarted
        <5>1. u <= since BY <4>2, <3>2, RuleFacts
        <5> QED BY <5>1, <3>2, <2>0, <1>6 DEF n
      <4>3. CASE startBucket # NotStarted
        <5>1. u <= lastTimestamp /\ startBucket = BucketStart(lastTimestamp) BY <4>3, <3>2, RuleFacts
        <5>2. BucketStart(u) <= startBucket BY <5>1, <1>6, BucketOrder
        <5>3. startBucket <= n BY <5>1, AppendContext DEF n
        <5>4. startBucket \in Int BY <5>1, <1>6, BucketBounds DEF Time
        <5> QED BY <5>2, <5>3, <5>4, <4>1, <4>3, <2>0, <2>2
      <4> QED BY <4>2, <4>3
    <3>3. n <= u /\ u <= BucketEnd(n) => src'[u] = NoValue BY <3>2, <1>7, <1>10 DEF Stored
    <3> QED BY <3>1, <3>3
  <2> QED BY <2>1, <2>2
<1>11. \A u \in Time : ctx'[u] = IF n <= u /\ u <= BucketEnd(n) THEN src'[u] ELSE NoValue
  BY <1>5, <1>9, <1>10
<1>12. ctx' = SamplesIn(src', n, BucketEnd(n))
  <2>1. n \in Int BY <1>4 DEF Time
  <2> QED BY <2>1, <1>4, <1>8, <1>11, AggregateIs
<1> QED BY <1>12 DEF n

\* The bucket that was closed, if any, is exact, and the others are as before.
LEMMA AppendClosed ==
  ASSUME IndInv, NEW t \in Time, NEW v \in Inputs, Append(t, v), Sound
  PROVE  ClosedBucketsExact'
<1>1. TypeOK /\ SourceInv BY DEF IndInv
<1>2. since' = since BY DEF Append
<1>3. BucketStart(t) \in Time /\ startBucket' = BucketStart(t) /\ lastTimestamp' = t
  BY <1>1, AppendContext, BucketBounds, AppendSource
<1> SUFFICES ASSUME NEW b \in BucketStarts, b < BucketStart(t), since < b, horizon' <= b
             PROVE  dest'.samples[b] = IF SamplesIn(src', b, BucketEnd(b)) = NoSamples
                                       THEN NoValue ELSE SamplesIn(src', b, BucketEnd(b))
  BY <1>2, <1>3 DEF ClosedBucketsExact
<1>4. b \in Time /\ BucketStart(b) = b /\ BucketEnd(b) \in Int /\ b \in Int
  BY BucketOfStart, BucketBounds DEF Time
<1>5. BucketEnd(b) < BucketStart(t) /\ BucketStart(t) <= t /\ BucketStart(t) \in Int /\ t \in Int
  BY <1>4, BucketOrder, BucketBounds DEF Time
<1>6. horizon \in Int /\ horizon' \in Int /\ horizon <= horizon' /\ since \in Int /\ lastTimestamp \in Time
      /\ src \in SourceMap /\ src' \in SourceMap /\ dest.samples \in Compacted
  BY <1>1, Types, AppendSource DEF Time
<1>7. SamplesIn(src', b, BucketEnd(b)) = SamplesIn(src, b, BucketEnd(b))
  <2>1. ASSUME NEW u \in Time, b <= u, u <= BucketEnd(b) PROVE src'[u] = src[u]
    <3>1. u \in Int BY DEF Time
    <3>2. horizon <= u /\ u # t BY <3>1, <2>1, <1>4, <1>5, <1>6
    <3> QED BY <3>2, <1>1, AppendSource
  <2> QED BY <2>1, <1>4, <1>6, SamplesInSame
<1>8. CASE startBucket = NotStarted
  <2>1. ASSUME NEW u \in Time, b <= u, u <= BucketEnd(b) PROVE src[u] = NoValue
    <3>1. u \in Int /\ ~(u <= since) BY <2>1, <1>4, <1>6 DEF Time
    <3>2. u \notin Stored(src) BY <3>1, <1>8, RuleFacts
    <3> QED BY <3>2 DEF Stored
  <2>2. SamplesIn(src, b, BucketEnd(b)) = NoSamples BY <2>1, <1>4, <1>6, SamplesInNone
  <2>3. dest.samples[b] = NoValue
    <3> SUFFICES ASSUME dest.samples[b] # NoValue PROVE FALSE OBVIOUS
    <3>1. b < BucketStart(lastTimestamp) BY <1>4, RuleFacts, CompactedOlder
    <3>2. b < lastTimestamp /\ lastTimestamp \in Int BY <3>1, <1>4, <1>6, BucketBounds DEF Time
    <3>3. lastTimestamp \in Stored(src)
      BY <3>2, <1>1, <1>4 DEF SourceInv, IsNewest, Time
    <3>4. lastTimestamp <= since BY <3>3, <1>8, RuleFacts
    <3> QED BY <3>2, <3>4, <1>4, <1>6
  <2>4. dest'.samples = dest.samples BY <1>8, AppendContext
  <2> QED BY <2>2, <2>3, <2>4, <1>7
<1>9. CASE startBucket # NotStarted
  <2>1. /\ startBucket = BucketStart(lastTimestamp) /\ startBucket \in Time /\ startBucket \in Int
        /\ lastTimestamp \in Stored(src) /\ ctx \in Aggregate
    BY <1>1, <1>9, RuleFacts, Types DEF Time
  <2>2. startBucket <= BucketStart(t) BY <2>1, AppendContext
  <2>3. CASE b < startBucket
    <3>1. dest'.samples[b] = dest.samples[b]
      BY <2>1, <2>3, <1>4, <1>6, AppendContext, PutType
    <3>2. horizon <= b BY <1>4, <1>6
    <3>3. ClosedBucketsExact BY RuleFacts
    <3>4. dest.samples[b] = IF SamplesIn(src, b, BucketEnd(b)) = NoSamples
                            THEN NoValue ELSE SamplesIn(src, b, BucketEnd(b))
      BY <2>3, <3>2, <3>3 DEF ClosedBucketsExact
    <3> QED BY <3>1, <3>4, <1>7
  <2>4. CASE b = startBucket
    <3>1. dest'.samples[b] = ctx
      BY <2>1, <2>4, <1>4, <1>6, <1>9, AppendContext, PutType
    <3>2. horizon <= b BY <1>4, <1>6
    <3>3. ctx = SamplesIn(src, b, BucketEnd(b)) /\ ctx # NoSamples
      BY <3>2, <2>4, <1>9, RuleFacts
    <3> QED BY <3>1, <3>3, <1>7
  <2>5. CASE startBucket < b
    <3>0. b # startBucket BY <2>1, <2>5, <1>4
    <3>1. dest'.samples[b] = dest.samples[b]
      <4>1. Put(dest.samples, startBucket, ctx)[b] = dest.samples[b] BY <3>0, <2>1, <1>4, <1>6, PutType
      <4> QED BY <4>1, AppendContext
    <3>2. dest.samples[b] = NoValue
      <4> SUFFICES ASSUME dest.samples[b] # NoValue PROVE FALSE OBVIOUS
      <4>1. b < startBucket BY <2>1, <1>4, RuleFacts, CompactedOlder
      <4> QED BY <4>1, <2>1, <2>5, <1>4
    <3>3. BucketEnd(lastTimestamp) < b /\ lastTimestamp <= BucketEnd(lastTimestamp) /\ BucketEnd(lastTimestamp) \in Int
      BY <2>1, <2>5, <1>4, <1>6, BucketOrder, BucketBounds
    <3>4. ASSUME NEW u \in Time, b <= u, u <= BucketEnd(b) PROVE src[u] = NoValue
      <4>1. u \in Int /\ lastTimestamp \in Int BY <1>6 DEF Time
      <4>2. ~(u <= lastTimestamp) BY <4>1, <3>3, <3>4, <1>4
      <4>3. u \notin Stored(src) BY <4>2, RuleFacts
      <4> QED BY <4>3 DEF Stored
    <3>5. SamplesIn(src, b, BucketEnd(b)) = NoSamples BY <3>4, <1>4, <1>6, SamplesInNone
    <3> QED BY <3>1, <3>2, <3>5, <1>7
  <2> QED BY <2>1, <2>3, <2>4, <2>5, <1>4
<1> QED BY <1>8, <1>9

\* No sample was compacted for a bucket that is still open.
LEMMA AppendCompacted ==
  ASSUME IndInv, NEW t \in Time, NEW v \in Inputs, Append(t, v), Sound
  PROVE  CompactedSamplesClosed'
<1>1. TypeOK /\ SourceInv BY DEF IndInv
<1>2. BucketStart(t) \in Int /\ lastTimestamp' = t
  BY <1>1, BucketBounds, AppendSource DEF Time
<1> SUFFICES ASSUME NEW b \in Stored(dest'.samples)
             PROVE  /\ b < BucketStart(t)
                    /\ dest'.samples[b] # NoSamples
                    /\ \A u \in Stored(dest'.samples[b]) : BucketStart(u) = b /\ dest'.samples[b][u] # Twice
  BY <1>2 DEF CompactedSamplesClosed
<1>3. b \in Time /\ b \in Int /\ dest'.samples[b] # NoValue BY DEF Stored, Time
<1>4. /\ lastTimestamp \in Time /\ dest.samples \in Compacted /\ ctx \in Aggregate
      /\ BucketStart(lastTimestamp) \in Int
  BY <1>1, Types, BucketBounds DEF Time
<1>5. BucketStart(lastTimestamp) <= BucketStart(t) BY AppendContext
<1>6. CASE startBucket # NotStarted /\ startBucket < BucketStart(t) /\ b = startBucket
  <2>1. dest'.samples[b] = ctx BY <1>3, <1>4, <1>6, AppendContext, PutType
  <2> QED BY <2>1, <1>6, RuleFacts
<1>7. CASE ~(startBucket # NotStarted /\ startBucket < BucketStart(t) /\ b = startBucket)
  <2>1. dest'.samples[b] = dest.samples[b]
    <3>1. CASE startBucket # NotStarted /\ startBucket < BucketStart(t)
      <4>1. startBucket \in Time BY <3>1, RuleFacts
      <4>2. Put(dest.samples, startBucket, ctx)[b] = dest.samples[b] BY <3>1, <4>1, <1>3, <1>4, <1>7, PutType
      <4> QED BY <4>2, AppendContext
    <3>2. CASE ~(startBucket # NotStarted /\ startBucket < BucketStart(t))
      BY <3>2, AppendContext
    <3> QED BY <3>1, <3>2
  <2>2. b \in Stored(dest.samples) BY <2>1, <1>3 DEF Stored
  <2>3. CompactedSamplesClosed BY RuleFacts
  <2>4. /\ b < BucketStart(lastTimestamp)
        /\ dest.samples[b] # NoSamples
        /\ \A u \in Stored(dest.samples[b]) : BucketStart(u) = b /\ dest.samples[b][u] # Twice
    BY <2>2, <2>3 DEF CompactedSamplesClosed
  <2> QED BY <2>1, <2>4, <1>2, <1>3, <1>4, <1>5
<1> QED BY <1>6, <1>7

\* An append preserves the invariant.
LEMMA AppendStep ==
  ASSUME IndInv, NEW t \in Time, NEW v \in Inputs, Append(t, v)
  PROVE  IndInv'
<1>1. TypeOK' /\ SourceInv' BY AppendType, AppendSource DEF IndInv
<1>2. ASSUME Sound' PROVE Sound BY <1>2 DEF Sound, Append
<1>3. RuleInv'
  BY <1>2, AppendStarted, AppendLatest, AppendClosed, AppendCompacted DEF RuleInv
<1> QED BY <1>1, <1>3 DEF IndInv

----------------------------------------------------------------------------
(***************************************************************************)
(* TS.ADD at or before lastTimestamp.                                      *)
(***************************************************************************)
LEMMA UpsertSource ==
  ASSUME TypeOK, SourceInv, NEW t \in Time, NEW v \in Inputs, Upsert(t, v)
  PROVE  /\ src' \in SourceMap /\ lastTimestamp' = lastTimestamp /\ horizon' = horizon
         /\ SourceInv'
         /\ t <= lastTimestamp /\ ~OlderThanRetention(t, lastTimestamp, Retention)
         /\ t \in Stored(src') /\ lastTimestamp \in Stored(src)
         /\ \A u \in Stored(src') : u <= lastTimestamp
         /\ \A u \in Time : u # t => src'[u] = src[u]
<1>0. src \in SourceMap /\ lastTimestamp \in Time /\ lastTimestamp \in Int /\ t \in Int BY Types DEF Time
<1>1. v \in Number /\ v # NoValue BY InputAssumption, MarkerAssumption
<1>2. /\ src' = [src EXCEPT ![t] = v] /\ lastTimestamp' = lastTimestamp /\ horizon' = horizon
      /\ t <= lastTimestamp /\ ~OlderThanRetention(t, lastTimestamp, Retention)
      /\ Stored(src) # {}
  BY DEF Upsert
<1>3. IsNewest(src, lastTimestamp) BY <1>2 DEF SourceInv
<1>4. src' \in SourceMap /\ src'[t] = v /\ \A u \in Time : u # t => src'[u] = src[u]
  BY <1>0, <1>1, <1>2 DEF SourceMap
<1>5. \A u \in Stored(src') : u <= lastTimestamp
  BY <1>0, <1>2, <1>3, <1>4 DEF Stored, IsNewest
<1>6. lastTimestamp \in Stored(src') /\ t \in Stored(src')
  BY <1>0, <1>1, <1>3, <1>4 DEF Stored, IsNewest
<1>7. IsNewest(src', lastTimestamp') BY <1>2, <1>5, <1>6 DEF IsNewest
<1>8. SourceInv' BY <1>2, <1>6, <1>7 DEF SourceInv
<1> QED BY <1>2, <1>3, <1>4, <1>5, <1>6, <1>8 DEF IsNewest

\* What upsertCompaction does: the open bucket is recalculated in the context, an older one
\* in the destination.
LEMMA UpsertCompactionIs ==
  ASSUME TypeOK, SourceInv, NEW t \in Time, NEW v \in Inputs, Upsert(t, v), hasRule
  PROVE  /\ BucketStart(lastTimestamp) \in Time /\ BucketStart(t) \in Time
         /\ t >= BucketStart(lastTimestamp) =>
              /\ ctx' = SeriesCalcRange(src', BucketStart(lastTimestamp), BucketEnd(lastTimestamp))
              /\ ctx' \in Aggregate /\ dest' = dest
         /\ ~(t >= BucketStart(lastTimestamp)) =>
              /\ ctx' = ctx
              /\ dest' \in Destination
              /\ SeriesCalcRange(src', BucketStart(t), BucketEnd(t)) \in Aggregate
              /\ dest'.samples = Put(dest.samples, BucketStart(t), SeriesCalcRange(src', BucketStart(t), BucketEnd(t)))
<1>1. /\ BucketStart(lastTimestamp) \in Time /\ BucketEnd(lastTimestamp) \in Int
      /\ BucketStart(t) \in Time /\ BucketEnd(t) \in Int
  BY Types, BucketBounds
<1>2. src' \in SourceMap BY UpsertSource
<1>3. UpsertCompaction(src', t) BY DEF Upsert
<1>4. /\ SeriesCalcRange(src', BucketStart(lastTimestamp), BucketEnd(lastTimestamp)) \in Aggregate
      /\ SeriesCalcRange(src', BucketStart(t), BucketEnd(t)) \in Aggregate
  BY <1>1, <1>2, CalcRange
<1>5. dest \in Destination BY Types
<1>6. CASE t >= BucketStart(lastTimestamp)
  BY <1>1, <1>3, <1>4, <1>6 DEF UpsertCompaction
<1>7. CASE ~(t >= BucketStart(lastTimestamp))
  <2>1. PICK agg \in Aggregate : agg = SeriesCalcRange(src', BucketStart(t), BucketEnd(t)) BY <1>4
  <2>2. ctx' = ctx /\ dest' = RuleSeriesUpsertSample(dest, BucketStart(t), agg)
    BY <2>1, <1>3, <1>7 DEF UpsertCompaction
  <2>3. /\ RuleSeriesUpsertSample(dest, BucketStart(t), agg) \in Destination
        /\ RuleSeriesUpsertSample(dest, BucketStart(t), agg).samples = Put(dest.samples, BucketStart(t), agg)
    BY <1>1, <1>5, UpsertSamplePuts
  <2> QED BY <2>1, <2>2, <2>3, <1>1, <1>4, <1>7
<1> QED BY <1>6, <1>7

\* The history variable is a Boolean.
LEMMA DerailType ==
  ASSUME TypeOK, Derail
  PROVE  derailed' \in BOOLEAN
  BY DEF Derail

\* An upsert preserves the types.
LEMMA UpsertType ==
  ASSUME TypeOK, SourceInv, NEW t \in Time, NEW v \in Inputs, Upsert(t, v)
  PROVE  TypeOK'
<1>1. src' \in SourceMap /\ lastTimestamp' \in Time /\ horizon' \in Time
  BY UpsertSource, Types
<1>2. /\ hasRule' \in BOOLEAN /\ since' \in Time \cup {-1} /\ derailed' \in BOOLEAN
      /\ startBucket' \in Time \cup {NotStarted}
  BY Types, DerailType DEF Upsert
<1>3. ctx' \in Aggregate /\ dest' \in Destination
  <2>1. CASE hasRule
    BY <2>1, UpsertCompactionIs, Types
  <2>2. CASE ~hasRule
    BY <2>2, Types DEF Upsert
  <2> QED BY <2>1, <2>2
<1> QED BY <1>1, <1>2, <1>3 DEF TypeOK, SourceMap, Destination, Compacted

\* A sample in the newest bucket: the context is recalculated.
LEMMA UpsertNewest ==
  ASSUME IndInv, NEW t \in Time, NEW v \in Inputs, Upsert(t, v), Sound, Sound',
         t >= BucketStart(lastTimestamp)
  PROVE  /\ startBucket' # NotStarted /\ Started'
         /\ LatestBucketExact' /\ ClosedBucketsExact' /\ CompactedSamplesClosed'
<1>1. TypeOK /\ SourceInv /\ hasRule BY DEF IndInv, Sound
<1>2. lastTimestamp' = lastTimestamp /\ startBucket' = startBucket /\ since' = since /\ horizon' = horizon
  BY DEF Upsert
<1>3. /\ ctx' = SeriesCalcRange(src', BucketStart(lastTimestamp), BucketEnd(lastTimestamp))
      /\ ctx' \in Aggregate /\ dest' = dest
  BY <1>1, UpsertCompactionIs
<1>4. /\ lastTimestamp \in Time /\ lastTimestamp \in Int /\ BucketStart(lastTimestamp) \in Time
      /\ BucketStart(lastTimestamp) \in Int
      /\ BucketEnd(lastTimestamp) \in Int /\ lastTimestamp <= BucketEnd(lastTimestamp) /\ t \in Int
      /\ src \in SourceMap /\ src' \in SourceMap /\ since \in Int /\ horizon \in Int
  BY <1>1, Types, BucketBounds, UpsertSource DEF Time
<1>5. /\ t <= lastTimestamp /\ ~OlderThanRetention(t, lastTimestamp, Retention)
      /\ t \in Stored(src') /\ lastTimestamp \in Stored(src)
      /\ \A u \in Stored(src') : u <= lastTimestamp
      /\ \A u \in Time : u # t => src'[u] = src[u]
  BY <1>1, UpsertSource
<1>6. ctx' # NoSamples
  BY <1>1, <1>3, <1>4, <1>5, CalcRangeFinds
<1>7. startBucket # NotStarted
  BY <1>1, <1>6 DEF Upsert, Derail, ContextWithoutBucket, Sound
<1>8. startBucket = BucketStart(lastTimestamp) BY <1>7, RuleFacts
<1>9. ASSUME NEW u \in Stored(ctx')
      PROVE  u <= lastTimestamp /\ BucketStart(u) = startBucket /\ ctx'[u] # Twice
  <2>1. /\ BucketStart(lastTimestamp) <= u /\ u <= BucketEnd(lastTimestamp) /\ u \in Stored(src')
        /\ ctx'[u] # Twice
    BY <1>1, <1>3, <1>4, <1>9, CalcRange
  <2>2. u \in Time BY DEF Stored
  <2> QED BY <2>1, <2>2, <1>4, <1>5, <1>8, BucketMembers
<1>10. Started' BY <1>2, <1>5, <1>6, <1>8, <1>9 DEF Started
<1>11. LatestBucketExact'
  <2> SUFFICES ASSUME horizon <= startBucket
               PROVE  ctx' = SamplesIn(src', startBucket, BucketEnd(startBucket))
    BY <1>2, <1>8 DEF LatestBucketExact
  <2>1. BucketEnd(startBucket) = BucketEnd(lastTimestamp)
    <3>1. startBucket \in BucketStarts BY <1>4, <1>8 DEF BucketStarts
    <3>2. startBucket \in Time /\ BucketStart(startBucket) = BucketStart(lastTimestamp)
      BY <3>1, <1>8, BucketOfStart
    <3> QED BY <3>2, <1>4, BucketMembers
  <2> QED BY <2>1, <1>1, <1>3, <1>4, <1>8, CalcRange
<1>12. ClosedBucketsExact'
  <2> SUFFICES ASSUME NEW b \in BucketStarts, b < startBucket, since < b, horizon <= b
               PROVE  dest.samples[b] = IF SamplesIn(src', b, BucketEnd(b)) = NoSamples
                                        THEN NoValue ELSE SamplesIn(src', b, BucketEnd(b))
    BY <1>2, <1>3 DEF ClosedBucketsExact
  <2>1. b \in Time /\ b \in Int /\ BucketStart(b) = b /\ BucketEnd(b) \in Int
    BY BucketOfStart, BucketBounds DEF Time
  <2>2. BucketEnd(b) < startBucket BY <2>1, <1>4, <1>8, BucketOrder
  <2>3. ASSUME NEW u \in Time, b <= u, u <= BucketEnd(b) PROVE src'[u] = src[u]
    <3>1. u \in Int BY DEF Time
    <3>2. u # t BY <3>1, <2>1, <2>2, <2>3, <1>4, <1>8
    <3> QED BY <3>2, <1>5
  <2>4. SamplesIn(src', b, BucketEnd(b)) = SamplesIn(src, b, BucketEnd(b))
    BY <2>1, <2>3, <1>4, SamplesInSame
  <2>5. ClosedBucketsExact BY RuleFacts
  <2> QED BY <2>4, <2>5 DEF ClosedBucketsExact
<1>13. CompactedSamplesClosed'
  <2>1. CompactedSamplesClosed BY RuleFacts
  <2> QED BY <2>1, <1>2, <1>3 DEF CompactedSamplesClosed
<1> QED BY <1>2, <1>7, <1>10, <1>11, <1>12, <1>13

\* A sample in an older bucket: its compacted sample is recalculated.
LEMMA UpsertOlder ==
  ASSUME IndInv, NEW t \in Time, NEW v \in Inputs, Upsert(t, v), Sound,
         ~(t >= BucketStart(lastTimestamp))
  PROVE  /\ IF startBucket' = NotStarted THEN Unstarted' ELSE Started'
         /\ LatestBucketExact' /\ ClosedBucketsExact' /\ CompactedSamplesClosed'
<1>1. TypeOK /\ SourceInv /\ hasRule BY DEF IndInv, Sound
<1>2. lastTimestamp' = lastTimestamp /\ startBucket' = startBucket /\ since' = since /\ horizon' = horizon
  BY DEF Upsert
<1>3. PICK agg \in Aggregate : agg = SeriesCalcRange(src', BucketStart(t), BucketEnd(t))
  BY <1>1, UpsertCompactionIs
<1>4. ctx' = ctx /\ dest'.samples = Put(dest.samples, BucketStart(t), agg)
  BY <1>1, <1>3, UpsertCompactionIs
<1>5. /\ lastTimestamp \in Time /\ lastTimestamp \in Int /\ BucketStart(lastTimestamp) \in Int
      /\ BucketStart(lastTimestamp) <= lastTimestamp
      /\ BucketStart(t) \in Time /\ BucketStart(t) \in Int /\ BucketEnd(t) \in Int
      /\ BucketStart(t) <= t /\ t <= BucketEnd(t) /\ t \in Int
      /\ src \in SourceMap /\ src' \in SourceMap /\ since \in Int /\ horizon \in Int
      /\ dest.samples \in Compacted
  BY <1>1, Types, BucketBounds, UpsertSource DEF Time
<1>6. /\ t <= lastTimestamp /\ ~OlderThanRetention(t, lastTimestamp, Retention)
      /\ t \in Stored(src') /\ lastTimestamp \in Stored(src)
      /\ \A u \in Stored(src') : u <= lastTimestamp
      /\ \A u \in Time : u # t => src'[u] = src[u]
  BY <1>1, UpsertSource
<1>7. /\ Put(dest.samples, BucketStart(t), agg)[BucketStart(t)] = agg
      /\ \A u \in Time : u # BucketStart(t) => Put(dest.samples, BucketStart(t), agg)[u] = dest.samples[u]
  BY <1>5, PutType
<1>8. agg # NoSamples BY <1>1, <1>3, <1>5, <1>6, CalcRangeFinds
<1>9. ASSUME NEW u \in Stored(agg) PROVE BucketStart(u) = BucketStart(t) /\ agg[u] # Twice
  <2>1. BucketStart(t) <= u /\ u <= BucketEnd(t) /\ agg[u] # Twice
    BY <1>1, <1>3, <1>5, <1>9, CalcRange
  <2>2. u \in Time BY DEF Stored
  <2> QED BY <2>1, <2>2, BucketMembers
<1>11. IF startBucket' = NotStarted THEN Unstarted' ELSE Started'
  <2>1. CASE startBucket = NotStarted
    <3>1. ctx = NoSamples /\ lastTimestamp <= since BY <1>6, <2>1, RuleFacts
    <3>2. ASSUME NEW u \in Stored(src') PROVE u <= since
      <4>1. u \in Int /\ u <= lastTimestamp BY <1>6 DEF Stored, Time
      <4> QED BY <3>1, <4>1, <1>5
    <3>3. Unstarted' BY <3>1, <3>2, <1>2, <1>4 DEF Unstarted
    <3> QED BY <3>3, <2>1, <1>2
  <2>2. CASE startBucket # NotStarted
    <3>1. Started' BY <2>2, <1>2, <1>4, <1>6, RuleFacts DEF Started
    <3> QED BY <2>2, <3>1, <1>2
  <2> QED BY <2>1, <2>2
<1>12. LatestBucketExact'
  <2> SUFFICES ASSUME since < startBucket, horizon <= startBucket
               PROVE  /\ startBucket = BucketStart(lastTimestamp)
                      /\ ctx = SamplesIn(src', startBucket, BucketEnd(startBucket))
    BY <1>2, <1>4 DEF LatestBucketExact
  <2>1. startBucket # NotStarted
    BY <1>1, Types DEF NotStarted, Time
  <2>2. startBucket = BucketStart(lastTimestamp) /\ startBucket \in Time /\ startBucket \in Int
        /\ ctx = SamplesIn(src, startBucket, BucketEnd(startBucket))
    BY <2>1, RuleFacts DEF Time
  <2>3. BucketEnd(startBucket) \in Int BY <2>2, BucketBounds
  <2>4. ASSUME NEW u \in Time, startBucket <= u, u <= BucketEnd(startBucket) PROVE src'[u] = src[u]
    <3>1. u # t BY <2>2, <2>4, <1>5 DEF Time
    <3> QED BY <3>1, <1>6
  <2>5. SamplesIn(src', startBucket, BucketEnd(startBucket)) = SamplesIn(src, startBucket, BucketEnd(startBucket))
    BY <2>2, <2>3, <2>4, <1>5, SamplesInSame
  <2> QED BY <2>2, <2>5
<1>13. ClosedBucketsExact'
  <2> SUFFICES ASSUME NEW b \in BucketStarts, b < startBucket, since < b, horizon <= b
               PROVE  dest'.samples[b] = IF SamplesIn(src', b, BucketEnd(b)) = NoSamples
                                         THEN NoValue ELSE SamplesIn(src', b, BucketEnd(b))
    BY <1>2 DEF ClosedBucketsExact
  <2>1. b \in Time /\ b \in Int /\ BucketStart(b) = b /\ BucketEnd(b) \in Int
    BY BucketOfStart, BucketBounds DEF Time
  <2>2. CASE b = BucketStart(t)
    <3>1. BucketEnd(b) = BucketEnd(t) BY <2>1, <2>2, BucketMembers
    <3>2. agg = SamplesIn(src', b, BucketEnd(b)) BY <3>1, <2>2, <1>1, <1>3, <1>5, CalcRange
    <3> QED BY <3>2, <2>2, <1>4, <1>7, <1>8
  <2>3. CASE b # BucketStart(t)
    <3>1. ASSUME NEW u \in Time, b <= u, u <= BucketEnd(b) PROVE src'[u] = src[u]
      <4>1. BucketStart(u) = b BY <3>1, <2>1, BucketMembers
      <4>2. u # t BY <4>1, <2>3
      <4> QED BY <4>2, <1>6
    <3>2. SamplesIn(src', b, BucketEnd(b)) = SamplesIn(src, b, BucketEnd(b))
      BY <3>1, <2>1, <1>5, SamplesInSame
    <3>3. dest'.samples[b] = dest.samples[b] BY <2>1, <2>3, <1>4, <1>7
    <3>4. ClosedBucketsExact BY RuleFacts
    <3> QED BY <3>2, <3>3, <3>4 DEF ClosedBucketsExact
  <2> QED BY <2>2, <2>3
<1>14. CompactedSamplesClosed'
  <2> SUFFICES ASSUME NEW b \in Stored(dest'.samples)
               PROVE  /\ b < BucketStart(lastTimestamp)
                      /\ dest'.samples[b] # NoSamples
                      /\ \A u \in Stored(dest'.samples[b]) : BucketStart(u) = b /\ dest'.samples[b][u] # Twice
    BY <1>2 DEF CompactedSamplesClosed
  <2>1. b \in Time /\ dest'.samples[b] # NoValue BY DEF Stored
  <2>2. CASE b = BucketStart(t)
    <3>1. dest'.samples[b] = agg BY <2>2, <1>4, <1>7
    <3>2. b < BucketStart(lastTimestamp) BY <2>2, <1>5
    <3> QED BY <3>1, <3>2, <2>2, <1>8, <1>9
  <2>3. CASE b # BucketStart(t)
    <3>1. dest'.samples[b] = dest.samples[b] BY <2>1, <2>3, <1>4, <1>7
    <3>2. b \in Stored(dest.samples) BY <3>1, <2>1 DEF Stored
    <3>3. CompactedSamplesClosed BY RuleFacts
    <3> QED BY <3>1, <3>2, <3>3 DEF CompactedSamplesClosed
  <2> QED BY <2>2, <2>3
<1> QED BY <1>11, <1>12, <1>13, <1>14

\* An upsert preserves the invariant.
LEMMA UpsertStep ==
  ASSUME IndInv, NEW t \in Time, NEW v \in Inputs, Upsert(t, v)
  PROVE  IndInv'
<1>1. TypeOK' /\ SourceInv' BY UpsertType, UpsertSource DEF IndInv
<1>2. ASSUME Sound' PROVE Sound
  BY <1>2 DEF Sound, Upsert, Derail
<1>3. RuleInv'
  <2> SUFFICES ASSUME Sound'
               PROVE  /\ IF startBucket' = NotStarted THEN Unstarted' ELSE Started'
                      /\ LatestBucketExact' /\ ClosedBucketsExact' /\ CompactedSamplesClosed'
    BY DEF RuleInv
  <2>1. Sound BY <1>2
  <2>2. CASE t >= BucketStart(lastTimestamp) BY <2>1, <2>2, UpsertNewest
  <2>3. CASE ~(t >= BucketStart(lastTimestamp)) BY <2>1, <2>3, UpsertOlder
  <2> QED BY <2>2, <2>3
<1> QED BY <1>1, <1>3 DEF IndInv

----------------------------------------------------------------------------
(***************************************************************************)
(* TS.DEL.                                                                 *)
(***************************************************************************)
LEMMA DelSource ==
  ASSUME TypeOK, SourceInv, NEW a \in Time, NEW b \in a .. MaxTime, DelRange(a, b)
  PROVE  /\ src' \in SourceMap /\ lastTimestamp' \in Time /\ horizon' = horizon
         /\ SourceInv'
         /\ b \in Time /\ a <= b
         /\ \A u \in Time : src'[u] = IF a <= u /\ u <= b THEN NoValue ELSE src[u]
         /\ Stored(src') # {} => lastTimestamp' \in Stored(src')
         /\ \A u \in Stored(src') : u <= lastTimestamp' /\ u \in Stored(src)
         /\ lastTimestamp' # lastTimestamp => a <= lastTimestamp /\ lastTimestamp <= b
<1>0. /\ src \in SourceMap /\ lastTimestamp \in Time /\ lastTimestamp \in Int /\ horizon \in Int
      /\ a \in Int /\ b \in Int /\ a <= b /\ b \in Time /\ 0 \in Time /\ Retention \in Nat
  BY Types, RuleAssumption, TimeAssumption DEF Time
<1>1. /\ src' = [u \in Time |-> IF a <= u /\ u <= b THEN NoValue ELSE src[u]]
      /\ horizon' = horizon
      /\ lastTimestamp' = IF ~(a <= lastTimestamp /\ lastTimestamp <= b) THEN lastTimestamp
                          ELSE IF Stored(src') = {} THEN 0 ELSE Newest(src')
  BY DEF DelRange
<1>2. src' \in SourceMap BY <1>0, <1>1 DEF SourceMap
<1>3. \A u \in Stored(src') : u \in Stored(src) /\ u <= lastTimestamp /\ u \in Int
  BY <1>0, <1>1 DEF Stored, SourceInv, IsNewest, Time
<1>4. CASE ~(a <= lastTimestamp /\ lastTimestamp <= b)
  <2>1. lastTimestamp' = lastTimestamp BY <1>1, <1>4
  <2>2. Stored(src') # {} => IsNewest(src', lastTimestamp)
    <3> SUFFICES ASSUME Stored(src') # {} PROVE IsNewest(src', lastTimestamp) OBVIOUS
    <3>1. Stored(src) # {} BY <1>3
    <3>2. lastTimestamp \in Stored(src) BY <3>1 DEF SourceInv, IsNewest
    <3>3. lastTimestamp \in Stored(src') BY <3>2, <1>0, <1>1, <1>4 DEF Stored
    <3> QED BY <3>3, <1>3 DEF IsNewest
  <2>3. Stored(src') = {} => lastTimestamp = 0
    <3> SUFFICES ASSUME Stored(src') = {}, lastTimestamp # 0 PROVE FALSE OBVIOUS
    <3>1. lastTimestamp \in Stored(src) BY DEF SourceInv, IsNewest
    <3>2. lastTimestamp \in Stored(src') BY <3>1, <1>0, <1>1, <1>4 DEF Stored
    <3> QED BY <3>2
  <2>4. SourceInv' BY <2>1, <2>2, <2>3, <1>1 DEF SourceInv
  <2> QED BY <2>1, <2>2, <2>4, <1>0, <1>1, <1>2, <1>3 DEF IsNewest
<1>5. CASE a <= lastTimestamp /\ lastTimestamp <= b
  <2>1. lastTimestamp' = IF Stored(src') = {} THEN 0 ELSE Newest(src') BY <1>1, <1>5
  <2>2. Stored(src') # {} => lastTimestamp' \in Time /\ IsNewest(src', lastTimestamp')
    BY <2>1, NewestProperty
  <2>3. lastTimestamp' \in Time BY <2>1, <2>2, <1>0
  <2>4. lastTimestamp' <= lastTimestamp
    BY <2>1, <2>2, <1>0, <1>3 DEF IsNewest, Time
  <2>5. Retention > 0 => lastTimestamp' <= horizon' + Retention
    BY <2>3, <2>4, <1>0, <1>1 DEF SourceInv, Time
  <2>6. SourceInv' BY <2>1, <2>2, <2>5 DEF SourceInv
  <2> QED BY <2>2, <2>3, <2>6, <1>0, <1>1, <1>2, <1>3, <1>5 DEF IsNewest
<1> QED BY <1>4, <1>5

\* What becomes of the destination's samples d: the first and the last bucket are put
\* into them, and what has become empty is deleted.
FirstPut(d, a, first) == IF first = NoSamples THEN d ELSE Put(d, BucketStart(a), first)
LastPut(d, b, last, current) == IF b >= current \/ last = NoSamples THEN d ELSE Put(d, BucketStart(b), last)
DelFrom(a, first) == IF first = NoSamples THEN BucketStart(a) ELSE CalcBucketStart(a) + BucketDuration
DelTo(b, last, current) ==
  IF ~(b >= current) /\ last = NoSamples THEN BucketStart(b)
  ELSE BucketStartNormalize(CalcBucketStart(b) - BucketDuration)
Recalculated(d, a, b, first, last, current) ==
  IF DelTo(b, last, current) >= DelFrom(a, first)
  THEN Without(LastPut(FirstPut(d, a, first), b, last, current), DelFrom(a, first), DelTo(b, last, current))
  ELSE LastPut(FirstPut(d, a, first), b, last, current)

\* The range CompactionDelRange deletes, seen from a bucket x.
LEMMA DeletedBuckets ==
  ASSUME NEW a \in Time, NEW b \in Time, NEW current \in Time, NEW x \in Time,
         NEW first \in Aggregate, NEW last \in Aggregate,
         a <= b, BucketStart(x) = x,
         b >= current => BucketStart(a) < BucketStart(b),
         BucketStart(a) = BucketStart(b) => first = last,
         NEW from, from = DelFrom(a, first),
         NEW to, to = DelTo(b, last, current)
  PROVE  /\ from \in Nat /\ to \in Nat
         /\ x < BucketStart(a) => ~(from <= x)
         /\ BucketStart(b) < x => ~(x <= to)
         /\ x = BucketStart(a) => (from <= x /\ x <= to <=> first = NoSamples)
         /\ BucketStart(a) < x /\ x < BucketStart(b) => from <= x /\ x <= to
         /\ BucketStart(a) < x /\ x = BucketStart(b) /\ b < current =>
              (from <= x /\ x <= to <=> last = NoSamples)
         /\ BucketStart(a) < x /\ x = BucketStart(b) /\ b >= current => ~(x <= to)
<1> DEFINE from0 == CalcBucketStart(a) + BucketDuration
           to0 == BucketStartNormalize(CalcBucketStart(b) - BucketDuration)
<1>1. /\ BucketStart(a) \in Nat /\ BucketStart(b) \in Nat /\ BucketStart(a) <= BucketStart(b)
      /\ x \in Nat /\ b \in Nat /\ current \in Nat
  BY BucketBounds, BucketOrder DEF Time
<1>2. /\ from0 \in Nat /\ to0 \in Nat /\ to0 <= BucketStart(b) /\ BucketStart(a) < from0
      /\ BucketStart(a) < x /\ x < BucketStart(b) => from0 <= x /\ x <= to0
      /\ BucketStart(a) < BucketStart(b) =>
           BucketStart(a) <= to0 /\ to0 < BucketStart(b) /\ from0 <= BucketStart(b)
  BY BucketsBetween
<1>3. /\ from = IF first = NoSamples THEN BucketStart(a) ELSE from0
      /\ to = IF ~(b >= current) /\ last = NoSamples THEN BucketStart(b) ELSE to0
  BY DEF DelFrom, DelTo
<1> HIDE DEF from0, to0
<1>4. from \in Nat /\ to \in Nat BY <1>1, <1>2, <1>3
<1>5. x < BucketStart(a) => ~(from <= x) BY <1>1, <1>2, <1>3
<1>6. BucketStart(b) < x => ~(x <= to) BY <1>1, <1>2, <1>3
<1>7. x = BucketStart(a) => (from <= x /\ x <= to <=> first = NoSamples) BY <1>1, <1>2, <1>3
<1>8. BucketStart(a) < x /\ x < BucketStart(b) => from <= x /\ x <= to BY <1>1, <1>2, <1>3
<1>9. BucketStart(a) < x /\ x = BucketStart(b) /\ b < current => (from <= x /\ x <= to <=> last = NoSamples)
  BY <1>1, <1>2, <1>3
<1>10. BucketStart(a) < x /\ x = BucketStart(b) /\ b >= current => ~(x <= to) BY <1>1, <1>2, <1>3
<1> QED BY <1>4, <1>5, <1>6, <1>7, <1>8, <1>9, <1>10

\* CompactionDelRange, sample by sample: the first and the last bucket are recalculated and
\* those between DelFrom and DelTo deleted.
LEMMA RecalculatedType ==
  ASSUME NEW d \in Compacted, NEW a \in Time, NEW b \in Time, NEW current \in Time,
         NEW first \in Aggregate, NEW last \in Aggregate
  PROVE  /\ FirstPut(d, a, first) \in Compacted
         /\ LastPut(FirstPut(d, a, first), b, last, current) \in Compacted
         /\ DelFrom(a, first) \in Int /\ DelTo(b, last, current) \in Int
         /\ Recalculated(d, a, b, first, last, current) \in Compacted
         /\ \A x \in Time : LastPut(FirstPut(d, a, first), b, last, current)[x] =
              IF x = BucketStart(b) /\ b < current /\ last # NoSamples THEN last
              ELSE IF x = BucketStart(a) /\ first # NoSamples THEN first ELSE d[x]
         /\ \A x \in Time : Recalculated(d, a, b, first, last, current)[x] =
              IF DelFrom(a, first) <= x /\ x <= DelTo(b, last, current) THEN NoValue
              ELSE LastPut(FirstPut(d, a, first), b, last, current)[x]
<1>0. BucketStart(a) \in Time /\ BucketStart(b) \in Time /\ b \in Int /\ current \in Int
  BY BucketBounds DEF Time
<1>1. FirstPut(d, a, first) \in Compacted
  BY <1>0, PutType DEF FirstPut
<1>2. \A x \in Time : FirstPut(d, a, first)[x] = IF x = BucketStart(a) /\ first # NoSamples THEN first ELSE d[x]
  <2>1. CASE first = NoSamples BY <2>1 DEF FirstPut
  <2>2. CASE first # NoSamples
    <3>1. FirstPut(d, a, first) = Put(d, BucketStart(a), first) BY <2>2 DEF FirstPut
    <3>2. PICK t \in Time : t = BucketStart(a) BY <1>0
    <3>3. Put(d, t, first)[t] = first BY PutType
    <3>4. \A x \in Time : x # t => Put(d, t, first)[x] = d[x] BY PutType
    <3> QED BY <2>2, <3>1, <3>2, <3>3, <3>4, <1>0
  <2> QED BY <2>1, <2>2
<1>3. PICK d1 \in Compacted : d1 = FirstPut(d, a, first) BY <1>1
<1>4. LastPut(d1, b, last, current) \in Compacted
  BY <1>0, PutType DEF LastPut
<1>5. \A x \in Time : LastPut(d1, b, last, current)[x] =
        IF x = BucketStart(b) /\ b < current /\ last # NoSamples THEN last ELSE d1[x]
  <2>1. CASE b >= current \/ last = NoSamples BY <2>1, <1>0 DEF LastPut
  <2>2. CASE ~(b >= current \/ last = NoSamples)
    <3>1. LastPut(d1, b, last, current) = Put(d1, BucketStart(b), last) BY <2>2 DEF LastPut
    <3>2. PICK t \in Time : t = BucketStart(b) BY <1>0
    <3>3. Put(d1, t, last)[t] = last BY PutType
    <3>4. \A x \in Time : x # t => Put(d1, t, last)[x] = d1[x] BY PutType
    <3> QED BY <2>2, <3>1, <3>2, <3>3, <3>4, <1>0
  <2> QED BY <2>1, <2>2
<1>6. PICK d2 \in Compacted : d2 = LastPut(FirstPut(d, a, first), b, last, current) BY <1>3, <1>4
<1>7. DelFrom(a, first) \in Int /\ DelTo(b, last, current) \in Int
  <2>1. BucketDuration \in Nat /\ a \in Int BY RuleAssumption DEF Time
  <2>2. CalcBucketStart(a) \in Int /\ CalcBucketStart(b) \in Int BY <2>1, <1>0, StartBounds
  <2>3. BucketStartNormalize(CalcBucketStart(b) - BucketDuration) \in Int BY <2>1, <2>2 DEF BucketStartNormalize
  <2>4. BucketStart(a) \in Int /\ BucketStart(b) \in Int BY <1>0 DEF Time
  <2> QED BY <2>1, <2>2, <2>3, <2>4 DEF DelFrom, DelTo
<1>8. PICK from \in Int, to \in Int : from = DelFrom(a, first) /\ to = DelTo(b, last, current) BY <1>7
<1>9. Recalculated(d, a, b, first, last, current) = IF to >= from THEN Without(d2, from, to) ELSE d2
  BY <1>6, <1>8 DEF Recalculated
<1>10. /\ Without(d2, from, to) \in Compacted
       /\ \A x \in Time : Without(d2, from, to)[x] = IF from <= x /\ x <= to THEN NoValue ELSE d2[x]
  BY WithoutType
<1>11. Recalculated(d, a, b, first, last, current) \in Compacted BY <1>9, <1>10
<1>12. ASSUME NEW x \in Time
       PROVE  Recalculated(d, a, b, first, last, current)[x] = IF from <= x /\ x <= to THEN NoValue ELSE d2[x]
  <2>1. x \in Int BY DEF Time
  <2>2. from <= x /\ x <= to => to >= from BY <2>1
  <2> QED BY <2>2, <1>9, <1>10
<1>13. \A x \in Time : LastPut(FirstPut(d, a, first), b, last, current)[x] =
              IF x = BucketStart(b) /\ b < current /\ last # NoSamples THEN last
              ELSE IF x = BucketStart(a) /\ first # NoSamples THEN first ELSE d[x]
  BY <1>2, <1>3, <1>5
<1> QED BY <1>1, <1>3, <1>4, <1>6, <1>7, <1>8, <1>11, <1>12, <1>13

\* A bucket that is stored afterwards was recalculated or was stored before.
LEMMA RecalculatedKeeps ==
  ASSUME NEW d \in Compacted, NEW a \in Time, NEW b \in Time, NEW current \in Time,
         NEW first \in Aggregate, NEW last \in Aggregate, NEW x \in Time,
         NEW new, new = Recalculated(d, a, b, first, last, current)[x], new # NoValue
  PROVE  new = IF x = BucketStart(b) /\ b < current /\ last # NoSamples THEN last
               ELSE IF x = BucketStart(a) /\ first # NoSamples THEN first ELSE d[x]
<1>1. Recalculated(d, a, b, first, last, current)[x] =
        IF DelFrom(a, first) <= x /\ x <= DelTo(b, last, current) THEN NoValue
        ELSE LastPut(FirstPut(d, a, first), b, last, current)[x]
  BY RecalculatedType
<1>2. LastPut(FirstPut(d, a, first), b, last, current)[x] =
        IF x = BucketStart(b) /\ b < current /\ last # NoSamples THEN last
        ELSE IF x = BucketStart(a) /\ first # NoSamples THEN first ELSE d[x]
  BY RecalculatedType
<1> QED BY <1>1, <1>2

\* The buckets of the destination after a deletion that begins before the newest bucket.
LEMMA RecalculatedBuckets ==
  ASSUME NEW d \in Compacted, NEW a \in Time, NEW b \in Time, NEW current \in Time, NEW x \in Time,
         NEW first \in Aggregate, NEW last \in Aggregate,
         a <= b, BucketStart(x) = x,
         b >= current => BucketStart(a) < BucketStart(b),
         BucketStart(a) = BucketStart(b) => first = last,
         NEW new, new = Recalculated(d, a, b, first, last, current)[x]
  PROVE  /\ x < BucketStart(a) \/ BucketStart(b) < x => new = d[x]
         /\ x = BucketStart(a) => new = IF first = NoSamples THEN NoValue ELSE first
         /\ BucketStart(a) < x /\ x < BucketStart(b) => new = NoValue
         /\ BucketStart(a) < x /\ x = BucketStart(b) /\ b < current =>
              new = IF last = NoSamples THEN NoValue ELSE last
<1>0. /\ BucketStart(a) \in Int /\ BucketStart(b) \in Int /\ BucketStart(a) <= BucketStart(b)
      /\ x \in Int /\ b \in Int /\ current \in Int
  BY BucketBounds, BucketOrder DEF Time
<1>1. PICK from, to : from = DelFrom(a, first) /\ to = DelTo(b, last, current) OBVIOUS
<1>2. /\ x < BucketStart(a) => ~(from <= x)
      /\ BucketStart(b) < x => ~(x <= to)
      /\ x = BucketStart(a) => (from <= x /\ x <= to <=> first = NoSamples)
      /\ BucketStart(a) < x /\ x < BucketStart(b) => from <= x /\ x <= to
      /\ BucketStart(a) < x /\ x = BucketStart(b) /\ b < current =>
           (from <= x /\ x <= to <=> last = NoSamples)
      /\ from \in Int /\ to \in Int
  <2>1. from \in Nat /\ to \in Nat BY <1>1, DeletedBuckets
  <2> QED BY <2>1, <1>1, DeletedBuckets
<1>3. PICK mid : mid = LastPut(FirstPut(d, a, first), b, last, current)[x] OBVIOUS
<1>4. mid = IF x = BucketStart(b) /\ b < current /\ last # NoSamples THEN last
            ELSE IF x = BucketStart(a) /\ first # NoSamples THEN first ELSE d[x]
  BY <1>3, RecalculatedType
<1>5. new = IF from <= x /\ x <= to THEN NoValue ELSE mid
  <2>1. Recalculated(d, a, b, first, last, current)[x] =
          IF DelFrom(a, first) <= x /\ x <= DelTo(b, last, current) THEN NoValue
          ELSE LastPut(FirstPut(d, a, first), b, last, current)[x]
    BY RecalculatedType
  <2> QED BY <2>1, <1>1, <1>3
<1>6. x < BucketStart(a) \/ BucketStart(b) < x => new = d[x]
  BY <1>0, <1>2, <1>4, <1>5
<1>7. x = BucketStart(a) => new = IF first = NoSamples THEN NoValue ELSE first
  BY <1>0, <1>2, <1>4, <1>5
<1>8. BucketStart(a) < x /\ x < BucketStart(b) => new = NoValue
  BY <1>0, <1>2, <1>4, <1>5
<1>9. BucketStart(a) < x /\ x = BucketStart(b) /\ b < current => new = IF last = NoSamples THEN NoValue ELSE last
  BY <1>0, <1>2, <1>4, <1>5
<1> QED BY <1>6, <1>7, <1>8, <1>9

\* CompactionDelRange in these terms.
LEMMA CompactionDelRangeIs ==
  ASSUME TypeOK, SourceInv, NEW a \in Time, NEW b \in a .. MaxTime, DelRange(a, b), hasRule
  PROVE  /\ BucketStart(lastTimestamp) \in Time
         /\ SeriesCalcRange(src', BucketStart(a), BucketEnd(a)) \in Aggregate
         /\ SeriesCalcRange(src', BucketStart(b), BucketEnd(b)) \in Aggregate
         /\ a >= BucketStart(lastTimestamp) =>
              /\ ctx' = SeriesCalcRange(src', BucketStart(lastTimestamp), BucketEnd(lastTimestamp))
              /\ dest' = dest
         /\ ~(a >= BucketStart(lastTimestamp)) =>
              /\ ctx' = IF b >= BucketStart(lastTimestamp)
                        THEN SeriesCalcRange(src', BucketStart(lastTimestamp), MaxTime) ELSE ctx
              /\ dest'.samples = Recalculated(dest.samples, a, b,
                                   SeriesCalcRange(src', BucketStart(a), BucketEnd(a)),
                                   SeriesCalcRange(src', BucketStart(b), BucketEnd(b)),
                                   BucketStart(lastTimestamp))
         /\ ctx' \in Aggregate /\ dest' \in Destination
<1>0. b \in Time /\ src' \in SourceMap /\ MaxTime \in Int BY DelSource, TimeAssumption
<1>1. PICK current \in Time : current = BucketStart(lastTimestamp) BY Types, BucketBounds
<1>2. /\ BucketEnd(lastTimestamp) \in Int
      /\ BucketStart(a) \in Time /\ BucketEnd(a) \in Int
      /\ BucketStart(b) \in Time /\ BucketEnd(b) \in Int
  BY <1>0, Types, BucketBounds
<1>3. /\ SeriesCalcRange(src', current, BucketEnd(lastTimestamp)) \in Aggregate
      /\ SeriesCalcRange(src', current, MaxTime) \in Aggregate
      /\ SeriesCalcRange(src', BucketStart(a), BucketEnd(a)) \in Aggregate
      /\ SeriesCalcRange(src', BucketStart(b), BucketEnd(b)) \in Aggregate
  BY <1>0, <1>1, <1>2, CalcRange
<1>4. PICK first \in Aggregate, last \in Aggregate :
        /\ first = SeriesCalcRange(src', BucketStart(a), BucketEnd(a))
        /\ last = SeriesCalcRange(src', BucketStart(b), BucketEnd(b))
  BY <1>3
<1>5. CompactionDelRange(src', a, b) BY DEF DelRange
<1>6. dest \in Destination /\ dest.samples \in Compacted /\ ctx \in Aggregate BY Types
<1>7. CASE a >= current
  <2>1. ctx' = SeriesCalcRange(src', current, BucketEnd(lastTimestamp)) /\ dest' = dest
    BY <1>1, <1>5, <1>7 DEF CompactionDelRange
  <2> QED BY <2>1, <1>1, <1>3, <1>6, <1>7
<1>8. CASE ~(a >= current)
  <2>1. ctx' = IF b >= current THEN SeriesCalcRange(src', current, MaxTime) ELSE ctx
    BY <1>1, <1>5, <1>8 DEF CompactionDelRange
  <2> DEFINE dest1 == IF first = NoSamples THEN dest ELSE RuleSeriesUpsertSample(dest, BucketStart(a), first)
             dest2 == IF b >= current \/ last = NoSamples THEN dest1
                      ELSE RuleSeriesUpsertSample(dest1, BucketStart(b), last)
             from == DelFrom(a, first)
             to == DelTo(b, last, current)
  <2>2. dest' = IF to >= from THEN ContinuousDeletion(dest2, from, to) ELSE dest2
    BY <1>1, <1>4, <1>5, <1>8 DEF CompactionDelRange, DelFrom, DelTo
  <2>3. dest1 \in Destination /\ dest1.samples = FirstPut(dest.samples, a, first)
    BY <1>2, <1>6, UpsertSamplePuts DEF FirstPut
  <2> HIDE DEF dest1
  <2>4. dest2 \in Destination /\ dest2.samples = LastPut(dest1.samples, b, last, current)
    BY <2>3, <1>2, UpsertSamplePuts DEF LastPut
  <2>5. from \in Int /\ to \in Int BY <1>0, <1>6, RecalculatedType
  <2> HIDE DEF dest2
  <2>6. /\ ContinuousDeletion(dest2, from, to) \in Destination
        /\ ContinuousDeletion(dest2, from, to).samples = Without(dest2.samples, from, to)
    <3> HIDE DEF from, to
    <3> QED BY <2>4, <2>5, DeletionRemoves
  <2>7. dest' \in Destination BY <2>2, <2>4, <2>6
  <2>8. dest'.samples = IF to >= from THEN Without(dest2.samples, from, to) ELSE dest2.samples
    BY <2>2, <2>6
  <2>9. dest'.samples = Recalculated(dest.samples, a, b, first, last, current)
    BY <2>3, <2>4, <2>8 DEF Recalculated
  <2> QED BY <2>1, <2>7, <2>9, <1>1, <1>3, <1>4, <1>6, <1>8
<1> QED BY <1>7, <1>8

\* TS.DEL preserves the types.
LEMMA DelType ==
  ASSUME TypeOK, SourceInv, NEW a \in Time, NEW b \in a .. MaxTime, DelRange(a, b)
  PROVE  TypeOK'
<1>1. src' \in SourceMap /\ lastTimestamp' \in Time /\ horizon' \in Time
  BY DelSource, Types
<1>2. /\ hasRule' \in BOOLEAN /\ since' \in Time \cup {-1} /\ derailed' \in BOOLEAN
      /\ startBucket' \in Time \cup {NotStarted}
  BY Types, DerailType DEF DelRange
<1>3. ctx' \in Aggregate /\ dest' \in Destination
  <2>1. CASE hasRule BY <2>1, CompactionDelRangeIs
  <2>2. CASE ~hasRule BY <2>2, Types DEF DelRange
  <2> QED BY <2>1, <2>2
<1> QED BY <1>1, <1>2, <1>3 DEF TypeOK, SourceMap, Destination, Compacted

\* A deletion that leaves the rule in step leaves its bucket where it is.
LEMMA DelInStep ==
  ASSUME IndInv, NEW a \in Time, NEW b \in a .. MaxTime, DelRange(a, b), Sound, Sound'
  PROVE  /\ startBucket' = startBucket /\ since' = since /\ horizon' = horizon
         /\ BucketStart(lastTimestamp') = BucketStart(lastTimestamp)
         /\ startBucket = NotStarted => ctx' = NoSamples
         /\ startBucket # NotStarted => lastTimestamp' \in Stored(src')
<1>1. TypeOK /\ SourceInv /\ hasRule BY DEF IndInv, Sound
<1>2. startBucket' = startBucket /\ since' = since /\ horizon' = horizon BY DEF DelRange
<1>3. ~ContextWithoutBucket /\ ~NewestBucketDeleted
  BY <1>1 DEF DelRange, Derail, Sound
<1>4. startBucket = NotStarted => ctx' = NoSamples BY <1>3 DEF ContextWithoutBucket
<1>5. BucketStart(lastTimestamp') = BucketStart(lastTimestamp)
  <2>1. CASE Stored(src) # {} BY <2>1, <1>3 DEF NewestBucketDeleted
  <2>2. CASE Stored(src) = {}
    <3>1. lastTimestamp = 0 BY <2>2, <1>1 DEF SourceInv
    <3>2. Stored(src') = {} BY <2>2, <1>1, DelSource
    <3>3. SourceInv' BY <1>1, DelSource
    <3>4. lastTimestamp' = 0 BY <3>2, <3>3 DEF SourceInv
    <3> QED BY <3>1, <3>4
  <2> QED BY <2>1, <2>2
<1>6. ASSUME startBucket # NotStarted PROVE lastTimestamp' \in Stored(src')
  <2>1. Stored(src) # {} BY <1>6, RuleFacts
  <2>2. Stored(src') # {} BY <2>1, <1>3 DEF NewestBucketDeleted
  <2> QED BY <2>2, <1>1, DelSource
<1> QED BY <1>2, <1>4, <1>5, <1>6

\* A deletion from the newest bucket on: the context is recalculated.
LEMMA DelNewest ==
  ASSUME IndInv, NEW a \in Time, NEW b \in a .. MaxTime, DelRange(a, b), Sound, Sound',
         a >= BucketStart(lastTimestamp)
  PROVE  /\ IF startBucket' = NotStarted THEN Unstarted' ELSE Started'
         /\ LatestBucketExact' /\ ClosedBucketsExact' /\ CompactedSamplesClosed'
<1>1. TypeOK /\ SourceInv /\ hasRule BY DEF IndInv, Sound
<1>2. PICK current \in Time : current = BucketStart(lastTimestamp) BY <1>1, Types, BucketBounds
<1>3. /\ startBucket' = startBucket /\ since' = since /\ horizon' = horizon
      /\ BucketStart(lastTimestamp') = current
      /\ startBucket = NotStarted => ctx' = NoSamples
      /\ startBucket # NotStarted => lastTimestamp' \in Stored(src') /\ startBucket = current
  BY <1>2, DelInStep, RuleFacts
<1>4. /\ ctx' = SeriesCalcRange(src', current, BucketEnd(lastTimestamp)) /\ dest' = dest /\ ctx' \in Aggregate
  BY <1>1, <1>2, CompactionDelRangeIs
<1>5. /\ lastTimestamp \in Time /\ lastTimestamp' \in Time /\ lastTimestamp \in Int /\ lastTimestamp' \in Int
      /\ current \in Int /\ a \in Int /\ b \in Int /\ since \in Int /\ horizon \in Int
      /\ BucketEnd(lastTimestamp) \in Int /\ src \in SourceMap /\ src' \in SourceMap
  BY <1>1, Types, BucketBounds, DelSource DEF Time
<1>6. /\ BucketStart(current) = current /\ BucketEnd(current) = BucketEnd(lastTimestamp)
      /\ current <= lastTimestamp' /\ lastTimestamp' <= BucketEnd(lastTimestamp)
      /\ BucketEnd(lastTimestamp') = BucketEnd(lastTimestamp)
  <2>1. current \in BucketStarts BY <1>2, <1>5 DEF BucketStarts
  <2>2. BucketStart(current) = current BY <2>1, BucketOfStart
  <2> QED BY <2>2, <1>2, <1>3, <1>5, BucketMembers
<1>7. /\ \A u \in Time : src'[u] = IF a <= u /\ u <= b THEN NoValue ELSE src[u]
      /\ \A u \in Stored(src') : u <= lastTimestamp' /\ u \in Stored(src)
  BY <1>1, DelSource
<1>8. IF startBucket' = NotStarted THEN Unstarted' ELSE Started'
  <2>1. CASE startBucket = NotStarted
    <3>1. \A u \in Stored(src') : u <= since BY <2>1, <1>7, RuleFacts
    <3>2. Unstarted' BY <2>1, <3>1, <1>3 DEF Unstarted
    <3> QED BY <2>1, <3>2, <1>3
  <2>2. CASE startBucket # NotStarted
    <3>1. lastTimestamp' \in Stored(src') /\ startBucket = current BY <2>2, <1>3
    <3>2. ctx' # NoSamples
      <4>1. CASE lastTimestamp' = lastTimestamp
        BY <4>1, <3>1, <1>1, <1>4, <1>5, <1>6, CalcRangeFinds
      <4>2. CASE lastTimestamp' # lastTimestamp
        <5>1. a <= lastTimestamp BY <4>2, <1>1, DelSource
        <5>2. BucketStart(a) = current
          <6>1. BucketStart(a) <= current BY <5>1, <1>2, <1>5, BucketOrder
          <6>2. BucketStart(current) <= BucketStart(a) BY <1>2, BucketOrder
          <6>3. BucketStart(a) \in Int BY BucketBounds DEF Time
          <6> QED BY <6>1, <6>2, <6>3, <1>5, <1>6
        <5>3. ~IsObsolete(BucketStart(a)) BY <1>1 DEF DelRange, VerifyCompactionDelPossible
        <5>4. ~IsObsolete(current) /\ current <= current BY <5>2, <5>3, <1>5
        <5>5. ctx' = SamplesIn(src', current, BucketEnd(lastTimestamp))
          BY <5>4, <1>1, <1>4, <1>5, CalcRange
        <5> QED BY <5>5, <3>1, <1>5, <1>6, SamplesInSome
      <4> QED BY <4>1, <4>2
    <3>3. ASSUME NEW u \in Stored(ctx')
          PROVE  u <= lastTimestamp' /\ BucketStart(u) = current /\ ctx'[u] # Twice
      <4>1. current <= u /\ u <= BucketEnd(lastTimestamp) /\ u \in Stored(src') /\ ctx'[u] # Twice
        BY <3>3, <1>1, <1>4, <1>5, CalcRange
      <4>2. u \in Time BY DEF Stored
      <4>3. BucketStart(u) = current BY <4>1, <4>2, <1>2, <1>5, BucketMembers
      <4> QED BY <4>1, <4>3, <1>7
    <3>4. Started' BY <3>1, <3>2, <3>3, <1>3 DEF Started
    <3> QED BY <2>2, <3>4, <1>3
  <2> QED BY <2>1, <2>2
<1>9. LatestBucketExact'
  <2> SUFFICES ASSUME since < startBucket, horizon <= startBucket
               PROVE  /\ startBucket = current
                      /\ ctx' = SamplesIn(src', startBucket, BucketEnd(startBucket))
    BY <1>3 DEF LatestBucketExact
  <2>1. startBucket # NotStarted BY <1>1, Types DEF NotStarted, Time
  <2>2. startBucket = current BY <2>1, <1>3
  <2>3. ctx' = SamplesIn(src', current, BucketEnd(lastTimestamp))
    BY <2>2, <1>1, <1>4, <1>5, CalcRange
  <2> QED BY <2>2, <2>3, <1>6
<1>10. ClosedBucketsExact'
  <2> SUFFICES ASSUME NEW x \in BucketStarts, x < startBucket, since < x, horizon <= x
               PROVE  dest.samples[x] = IF SamplesIn(src', x, BucketEnd(x)) = NoSamples
                                        THEN NoValue ELSE SamplesIn(src', x, BucketEnd(x))
    BY <1>3, <1>4 DEF ClosedBucketsExact
  <2>0. startBucket = current
    <3>1. x \in Int /\ since \in Int BY <1>5, BucketOfStart DEF Time
    <3>2. startBucket # NotStarted BY <3>1, <1>1, Types DEF NotStarted, Time
    <3> QED BY <3>2, <1>3
  <2>1. x \in Time /\ x \in Int /\ BucketStart(x) = x /\ BucketEnd(x) \in Int
    BY BucketOfStart, BucketBounds DEF Time
  <2>2. BucketEnd(x) < current BY <2>0, <2>1, <1>2, <1>6, BucketOrder
  <2>3. ASSUME NEW u \in Time, x <= u, u <= BucketEnd(x) PROVE src'[u] = src[u]
    <3>1. ~(a <= u) BY <2>1, <2>2, <2>3, <1>2, <1>5 DEF Time
    <3> QED BY <3>1, <1>7
  <2>4. SamplesIn(src', x, BucketEnd(x)) = SamplesIn(src, x, BucketEnd(x))
    BY <2>1, <2>3, <1>5, SamplesInSame
  <2>5. ClosedBucketsExact BY RuleFacts
  <2> QED BY <2>4, <2>5 DEF ClosedBucketsExact
<1>11. CompactedSamplesClosed'
  <2>1. CompactedSamplesClosed BY RuleFacts
  <2> QED BY <2>1, <1>2, <1>3, <1>4 DEF CompactedSamplesClosed
<1> QED BY <1>8, <1>9, <1>10, <1>11

\* A deletion that begins in an older bucket, the context.
LEMMA DelOlderContext ==
  ASSUME IndInv, NEW a \in Time, NEW b \in a .. MaxTime, DelRange(a, b), Sound, Sound',
         ~(a >= BucketStart(lastTimestamp))
  PROVE  /\ IF startBucket' = NotStarted THEN Unstarted' ELSE Started'
         /\ LatestBucketExact'
<1>1. TypeOK /\ SourceInv /\ hasRule BY DEF IndInv, Sound
<1>2. PICK current \in Time : current = BucketStart(lastTimestamp) BY <1>1, Types, BucketBounds
<1>3. /\ startBucket' = startBucket /\ since' = since /\ horizon' = horizon
      /\ BucketStart(lastTimestamp') = current
      /\ startBucket = NotStarted => ctx' = NoSamples
      /\ startBucket # NotStarted => lastTimestamp' \in Stored(src') /\ startBucket = current
  BY <1>2, DelInStep, RuleFacts
<1>4. ctx' = (IF b >= current THEN SeriesCalcRange(src', current, MaxTime) ELSE ctx) /\ ctx' \in Aggregate
  BY <1>1, <1>2, CompactionDelRangeIs
<1>5. /\ lastTimestamp \in Time /\ lastTimestamp' \in Time /\ lastTimestamp \in Int /\ lastTimestamp' \in Int
      /\ current \in Int /\ a \in Int /\ b \in Int /\ since \in Int /\ horizon \in Int /\ MaxTime \in Int
      /\ BucketEnd(lastTimestamp) \in Int /\ src \in SourceMap /\ src' \in SourceMap
      /\ lastTimestamp' <= MaxTime
  BY <1>1, Types, BucketBounds, DelSource, TimeAssumption DEF Time
<1>6. /\ BucketStart(current) = current /\ BucketEnd(current) = BucketEnd(lastTimestamp)
      /\ current <= lastTimestamp' /\ lastTimestamp' <= BucketEnd(current) /\ current <= lastTimestamp
      /\ BucketEnd(current) \in Int
  <2>1. current \in BucketStarts BY <1>2, <1>5 DEF BucketStarts
  <2>2. BucketStart(current) = current BY <2>1, BucketOfStart
  <2> QED BY <2>2, <1>2, <1>3, <1>5, BucketMembers, BucketBounds
<1>7. /\ \A u \in Time : src'[u] = IF a <= u /\ u <= b THEN NoValue ELSE src[u]
      /\ \A u \in Stored(src') : u <= lastTimestamp' /\ u \in Stored(src)
  BY <1>1, DelSource
<1>8. SeriesCalcRange(src', current, MaxTime) = SamplesIn(src', current, MaxTime)
  <2>1. BucketStart(a) \in Time /\ BucketStart(a) <= current
    <3>1. BucketStart(a) \in Time /\ BucketStart(a) \in Int /\ BucketStart(a) <= a BY BucketBounds DEF Time
    <3> QED BY <3>1, <1>2, <1>5
  <2>2. ~IsObsolete(BucketStart(a)) BY <1>1 DEF DelRange, VerifyCompactionDelPossible
  <2> QED BY <2>1, <2>2, <1>1, <1>5, CalcRange
<1>9. b < current => lastTimestamp' = lastTimestamp
  <2> SUFFICES ASSUME b < current PROVE lastTimestamp' = lastTimestamp OBVIOUS
  <2>1. ~(lastTimestamp <= b) BY <1>5, <1>6
  <2> QED BY <2>1, <1>1, DelSource
<1>10. IF startBucket' = NotStarted THEN Unstarted' ELSE Started'
  <2>1. CASE startBucket = NotStarted
    <3>1. \A u \in Stored(src') : u <= since BY <2>1, <1>7, RuleFacts
    <3>2. Unstarted' BY <2>1, <3>1, <1>3 DEF Unstarted
    <3> QED BY <2>1, <3>2, <1>3
  <2>2. CASE startBucket # NotStarted
    <3>1. lastTimestamp' \in Stored(src') /\ startBucket = current BY <2>2, <1>3
    <3>2. ctx' # NoSamples
      <4>1. CASE b >= current
        <5>1. ctx' = SamplesIn(src', current, MaxTime) BY <4>1, <1>4, <1>8
        <5> QED BY <5>1, <3>1, <1>5, <1>6, SamplesInSome
      <4>2. CASE ~(b >= current) BY <2>2, <4>2, <1>4, RuleFacts
      <4> QED BY <4>1, <4>2
    <3>3. ASSUME NEW u \in Stored(ctx')
          PROVE  u <= lastTimestamp' /\ BucketStart(u) = current /\ ctx'[u] # Twice
      <4>0. u \in Time /\ u \in Int BY DEF Stored, Time
      <4>1. CASE b >= current
        <5>1. ctx' = SamplesIn(src', current, MaxTime) BY <4>1, <1>4, <1>8
        <5>2. current <= u /\ u \in Stored(src') /\ ctx'[u] # Twice
          BY <5>1, <3>3, <1>5, SamplesInType
        <5>3. u <= lastTimestamp' BY <5>2, <1>7
        <5>4. u <= BucketEnd(current) BY <5>3, <4>0, <1>5, <1>6
        <5>5. BucketStart(u) = current BY <4>0, <5>2, <5>4, <1>6, BucketMembers
        <5> QED BY <5>2, <5>3, <5>5
      <4>2. CASE ~(b >= current)
        <5>1. ctx' = ctx BY <4>2, <1>4
        <5>2. u \in Stored(ctx) BY <5>1, <3>3
        <5>3. lastTimestamp' = lastTimestamp BY <4>2, <1>5, <1>9
        <5> QED BY <2>2, <5>1, <5>2, <5>3, <3>1, RuleFacts
      <4> QED BY <4>1, <4>2
    <3>4. Started' BY <3>1, <3>2, <3>3, <1>3 DEF Started
    <3> QED BY <2>2, <3>4, <1>3
  <2> QED BY <2>1, <2>2
<1>11. LatestBucketExact'
  <2> SUFFICES ASSUME since < startBucket, horizon <= startBucket
               PROVE  /\ startBucket = current
                      /\ ctx' = SamplesIn(src', startBucket, BucketEnd(startBucket))
    BY <1>3 DEF LatestBucketExact
  <2>1. startBucket # NotStarted BY <1>1, Types DEF NotStarted, Time
  <2>2. startBucket = current BY <2>1, <1>3
  <2>3. CASE b >= current
    <3>1. ctx' = SamplesIn(src', current, MaxTime) BY <2>3, <1>4, <1>8
    <3>2. ASSUME NEW u \in Time
          PROVE  ctx'[u] = IF current <= u /\ u <= BucketEnd(current) THEN src'[u] ELSE NoValue
      <4>0. u \in Int /\ u <= MaxTime BY DEF Time
      <4>1. ctx'[u] = IF current <= u THEN src'[u] ELSE NoValue BY <3>1, <4>0, <1>5, SamplesInType
      <4>2. ~(u <= BucketEnd(current)) => src'[u] = NoValue
        <5> SUFFICES ASSUME ~(u <= BucketEnd(current)), u \in Stored(src') PROVE FALSE BY DEF Stored
        <5>1. u <= lastTimestamp' BY <1>7
        <5> QED BY <5>1, <4>0, <1>5, <1>6
      <4> QED BY <4>1, <4>2
    <3>3. ctx' = SamplesIn(src', current, BucketEnd(current))
      BY <3>2, <1>4, <1>5, <1>6, AggregateIs
    <3> QED BY <2>2, <3>3
  <2>4. CASE ~(b >= current)
    <3>1. ctx' = ctx /\ ctx = SamplesIn(src, current, BucketEnd(current))
      BY <2>1, <2>2, <2>4, <1>4, RuleFacts
    <3>2. ASSUME NEW u \in Time, current <= u, u <= BucketEnd(current) PROVE src'[u] = src[u]
      <4>1. ~(u <= b) BY <2>4, <3>2, <1>5 DEF Time
      <4> QED BY <4>1, <1>7
    <3>3. SamplesIn(src', current, BucketEnd(current)) = SamplesIn(src, current, BucketEnd(current))
      BY <3>2, <1>5, <1>6, SamplesInSame
    <3> QED BY <2>2, <3>1, <3>3
  <2> QED BY <2>3, <2>4
<1> QED BY <1>10, <1>11

\* The destination after such a deletion.
LEMMA DelOlderBuckets ==
  ASSUME IndInv, NEW a \in Time, NEW b \in a .. MaxTime, DelRange(a, b), Sound, Sound',
         ~(a >= BucketStart(lastTimestamp))
  PROVE  ClosedBucketsExact' /\ CompactedSamplesClosed'
<1>1. TypeOK /\ SourceInv /\ hasRule BY DEF IndInv, Sound
<1>2. PICK current \in Time : current = BucketStart(lastTimestamp) BY <1>1, Types, BucketBounds
<1>3. /\ startBucket' = startBucket /\ since' = since /\ horizon' = horizon
      /\ BucketStart(lastTimestamp') = current
      /\ startBucket # NotStarted => startBucket = current
  BY <1>2, DelInStep, RuleFacts
<1>4. PICK first \in Aggregate, last \in Aggregate :
        /\ first = SeriesCalcRange(src', BucketStart(a), BucketEnd(a))
        /\ last = SeriesCalcRange(src', BucketStart(b), BucketEnd(b))
  BY <1>1, CompactionDelRangeIs
<1>5. dest'.samples = Recalculated(dest.samples, a, b, first, last, current)
  BY <1>1, <1>2, <1>4, CompactionDelRangeIs
<1>6. /\ lastTimestamp \in Time /\ b \in Time /\ a \in Int /\ b \in Int /\ a <= b
      /\ current \in Int /\ since \in Int /\ horizon \in Int /\ dest.samples \in Compacted
      /\ src \in SourceMap /\ src' \in SourceMap
  BY <1>1, Types, DelSource DEF Time
<1>7. /\ BucketStart(a) \in Time /\ BucketStart(a) \in Int /\ BucketEnd(a) \in Int
      /\ BucketStart(a) <= a /\ a <= BucketEnd(a)
      /\ BucketStart(b) \in Time /\ BucketStart(b) \in Int /\ BucketEnd(b) \in Int
      /\ BucketStart(b) <= b /\ b <= BucketEnd(b)
      /\ BucketStart(a) <= BucketStart(b)
  BY <1>6, BucketBounds, BucketOrder DEF Time
<1>8. BucketStart(current) = current
  <2>1. current \in BucketStarts BY <1>2, <1>6 DEF BucketStarts
  <2> QED BY <2>1, BucketOfStart
<1>9. /\ BucketStart(a) < current
      /\ b >= current => current <= BucketStart(b)
      /\ b >= current => BucketStart(a) < BucketStart(b)
      /\ ~(b >= current) => BucketStart(b) < current
  <2>1. b >= current => BucketStart(current) <= BucketStart(b) BY <1>6, BucketOrder
  <2> QED BY <2>1, <1>2, <1>6, <1>7, <1>8
<1>10. BucketStart(a) = BucketStart(b) => first = last
  BY <1>4, <1>6, BucketMembers
<1>11. /\ first = SamplesIn(src', BucketStart(a), BucketEnd(a))
       /\ last = SamplesIn(src', BucketStart(b), BucketEnd(b))
  <2>1. ~IsObsolete(BucketStart(a)) BY <1>1 DEF DelRange, VerifyCompactionDelPossible
  <2>2. BucketStart(a) <= BucketStart(a) BY <1>7
  <2> QED BY <2>1, <2>2, <1>1, <1>4, <1>6, <1>7, CalcRange
<1>12. \A u \in Time : src'[u] = IF a <= u /\ u <= b THEN NoValue ELSE src[u]
  BY <1>1, DelSource
<1>13. ClosedBucketsExact'
  <2> SUFFICES ASSUME NEW x \in BucketStarts, x < startBucket, since < x, horizon <= x
               PROVE  dest'.samples[x] = IF SamplesIn(src', x, BucketEnd(x)) = NoSamples
                                         THEN NoValue ELSE SamplesIn(src', x, BucketEnd(x))
    BY <1>3 DEF ClosedBucketsExact
  <2>1. x \in Time /\ x \in Int /\ BucketStart(x) = x /\ BucketEnd(x) \in Int /\ x <= BucketEnd(x)
    BY BucketOfStart, BucketBounds DEF Time
  <2>2. startBucket = current
    <3>1. startBucket # NotStarted BY <2>1, <1>1, <1>6, Types DEF NotStarted, Time
    <3> QED BY <3>1, <1>3
  <2>3. PICK new : new = dest'.samples[x] OBVIOUS
  <2>4. new = Recalculated(dest.samples, a, b, first, last, current)[x] BY <2>3, <1>5
  <2>5. /\ x < BucketStart(a) \/ BucketStart(b) < x => new = dest.samples[x]
        /\ x = BucketStart(a) => new = IF first = NoSamples THEN NoValue ELSE first
        /\ BucketStart(a) < x /\ x < BucketStart(b) => new = NoValue
        /\ BucketStart(a) < x /\ x = BucketStart(b) /\ b < current =>
             new = IF last = NoSamples THEN NoValue ELSE last
    BY <2>1, <2>4, <1>6, <1>9, <1>10, RecalculatedBuckets
  <2>6. CASE x < BucketStart(a) \/ BucketStart(b) < x
    <3>1. ASSUME NEW u \in Time, x <= u, u <= BucketEnd(x) PROVE src'[u] = src[u]
      <4>0. u \in Int BY DEF Time
      <4>1. CASE x < BucketStart(a)
        <5>1. BucketEnd(x) < BucketStart(a) BY <4>1, <2>1, <1>7, BucketOrder
        <5>2. ~(a <= u) BY <5>1, <4>0, <3>1, <2>1, <1>6, <1>7
        <5> QED BY <5>2, <1>12
      <4>2. CASE BucketStart(b) < x
        <5>1. BucketEnd(b) < x BY <4>2, <2>1, <1>6, BucketOrder
        <5>2. ~(u <= b) BY <5>1, <4>0, <3>1, <2>1, <1>6, <1>7
        <5> QED BY <5>2, <1>12
      <4> QED BY <4>1, <4>2, <2>6
    <3>2. SamplesIn(src', x, BucketEnd(x)) = SamplesIn(src, x, BucketEnd(x))
      BY <3>1, <2>1, <1>6, SamplesInSame
    <3>3. ClosedBucketsExact BY RuleFacts
    <3>4. dest.samples[x] = IF SamplesIn(src, x, BucketEnd(x)) = NoSamples
                            THEN NoValue ELSE SamplesIn(src, x, BucketEnd(x))
      BY <3>3 DEF ClosedBucketsExact
    <3> QED BY <3>2, <3>4, <2>3, <2>5, <2>6
  <2>7. CASE x = BucketStart(a)
    <3>1. BucketEnd(x) = BucketEnd(a) BY <2>1, <2>7, BucketMembers
    <3> QED BY <3>1, <2>3, <2>5, <2>7, <1>11
  <2>8. CASE BucketStart(a) < x /\ x < BucketStart(b)
    <3>1. BucketEnd(a) < x BY <2>1, <2>8, BucketOrder
    <3>2. BucketEnd(x) < BucketStart(b) BY <2>1, <2>8, <1>6, BucketOrder
    <3>3. ASSUME NEW u \in Time, x <= u, u <= BucketEnd(x) PROVE src'[u] = NoValue
      <4>1. a <= u /\ u <= b BY <3>1, <3>2, <3>3, <2>1, <1>6, <1>7 DEF Time
      <4> QED BY <4>1, <1>12
    <3>4. SamplesIn(src', x, BucketEnd(x)) = NoSamples BY <3>3, <2>1, <1>6, SamplesInNone
    <3> QED BY <3>4, <2>3, <2>5, <2>8
  <2>9. CASE BucketStart(a) < x /\ x = BucketStart(b)
    <3>1. BucketEnd(x) = BucketEnd(b) BY <2>1, <2>9, <1>6, BucketMembers
    <3>2. b < current BY <2>1, <2>2, <2>9, <1>6, <1>9
    <3> QED BY <3>1, <3>2, <2>3, <2>5, <2>9, <1>11
  <2> QED BY <2>1, <2>6, <2>7, <2>8, <2>9, <1>7
<1>14. CompactedSamplesClosed'
  <2> SUFFICES ASSUME NEW x \in Stored(dest'.samples)
               PROVE  /\ x < current
                      /\ dest'.samples[x] # NoSamples
                      /\ \A u \in Stored(dest'.samples[x]) : BucketStart(u) = x /\ dest'.samples[x][u] # Twice
    BY <1>3 DEF CompactedSamplesClosed
  <2>1. x \in Time /\ dest'.samples[x] # NoValue BY DEF Stored
  <2>2. PICK new : new = dest'.samples[x] OBVIOUS
  <2>3. PICK d \in Compacted, y \in Time, c \in Time : d = dest.samples /\ y = x /\ c = b BY <2>1, <1>6
  <2>4. new = IF x = BucketStart(b) /\ b < current /\ last # NoSamples THEN last
              ELSE IF x = BucketStart(a) /\ first # NoSamples THEN first ELSE dest.samples[x]
    <3>1. new # NoValue /\ new = Recalculated(d, a, c, first, last, current)[y]
      BY <2>1, <2>2, <2>3, <1>5
    <3>2. new = IF y = BucketStart(c) /\ c < current /\ last # NoSamples THEN last
                ELSE IF y = BucketStart(a) /\ first # NoSamples THEN first ELSE d[y]
      BY <3>1, RecalculatedKeeps
    <3> QED BY <3>2, <2>3
  <2>5. CASE x = BucketStart(b) /\ b < current /\ last # NoSamples
    <3>1. new = last /\ x < current BY <2>4, <2>5, <1>6, <1>9
    <3>2. ASSUME NEW u \in Stored(last) PROVE BucketStart(u) = x /\ last[u] # Twice
      <4>1. BucketStart(b) <= u /\ u <= BucketEnd(b) /\ last[u] # Twice
        BY <3>2, <1>6, <1>7, <1>11, SamplesInType
      <4>2. u \in Time BY DEF Stored
      <4> QED BY <4>1, <4>2, <2>5, <1>6, BucketMembers
    <3> QED BY <3>1, <3>2, <2>2, <2>5
  <2>6. CASE ~(x = BucketStart(b) /\ b < current /\ last # NoSamples) /\ x = BucketStart(a) /\ first # NoSamples
    <3>1. new = first /\ x < current BY <2>4, <2>6, <1>9
    <3>2. ASSUME NEW u \in Stored(first) PROVE BucketStart(u) = x /\ first[u] # Twice
      <4>1. BucketStart(a) <= u /\ u <= BucketEnd(a) /\ first[u] # Twice
        BY <3>2, <1>6, <1>7, <1>11, SamplesInType
      <4>2. u \in Time BY DEF Stored
      <4> QED BY <4>1, <4>2, <2>6, BucketMembers
    <3> QED BY <3>1, <3>2, <2>2, <2>6
  <2>7. CASE /\ ~(x = BucketStart(b) /\ b < current /\ last # NoSamples)
             /\ ~(x = BucketStart(a) /\ first # NoSamples)
    <3>1. new = dest.samples[x] BY <2>4, <2>7
    <3>2. x \in Stored(dest.samples) BY <3>1, <2>1, <2>2 DEF Stored
    <3>3. CompactedSamplesClosed BY RuleFacts
    <3> QED BY <3>1, <3>2, <3>3, <2>2, <1>2 DEF CompactedSamplesClosed
  <2> QED BY <2>5, <2>6, <2>7
<1> QED BY <1>13, <1>14

\* TS.DEL preserves the invariant.
LEMMA DelStep ==
  ASSUME IndInv, NEW a \in Time, NEW b \in a .. MaxTime, DelRange(a, b)
  PROVE  IndInv'
<1>1. TypeOK' /\ SourceInv' BY DelType, DelSource DEF IndInv
<1>2. ASSUME Sound' PROVE Sound
  BY <1>2 DEF Sound, DelRange, Derail
<1>3. RuleInv'
  <2> SUFFICES ASSUME Sound'
               PROVE  /\ IF startBucket' = NotStarted THEN Unstarted' ELSE Started'
                      /\ LatestBucketExact' /\ ClosedBucketsExact' /\ CompactedSamplesClosed'
    BY DEF RuleInv
  <2>1. Sound BY <1>2
  <2>2. CASE a >= BucketStart(lastTimestamp) BY <2>1, <2>2, DelNewest
  <2>3. CASE ~(a >= BucketStart(lastTimestamp)) BY <2>1, <2>3, DelOlderContext, DelOlderBuckets
  <2> QED BY <2>2, <2>3
<1> QED BY <1>1, <1>3 DEF IndInv

----------------------------------------------------------------------------
(***************************************************************************)
(* The other commands, and the theorems.                                   *)
(***************************************************************************)
LEMMA InitInv == Init => IndInv
<1> SUFFICES ASSUME Init PROVE IndInv OBVIOUS
<1>1. 0 \in Time /\ MaxTime \in Nat BY TimeAssumption DEF Time
<1>2. TypeOK
  BY <1>1, NoSamplesType DEF Init, TypeOK, EmptySeries, NotStarted
<1>3. SourceInv
  <2>1. Stored(src) = {} BY DEF Init, Stored
  <2> QED BY <2>1, RuleAssumption DEF Init, SourceInv
<1>4. RuleInv BY DEF Init, RuleInv, Sound
<1> QED BY <1>2, <1>3, <1>4 DEF IndInv

\* A new rule has compacted nothing and is responsible for nothing yet.
LEMMA CreateRuleStep ==
  ASSUME IndInv, CreateRule
  PROVE  IndInv'
<1>1. TypeOK /\ SourceInv BY DEF IndInv
<1>2. /\ src' = src /\ lastTimestamp' = lastTimestamp /\ horizon' = horizon /\ dest' = dest
      /\ hasRule' = TRUE /\ startBucket' = NotStarted /\ ctx' = NoSamples /\ derailed' = FALSE
      /\ since' = (IF Stored(src) = {} THEN -1 ELSE lastTimestamp)
  BY DEF CreateRule, source
<1>3. since' \in Time \cup {-1} BY <1>1, <1>2, Types
<1>4. TypeOK' BY <1>1, <1>2, <1>3, NoSamplesType DEF TypeOK
<1>5. SourceInv' BY <1>1, <1>2 DEF SourceInv
<1>6. Unstarted'
  BY <1>1, <1>2 DEF Unstarted, SourceInv, IsNewest
<1>7. ASSUME NEW b \in Time PROVE ~(b < startBucket') /\ ~(since' < startBucket')
  BY <1>2, <1>3 DEF Time, NotStarted
<1>8. LatestBucketExact'
  <2>1. ~(since' < startBucket') BY <1>2, <1>3 DEF Time, NotStarted
  <2> QED BY <2>1 DEF LatestBucketExact
<1>9. ClosedBucketsExact'
  <2>1. \A b \in BucketStarts : ~(b < startBucket') BY <1>7, BucketOfStart
  <2> QED BY <2>1 DEF ClosedBucketsExact
<1>10. CompactedSamplesClosed'
  <2>1. Stored(dest.samples) = {} BY DEF CreateRule, IsEmptySeries
  <2> QED BY <2>1, <1>2 DEF CompactedSamplesClosed
<1>11. RuleInv' BY <1>2, <1>6, <1>8, <1>9, <1>10 DEF RuleInv
<1> QED BY <1>4, <1>5, <1>11 DEF IndInv

\* Without a rule, nothing is promised of the destination.
LEMMA DeleteRuleStep ==
  ASSUME IndInv, DeleteRule
  PROVE  IndInv'
<1>1. TypeOK'
  BY NoSamplesType DEF IndInv, TypeOK, DeleteRule, source
<1>2. SourceInv' BY DEF IndInv, SourceInv, DeleteRule, source
<1>3. RuleInv' BY DEF DeleteRule, RuleInv, Sound
<1> QED BY <1>1, <1>2, <1>3 DEF IndInv

\* The destination is created again only without a rule.
LEMMA RecreateDestStep ==
  ASSUME IndInv, RecreateDest
  PROVE  IndInv'
<1>1. EmptySeries \in Destination
  BY TimeAssumption DEF EmptySeries, Destination, Compacted, Time
<1>2. TypeOK'
  BY <1>1 DEF IndInv, TypeOK, RecreateDest, source, rule, Destination, Compacted
<1>3. SourceInv' BY DEF IndInv, SourceInv, RecreateDest, source
<1>4. RuleInv' BY DEF RecreateDest, RuleInv, Sound, rule
<1> QED BY <1>2, <1>3, <1>4 DEF IndInv

\* Steps of others change nothing.
LEMMA StutterStep ==
  ASSUME IndInv, UNCHANGED vars
  PROVE  IndInv'
<1>1. TypeOK' BY DEF IndInv, TypeOK, vars
<1>2. SourceInv' BY DEF IndInv, SourceInv, vars
<1>3. RuleInv'
  BY DEF IndInv, RuleInv, vars, Sound, Unstarted, Started, LatestBucketExact, ClosedBucketsExact, CompactedSamplesClosed
<1> QED BY <1>1, <1>2, <1>3 DEF IndInv

\* No command, in whatever order commands come, takes the rule out of the invariant.
THEOREM Invariance == Spec => []IndInv
<1>1. Init => IndInv BY InitInv
<1>2. IndInv /\ [Next]_vars => IndInv'
  <2> SUFFICES ASSUME IndInv, [Next]_vars PROVE IndInv' OBVIOUS
  <2>1. ASSUME NEW t \in Time, NEW v \in Inputs, Append(t, v) PROVE IndInv' BY <2>1, AppendStep
  <2>2. ASSUME NEW t \in Time, NEW v \in Inputs, Upsert(t, v) PROVE IndInv' BY <2>2, UpsertStep
  <2>3. ASSUME NEW t \in Time, NEW b \in t .. MaxTime, DelRange(t, b) PROVE IndInv' BY <2>3, DelStep
  <2>4. CASE CreateRule BY <2>4, CreateRuleStep
  <2>5. CASE DeleteRule BY <2>5, DeleteRuleStep
  <2>6. CASE RecreateDest BY <2>6, RecreateDestStep
  <2>7. CASE UNCHANGED vars BY <2>7, StutterStep
  <2> QED BY <2>1, <2>2, <2>3, <2>4, <2>5, <2>6, <2>7 DEF Next
<1> QED BY <1>1, <1>2, PTL DEF Spec

\* The source, the rule and the destination are well typed, also once the rule is out of
\* step with its source.
THEOREM TypeCorrect == Spec => []TypeOK
<1>1. IndInv => TypeOK BY DEF IndInv
<1> QED BY <1>1, Invariance, PTL

\* Whatever the order of appends, upserts and deletions, the destination has of every
\* closed bucket the aggregate of exactly the source's samples (handleCompaction,
\* upsertCompaction, CompactionDelRange).
THEOREM ClosedTheorem == Spec => []ClosedBucketsExact
<1>1. IndInv => ClosedBucketsExact BY DEF IndInv, RuleInv, ClosedBucketsExact
<1> QED BY <1>1, Invariance, PTL

\* The context is the aggregate of the newest bucket, which is what TS.GET ... LATEST
\* answers (calculate_latest_sample).
THEOREM LatestTheorem == Spec => []LatestBucketExact
<1>1. IndInv => LatestBucketExact BY DEF IndInv, RuleInv, LatestBucketExact
<1> QED BY <1>1, Invariance, PTL

\* A compacted sample is older than the newest bucket and aggregates samples of its own
\* bucket only, each of them once.
THEOREM CompactedTheorem == Spec => []CompactedSamplesClosed
<1>1. IndInv => CompactedSamplesClosed BY DEF IndInv, RuleInv, CompactedSamplesClosed
<1> QED BY <1>1, Invariance, PTL
======================================================================================================================================
