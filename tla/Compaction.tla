----------------------------- MODULE Compaction -----------------------------
(***************************************************************************)
(* A compaction rule: what happens to the destination series when samples  *)
(* are appended to, upserted into and deleted from the source series.      *)
(*                                                                         *)
(* The source is seen as its clients see it, a map from timestamps to      *)
(* values (module SampleStore).  The aggregators are left open: an         *)
(* aggregate is the collection of the samples that went into it, so two    *)
(* aggregates are equal only when every aggregator agrees on them, and the *)
(* aggregate of no sample at all is told from the others.  The rules of a  *)
(* source do not touch each other, so there is one.  Values are numbers,   *)
(* the destination has no retention time, and nobody else writes to it.    *)
(***************************************************************************)
EXTENDS Samples

CONSTANTS
  Retention,       \* srcSeries->retentionTime, 0 for none
  BucketDuration,  \* rule->bucketDuration
  Alignment,       \* rule->timestampAlignment
  Inputs,          \* the values written
  Twice            \* marks a timestamp whose sample was aggregated twice

ASSUME RuleAssumption == Retention \in Nat /\ BucketDuration \in Nat \ {0} /\ Alignment \in Nat
ASSUME InputAssumption == Inputs \subseteq Number /\ Twice \notin Value \cup {NoValue}

VARIABLES
  src,           \* the samples of the source, or NoValue
  lastTimestamp, \* srcSeries->lastTimestamp
  hasRule,       \* does srcSeries->rules hold the rule?
  startBucket,   \* rule->startCurrentTimeBucket
  ctx,           \* rule->aggContext: the samples aggregated so far
  dest,          \* the destination: its samples, and its lastTimestamp
  since,         \* srcSeries->lastTimestamp when the rule was created, -1 if it was empty
  horizon,       \* history: the latest beginning of the retention window so far
  derailed       \* history: has the rule been put out of step with its source?

vars == <<src, lastTimestamp, hasRule, startBucket, ctx, dest, since, horizon, derailed>>
source == <<src, lastTimestamp, horizon>>
rule == <<hasRule, startBucket, ctx, since>>

NotStarted == -1

NoSamples == [t \in Time |-> NoValue]
Aggregate == [Time -> Number \cup {NoValue, Twice}]
Stored(s) == {t \in Time : s[t] # NoValue}
IsNewest(s, t) == t \in Stored(s) /\ \A u \in Stored(s) : u <= t
Newest(s) == CHOOSE t \in Time : IsNewest(s, t)

----------------------------------------------------------------------------
(***************************************************************************)
(* Buckets.  The first bucket may begin before 0 (an unsigned number that  *)
(* has wrapped around); BucketStartNormalize turns such a start into 0.    *)
(***************************************************************************)
CalcBucketStart(t) == t - ((t - Alignment) % BucketDuration)
\* Mutant: the start of the first bucket stays negative.
BucketStartNormalizeNever(b) == b

BucketStartNormalize(b) == IF b < 0 THEN 0 ELSE b

BucketStart(t) == BucketStartNormalize(CalcBucketStart(t))
BucketEnd(t) == CalcBucketStart(t) + BucketDuration - 1

BucketStarts == {BucketStart(t) : t \in Time}

----------------------------------------------------------------------------
(***************************************************************************)
(* The aggregation context and SeriesCalcRange, which reads the source     *)
(* through an iterator that skips what is behind the retention window.     *)
(***************************************************************************)
QueryStart(a) ==
  IF Retention > 0 /\ lastTimestamp > Retention /\ a < lastTimestamp - Retention
  THEN lastTimestamp - Retention ELSE a

AppendValue(c, t, v) == [c EXCEPT ![t] = IF @ = NoValue THEN v ELSE Twice]

SamplesIn(s, a, b) == [t \in Time |-> IF a <= t /\ t <= b THEN s[t] ELSE NoValue]

SeriesCalcRange(s, a, b) == SamplesIn(s, QueryStart(a), b)

----------------------------------------------------------------------------
(***************************************************************************)
(* The destination series.                                                 *)
(***************************************************************************)
EmptySeries == [samples |-> [t \in Time |-> NoValue], last |-> 0]

IsEmptySeries(d) == Stored(d.samples) = {}

\* SeriesAddSample and SeriesUpsertSample with DP_LAST: only the first moves
\* lastTimestamp.
Appended(d, t, agg) == [samples |-> [d.samples EXCEPT ![t] = agg], last |-> t]
Upserted(d, t, agg) == [d EXCEPT !.samples[t] = agg]

\* internalAdd, which closes a bucket.
InternalAdd(d, t, agg) ==
  IF t <= d.last /\ ~IsEmptySeries(d) THEN Upserted(d, t, agg) ELSE Appended(d, t, agg)

\* RuleSeriesUpsertSample, which corrects a closed bucket.
RuleSeriesUpsertSample(d, t, agg) ==
  IF IsEmptySeries(d) THEN Appended(d, t, agg) ELSE Upserted(d, t, agg)

\* SeriesDelRange of the destination.
ContinuousDeletion(d, a, b) ==
  LET left == [t \in Time |-> IF a <= t /\ t <= b THEN NoValue ELSE d.samples[t]] IN
  [samples |-> left,
   last    |-> IF ~(a <= d.last /\ d.last <= b) THEN d.last
               ELSE IF Stored(left) = {} THEN 0 ELSE Newest(left)]

----------------------------------------------------------------------------
Init ==
  /\ src = [t \in Time |-> NoValue] /\ lastTimestamp = 0
  /\ hasRule = FALSE /\ startBucket = NotStarted /\ ctx = NoSamples /\ since = -1
  /\ dest = EmptySeries
  /\ horizon = 0 /\ derailed = FALSE

(***************************************************************************)
(* Two things put a rule out of step with its source.  A rule that has not *)
(* seen an append yet gets a context from an upsert or a deletion, but no  *)
(* bucket to go with it; and a deletion takes away the newest bucket with  *)
(* all its samples, but the rule's bucket stays the same.                  *)
(***************************************************************************)
ContextWithoutBucket == startBucket = NotStarted /\ ctx' # NoSamples

NewestBucketDeleted ==
  /\ Stored(src) # {}
  /\ Stored(src') = {} \/ BucketStart(lastTimestamp') # BucketStart(lastTimestamp)

Derail == derailed' = (derailed \/ (hasRule /\ (ContextWithoutBucket \/ NewestBucketDeleted)))

----------------------------------------------------------------------------
(***************************************************************************)
(* TS.ADD of a sample newer than all others: handleCompaction.             *)
(***************************************************************************)

\* SeriesTrim, when the sample opens a new chunk, may drop what is older than
\* some point behind the retention window.
TrimPoints ==
  IF Retention > 0 /\ lastTimestamp > Retention THEN 0 .. (lastTimestamp - Retention) ELSE {0}

\* Mutant: the closed bucket is stored under the bucket that opens.
HandleCompactionNewBucket(t, v) ==
  LET current == BucketStart(t)
      start   == IF startBucket = NotStarted THEN current ELSE startBucket
  IN
  IF current > start
  THEN /\ dest' = InternalAdd(dest, current, ctx)
       /\ startBucket' = current
       /\ ctx' = AppendValue(NoSamples, t, v)
  ELSE /\ startBucket' = start
       /\ ctx' = AppendValue(ctx, t, v)
       /\ UNCHANGED dest

\* Mutant: the context survives the bucket.
HandleCompactionNoReset(t, v) ==
  LET current == BucketStart(t)
      start   == IF startBucket = NotStarted THEN current ELSE startBucket
  IN
  IF current > start
  THEN /\ dest' = InternalAdd(dest, start, ctx)
       /\ startBucket' = current
       /\ ctx' = AppendValue(ctx, t, v)
  ELSE /\ startBucket' = start
       /\ ctx' = AppendValue(ctx, t, v)
       /\ UNCHANGED dest

HandleCompaction(t, v) ==
  LET current == BucketStart(t)
      start   == IF startBucket = NotStarted THEN current ELSE startBucket
  IN
  IF current > start
  THEN /\ dest' = InternalAdd(dest, start, ctx)
       /\ startBucket' = current
       /\ ctx' = AppendValue(NoSamples, t, v)
  ELSE /\ startBucket' = start
       /\ ctx' = AppendValue(ctx, t, v)
       /\ UNCHANGED dest

Append(t, v) ==
  /\ ~(t <= lastTimestamp /\ Stored(src) # {})
  /\ \E cut \in TrimPoints :
       src' = [u \in Time |-> IF u = t THEN v ELSE IF u < cut THEN NoValue ELSE src[u]]
  /\ lastTimestamp' = t
  /\ horizon' = IF Retention > 0 /\ t > Retention + horizon THEN t - Retention ELSE horizon
  /\ IF hasRule THEN HandleCompaction(t, v) ELSE UNCHANGED <<startBucket, ctx, dest>>
  /\ UNCHANGED <<hasRule, since, derailed>>

(***************************************************************************)
(* TS.ADD at or before lastTimestamp: upsertCompaction recalculates the    *)
(* bucket from the source.  v is the value the duplicate policy leaves.    *)
(***************************************************************************)
\* Mutant: an upsert at the very start of the newest bucket counts as older.
UpsertCompactionAfterStart(s, t) ==
  IF t > BucketStart(lastTimestamp)
  THEN /\ ctx' = SeriesCalcRange(s, BucketStart(lastTimestamp), BucketEnd(lastTimestamp))
       /\ UNCHANGED dest
  ELSE /\ dest' = RuleSeriesUpsertSample(dest, BucketStart(t),
                                         SeriesCalcRange(s, BucketStart(t), BucketEnd(t)))
       /\ UNCHANGED ctx

UpsertCompaction(s, t) ==
  IF t >= BucketStart(lastTimestamp)
  THEN /\ ctx' = SeriesCalcRange(s, BucketStart(lastTimestamp), BucketEnd(lastTimestamp))
       /\ UNCHANGED dest
  ELSE /\ dest' = RuleSeriesUpsertSample(dest, BucketStart(t),
                                         SeriesCalcRange(s, BucketStart(t), BucketEnd(t)))
       /\ UNCHANGED ctx

Upsert(t, v) ==
  /\ t <= lastTimestamp /\ Stored(src) # {}
  /\ ~OlderThanRetention(t, lastTimestamp, Retention)
  /\ src' = [src EXCEPT ![t] = v]
  /\ IF hasRule THEN UpsertCompaction(src', t) ELSE UNCHANGED <<ctx, dest>>
  /\ UNCHANGED <<lastTimestamp, hasRule, startBucket, since, horizon>>
  /\ Derail

----------------------------------------------------------------------------
(***************************************************************************)
(* TS.DEL key a b.                                                         *)
(***************************************************************************)
IsObsolete(t) == lastTimestamp > Retention /\ t < lastTimestamp - Retention

VerifyCompactionDelPossible(a) ==
  hasRule => ~IsObsolete(a) /\ ~IsObsolete(BucketStart(a))

\* The buckets of the range, s being the source without the range: the first
\* and the last one are recalculated, or deleted when they have become empty,
\* and the ones between them are deleted.  The newest bucket is not in the
\* destination yet: its context is recalculated.
CompactionDelRange(s, a, b) ==
  LET current  == BucketStart(lastTimestamp)
      first    == SeriesCalcRange(s, BucketStart(a), BucketEnd(a))
      last     == SeriesCalcRange(s, BucketStart(b), BucketEnd(b))
      inNewest == b >= current
      dest1    == IF first = NoSamples THEN dest
                  ELSE RuleSeriesUpsertSample(dest, BucketStart(a), first)
      dest2    == IF inNewest \/ last = NoSamples THEN dest1
                  ELSE RuleSeriesUpsertSample(dest1, BucketStart(b), last)
      from     == IF first = NoSamples THEN BucketStart(a) ELSE CalcBucketStart(a) + BucketDuration
      to       == IF ~inNewest /\ last = NoSamples THEN BucketStart(b)
                  ELSE BucketStartNormalize(CalcBucketStart(b) - BucketDuration)
  IN
  IF a >= current
  THEN /\ ctx' = SeriesCalcRange(s, current, BucketEnd(lastTimestamp))
       /\ UNCHANGED dest
  ELSE /\ ctx' = IF inNewest THEN SeriesCalcRange(s, current, MaxTime) ELSE ctx
       /\ dest' = IF to >= from THEN ContinuousDeletion(dest2, from, to) ELSE dest2

DelRange(a, b) ==
  /\ VerifyCompactionDelPossible(a)
  /\ src' = [t \in Time |-> IF a <= t /\ t <= b THEN NoValue ELSE src[t]]
  /\ IF hasRule THEN CompactionDelRange(src', a, b) ELSE UNCHANGED <<ctx, dest>>
  /\ lastTimestamp' = IF ~(a <= lastTimestamp /\ lastTimestamp <= b) THEN lastTimestamp
                      ELSE IF Stored(src') = {} THEN 0 ELSE Newest(src')
  /\ UNCHANGED <<hasRule, startBucket, since, horizon>>
  /\ Derail

----------------------------------------------------------------------------
(***************************************************************************)
(* TS.CREATERULE with an empty destination (the docs promise nothing for   *)
(* another one), TS.DELETERULE, and a new destination.                     *)
(***************************************************************************)
CreateRule ==
  /\ ~hasRule /\ IsEmptySeries(dest)
  /\ hasRule' = TRUE /\ startBucket' = NotStarted /\ ctx' = NoSamples
  /\ since' = IF Stored(src) = {} THEN -1 ELSE lastTimestamp
  /\ derailed' = FALSE
  /\ UNCHANGED <<source, dest>>

DeleteRule ==
  /\ hasRule
  /\ hasRule' = FALSE /\ startBucket' = NotStarted /\ ctx' = NoSamples /\ since' = -1
  /\ derailed' = FALSE
  /\ UNCHANGED <<source, dest>>

\* DEL and TS.CREATE of the destination.
RecreateDest ==
  /\ ~hasRule
  /\ dest' = EmptySeries
  /\ UNCHANGED <<source, rule, derailed>>

Next ==
  \/ \E t \in Time : \/ \E v \in Inputs : Append(t, v) \/ Upsert(t, v)
                     \/ \E b \in t .. MaxTime : DelRange(t, b)
  \/ CreateRule \/ DeleteRule \/ RecreateDest

Spec == Init /\ [][Next]_vars

----------------------------------------------------------------------------
(***************************************************************************)
(* Properties.  Most are about rules that have never been put out of step. *)
(***************************************************************************)
Sound == hasRule /\ ~derailed

\* Type correctness of the source, the rule and the destination.
TypeOK ==
  /\ src \in [Time -> Number \cup {NoValue}]
  /\ lastTimestamp \in Time
  /\ hasRule \in BOOLEAN
  /\ startBucket \in Time \cup {NotStarted}
  /\ ctx \in Aggregate
  /\ dest \in [samples : [Time -> Aggregate \cup {NoValue}], last : Time]
  /\ since \in Time \cup {-1}
  /\ horizon \in Time
  /\ derailed \in BOOLEAN

\* The destination holds, for every bucket that began after the rule was
\* created, has been closed and has never been behind the retention window, the aggregate of
\* exactly the source's samples in that bucket, and nothing when it has none:
\* handleCompaction, upsertCompaction and CompactionDelRange agree on the same
\* buckets whatever the order of appends, upserts and deletions.
ClosedBucketsExact ==
  Sound => \A b \in BucketStarts :
    b < startBucket /\ since < b /\ horizon <= b =>
      LET agg == SamplesIn(src, b, BucketEnd(b))
      IN  dest.samples[b] = IF agg = NoSamples THEN NoValue ELSE agg

\* What TS.GET ... LATEST answers (calculate_latest_sample: the rule's bucket
\* and its context) is the aggregate of the newest bucket.
LatestBucketExact ==
  Sound /\ since < startBucket /\ horizon <= startBucket =>
    /\ startBucket = BucketStart(lastTimestamp)
    /\ ctx = SamplesIn(src, startBucket, BucketEnd(startBucket))

\* A bucket appears in the destination only once a newer bucket has opened, and
\* a compacted sample aggregates samples of its own bucket, each of them once,
\* also when the rule was created in the middle of the bucket.
CompactedSamplesClosed ==
  Sound => \A b \in Stored(dest.samples) :
    /\ b < BucketStart(lastTimestamp)
    /\ dest.samples[b] # NoSamples
    /\ \A t \in Stored(dest.samples[b]) : BucketStart(t) = b /\ dest.samples[b][t] # Twice
=============================================================================
