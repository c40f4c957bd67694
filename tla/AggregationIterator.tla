------------------------ MODULE AggregationIterator ------------------------
(***************************************************************************)
(* TS.RANGE and TS.REVRANGE with AGGREGATION, down to the values: the      *)
(* aggregation iterator feeds the samples of a range to an aggregation     *)
(* context, hands the time-weighted average the samples on either side of  *)
(* a bucket, and with EMPTY makes up the buckets without samples.          *)
(*                                                                         *)
(* Module RangeQuery models how the samples get here, in a buffer that is  *)
(* overwritten on the way; here they are a sequence.                       *)
(***************************************************************************)
EXTENDS Aggregators

CONSTANTS
  MaxTime,   \* bound: the largest timestamp
  Queries,   \* the queries asked, each with the series it is asked of
  NoQuery    \* no query is being executed

\* RangeArgs, and the series that is asked.
IsQuery(query) ==
  /\ DOMAIN query.series \subseteq 0 .. MaxTime
  /\ query.agg \in AggType
  /\ query.start \in 0 .. MaxTime /\ query.end \in 0 .. MaxTime
  /\ query.reverse \in BOOLEAN /\ query.empty \in BOOLEAN
  /\ query.delta \in Nat \ {0} /\ query.align \in 0 .. MaxTime
  /\ query.bucketTS \in {"start", "mid", "end"}
  /\ query.aligned \in 1 .. VECTOR   \* the first value of a run that is aligned for vectors

\* Timestamps and durations are parsed as signed numbers: they are below half of
\* what an unsigned number holds.
ASSUME QueryAssumption ==
  /\ MaxTime \in Nat /\ 2 * MaxTime < Word
  /\ NoQuery \notin Queries /\ \A query \in Queries : IsQuery(query) /\ 2 * query.delta < Word

VARIABLES
  phase,     \* "idle", "begin", "loop", "done", or "failed": an assertion did not hold
  q,         \* the query
  todo,      \* the samples of the range still to be read, in the order of reading
  qctx,      \* aggregationContext
  bucket,    \* aggregationLastTimestamp
  scope,     \* contextScope
  answer     \* the samples returned so far

queryVars == <<phase, q, todo, qctx, bucket, scope, answer>>

QueryInit ==
  /\ phase = "idle" /\ q = NoQuery /\ todo = <<>> /\ qctx = NoQuery
  /\ bucket = 0 /\ scope = 0 /\ answer = <<>>

Start(t) == CalcBucketStart(t, q.delta, q.align)

BucketOffset ==
  CASE q.bucketTS = "start" -> 0
    [] q.bucketTS = "mid"   -> q.delta \div 2
    [] q.bucketTS = "end"   -> q.delta

CalcBucketTs(b) == Unsigned(b + BucketOffset)

Bucket(b, v) == [ts |-> CalcBucketTs(b), value |-> v]

----------------------------------------------------------------------------
(***************************************************************************)
(* fillEmptyBuckets: the buckets from first to last, in the order of the   *)
(* answer.  A time-weighted average is interpolated between the sample in  *)
(* front of the first of them and the one behind it, in range or not, and  *)
(* nothing is filled in where one of the two is missing.                   *)
(***************************************************************************)
TwaEmptyRange == q.empty /\ q.agg = "twa"

\* twa_calc_ta and twa_calc_tb, forwards: the part of a bucket that is in range.
CalcTa(b) == MaxOf(b, q.start)
CalcTb(b) == MinOf(Unsigned(b + q.delta), q.end)

\* max(0, (int64_t)b - (int64_t)d)
StepBack(b, d) == BucketStartNormalize(Unsigned(b - d))

WholeBuckets(from, to) == to >= from /\ (to - from) % q.delta = 0

\* Mutant: the buckets of TS.REVRANGE are not swapped.
BucketsInOrderForward(first, last) == WholeBuckets(first, last)

\* The assertions end_bucket_ts >= first_bucket_ts, of RedisModule_Assert, and
\* (end_bucket_ts - first_bucket_ts) % agg_time_delta == 0, of assert.
BucketsInOrder(first, last) == IF q.reverse THEN WholeBuckets(last, first) ELSE WholeBuckets(first, last)

Straddled(b) == HasBefore(q.series, CalcTa(b)) /\ HasFrom(q.series, CalcTa(b))

EmptyBucketStarts(first, last) ==
  LET n == (IF q.reverse THEN first - last ELSE last - first) \div q.delta + 1
  IN  [i \in 1 .. n |-> IF q.reverse THEN first - (i - 1) * q.delta ELSE first + (i - 1) * q.delta]

TwaEmptyValue(first, b) ==
  LET before == Before(q.series, CalcTa(first))
      after  == From(q.series, CalcTa(first))
  IN  Over(Plus(LineAt(before, after, CalcTa(b)), LineAt(before, after, CalcTb(b))), 2)

FillEmptyBuckets(first, last, c) ==
  LET starts == EmptyBucketStarts(first, last)
  IN  IF q.agg # "twa" THEN [i \in DOMAIN starts |-> Bucket(starts[i], FinalizeEmpty(q.agg, c))]
      ELSE IF Straddled(first)
      THEN [i \in DOMAIN starts |-> Bucket(starts[i], TwaEmptyValue(first, starts[i]))]
      ELSE <<>>

\* The empty buckets from first to last, if there are any: whether the assertion
\* fails for them, and what the answer grows by.
Gap(present, first, last) == [present |-> present, first |-> first, last |-> last]
AssertionFails(gap) == gap.present /\ ~BucketsInOrder(gap.first, gap.last)
Filled(gap, c) == IF gap.present THEN FillEmptyBuckets(gap.first, gap.last, c) ELSE <<>>

----------------------------------------------------------------------------
(***************************************************************************)
(* SeriesQuery: a query begins.                                            *)
(***************************************************************************)
SeriesQuery(query) ==
  LET inRange == SamplesAt(query.series, {t \in DOMAIN query.series : query.start <= t /\ t <= query.end})
  IN  /\ phase' = "begin"
      /\ q' = query
      /\ todo' = IF query.reverse THEN Reverse(inRange) ELSE inRange
      /\ qctx' = CreateContext(query.agg, query.reverse)
      /\ UNCHANGED <<bucket, scope, answer>>

\* There is no sample: all buckets are empty.
NoSamples ==
  /\ phase = "begin" /\ todo = <<>>
  /\ \E gap \in {Gap(TwaEmptyRange, Start(IF q.reverse THEN q.end ELSE q.start),
                      Start(IF q.reverse THEN q.start ELSE q.end))} :
       /\ phase' = IF AssertionFails(gap) THEN "failed" ELSE "done"
       /\ answer' = Filled(gap, qctx)
  /\ UNCHANGED <<q, todo, qctx, bucket, scope>>

\* The sample behind the range in the direction of reading, from a series
\* iterator without filters: the one before t forwards, after t in reverse.
HasPrevSample(t) == IF q.reverse THEN HasFrom(q.series, t + 1) ELSE HasBefore(q.series, t)
PrevSample(t) == IF q.reverse THEN From(q.series, t + 1) ELSE Before(q.series, t)
HasNextSample(t) == IF q.reverse THEN HasBefore(q.series, t) ELSE HasFrom(q.series, t + 1)
NextSample(t) == IF q.reverse THEN Before(q.series, t) ELSE From(q.series, t + 1)

\* The bucket that starts at b and ends at s begins: tell the context which part
\* of it is in range.
WithBucket(c, b, s) == TwaAddBucketParams(c, MaxOf(b, q.start), MinOf(s, q.end))

\* Mutant: only samples of the range count as the sample before it.
FirstContextInRange(t, b) ==
  IF q.agg # "twa" THEN qctx ELSE WithBucket(qctx, BucketStartNormalize(b), Unsigned(b + q.delta))

\* The context for the first bucket, which starts at b with the sample at t.
FirstContext(t, b) ==
  LET c == WithBucket(qctx, BucketStartNormalize(b), Unsigned(b + q.delta))
  IN  IF q.agg # "twa" THEN qctx
      ELSE IF HasPrevSample(t) THEN TwaAddPrevBucketLastSample(c, PrevSample(t)) ELSE c

\* The empty buckets in front of the first sample, for which b is the bucket.
Prefix(b) ==
  LET first == Start(IF q.reverse THEN q.end ELSE q.start)
      last  == IF q.reverse THEN Unsigned(b + q.delta) ELSE StepBack(b, q.delta)
  IN  Gap(TwaEmptyRange /\ IF q.reverse THEN first >= last ELSE first < b, first, last)

\* The first sample opens the first bucket.
Initialize ==
  /\ phase = "begin" /\ todo # <<>>
  /\ \E t \in {todo[1].ts} : \E b \in {Start(t)} : \E gap \in {Prefix(b)} :
       /\ phase' = IF AssertionFails(gap) THEN "failed" ELSE "loop"
       /\ answer' = Filled(gap, qctx)
       /\ bucket' = BucketStartNormalize(b)
       /\ scope' = Unsigned(b + q.delta)
       /\ qctx' = FirstContext(t, b)
  /\ UNCHANGED <<q, todo>>

----------------------------------------------------------------------------
(***************************************************************************)
(* The loop over the samples.                                              *)
(***************************************************************************)
EndsBucket(t) == IF q.reverse THEN t < bucket ELSE t >= scope
Vectorized == q.agg = "max" /\ ~q.reverse
InBucket == phase = "loop" /\ todo # <<>> /\ ~EndsBucket(todo[1].ts)

AppendOne ==
  /\ InBucket /\ ~Vectorized
  /\ qctx' = AppendValue(q.agg, qctx, todo[1])
  /\ todo' = Tail(todo)
  /\ UNCHANGED <<phase, q, bucket, scope, answer>>

\* findLastIndexbeforeTS: all samples of the bucket at once.
AppendRun ==
  /\ InBucket /\ Vectorized
  /\ \E n \in {Cardinality({i \in DOMAIN todo : todo[i].ts < scope})} :
       /\ qctx' = [qctx EXCEPT !.maxValue =
                     MaxAppendValuesVec(@, [i \in 1 .. n |-> todo[i].value], q.aligned)]
       /\ todo' = SubSeq(todo, n + 1, Len(todo))
  /\ UNCHANGED <<phase, q, bucket, scope, answer>>

\* The empty buckets between the one that ends and the one that starts at b.
Between(b) ==
  LET first   == IF q.reverse THEN StepBack(scope, 2 * q.delta) ELSE scope
      last    == IF q.reverse THEN Unsigned(b + q.delta) ELSE StepBack(b, q.delta)
      present == IF q.reverse THEN scope >= Unsigned(last + 2 * q.delta) ELSE first < b
  IN  Gap(q.empty /\ present, first, last)

\* The context that follows c, at the bucket with the start b: a reset one, and
\* for a time-weighted average the last sample of the old bucket.
NextContext(c, b) ==
  LET fresh == ResetContext(q.agg, c)
      from  == BucketStartNormalize(b)
      to    == Unsigned(b + q.delta)
      tb    == IF q.reverse THEN MaxOf(from, q.start) ELSE MinOf(to, q.end)
      twa   == TwaAddPrevBucketLastSample(fresh, TwaPrev(c))
  IN  IF q.agg # "twa" THEN fresh
      ELSE IF q.reverse THEN TwaAddBucketParams(twa, tb, to) ELSE TwaAddBucketParams(twa, from, tb)

\* A sample behind the bucket closes it and opens the next one.
CloseBucket ==
  /\ phase = "loop" /\ todo # <<>> /\ EndsBucket(todo[1].ts)
  /\ \E s \in {todo[1]} :
     \E b \in {Start(s.ts)}, c \in {IF q.agg = "twa" THEN TwaAddNextBucketFirstSample(qctx, s) ELSE qctx} :
     \E gap \in {Between(b)} :
       /\ phase' = IF AssertionFails(gap) THEN "failed" ELSE "loop"
       /\ answer' = answer \o <<Bucket(bucket, Finalize(q.agg, c))>> \o Filled(gap, ResetContext(q.agg, c))
       /\ qctx' = AppendValue(q.agg, NextContext(c, b), s)
       /\ bucket' = BucketStartNormalize(b)
       /\ scope' = Unsigned(b + q.delta)
  /\ todo' = Tail(todo)
  /\ UNCHANGED q

\* The empty buckets behind the last sample.  (The start of its bucket is taken
\* from the timestamp reported for it.)
Suffix(ts) ==
  LET b     == Start(ts)
      first == Unsigned(IF q.reverse THEN b - q.delta ELSE b + q.delta)
      last  == Start(IF q.reverse THEN q.start ELSE q.end)
  IN  Gap(TwaEmptyRange /\ IF q.reverse THEN b > last ELSE b < last, first, last)

\* The samples are used up: the last bucket.
FinalizeLast ==
  /\ phase = "loop" /\ todo = <<>>
  /\ \E c \in {IF q.agg = "twa" /\ HasNextSample(qctx.prevTS)
               THEN TwaAddNextBucketFirstSample(qctx, NextSample(qctx.prevTS)) ELSE qctx},
        gap \in {Suffix(CalcBucketTs(bucket))} :
       /\ phase' = IF AssertionFails(gap) THEN "failed" ELSE "done"
       /\ answer' = answer \o <<Bucket(bucket, Finalize(q.agg, c))>> \o Filled(gap, qctx)
  /\ UNCHANGED <<q, todo, qctx, bucket, scope>>

QueryStep ==
  \/ phase = "idle" /\ \E query \in Queries : SeriesQuery(query)
  \/ NoSamples
  \/ Initialize
  \/ AppendOne
  \/ AppendRun
  \/ CloseBucket
  \/ FinalizeLast

----------------------------------------------------------------------------
(***************************************************************************)
(* Properties.                                                             *)
(***************************************************************************)
QueryTypeOK ==
  /\ phase \in {"idle", "begin", "loop", "done", "failed"}
  /\ q = NoQuery <=> phase = "idle"
  /\ \A i \in DOMAIN todo : todo[i].ts \in 0 .. MaxTime
  /\ bucket \in 0 .. Word - 1 /\ scope \in 0 .. Word - 1
  /\ \A i \in DOMAIN answer : answer[i].ts \in 0 .. Word - 1

\* What a bucket is, without wrapping around.
TrueStart(t) == t - ((t - q.align) % q.delta)
InRange == {t \in DOMAIN q.series : q.start <= t /\ t <= q.end}
SamplesOf(b) == {t \in InRange : TrueStart(t) = b}

Starts == {b \in TrueStart(q.start) .. TrueStart(q.end) : b = TrueStart(b)}

\* The buckets of the answer.
Expected ==
  LET full == {TrueStart(t) : t \in InRange}
      gaps == {b \in Starts : \E l, r \in full : l < b /\ b < r}
  IN  full \cup (IF ~q.empty THEN {} ELSE IF q.agg = "twa" THEN {b \in Starts : Straddled(b)} ELSE gaps)

InReadingOrder(sequence) == IF q.reverse THEN Reverse(sequence) ELSE sequence
ValuesIn(b) == LET s == SamplesAt(q.series, SamplesOf(b)) IN [i \in DOMAIN s |-> s[i].value]

\* As documented, in either direction: first and last are the values of the lowest
\* and of the highest timestamp, and an empty bucket of last repeats the last sample
\* before the bucket start.
ExpectedValue(b) ==
  IF q.agg = "twa" THEN TimeWeighted(q.series, MaxOf(b, q.start), MinOf(b + q.delta, q.end), SamplesOf(b))
  ELSE IF SamplesOf(b) # {} THEN Aggregated(q.agg, ValuesIn(b))
  ELSE IF q.agg = "last" THEN Before(q.series, b).value
  ELSE IF q.agg \in {"sum", "count"} THEN Dbl(0)
  ELSE NaN

ExpectedAnswer ==
  LET starts == InReadingOrder(SamplesAt([b \in Expected |-> b], Expected))
  IN  [i \in DOMAIN starts |-> Bucket(MaxOf(0, starts[i].ts), ExpectedValue(starts[i].ts))]

\* Beyond a quarter of Word, sums of durations and buckets wrap around.
TooWide == 4 * q.delta > Word

\* A bucket is reported at a time whose distance from ALIGN is no signed number.
ReportedTooFar == \E t \in InRange : 2 * (TrueStart(t) + BucketOffset - q.align) >= Word

(***************************************************************************)
(* Some queries are not answered like that.  Durations above a quarter of  *)
(* Word wrap around.  For time-weighted averages with EMPTY: buckets are   *)
(* missing or reported twice when buckets are named after their ends,      *)
(* since Suffix then starts one bucket late, or lie too far from ALIGN;    *)
(* empty ones are missing, or an assertion fails, when the range begins in *)
(* a first bucket that begins before 0; and a range that ends before it    *)
(* begins, which nothing refuses, is not without buckets.                  *)
(***************************************************************************)
Regular ==
  /\ ~TooWide
  /\ TwaEmptyRange =>
       q.bucketTS # "end" /\ TrueStart(q.start) >= 0 /\ q.start <= q.end /\ ~ReportedTooFar

\* TS.RANGE and TS.REVRANGE report every bucket with samples once, in order, with
\* the aggregate of exactly its samples in the range, and with EMPTY the ones in
\* between; a time-weighted average is that of the curve through all samples of the
\* series, over the part of the bucket that is in the range.  first and last of
\* TS.REVRANGE are left out here: docs/commands/ts.revrange.md has the lowest and the
\* highest timestamp, the code the order of reading, the highest first.
AnswerIsAggregate ==
  phase = "done" /\ Regular /\ ~(q.reverse /\ q.agg \in {"first", "last"}) => answer = ExpectedAnswer

\* The assertions of fillEmptyBuckets fail with EMPTY only, and there for durations
\* that are too wide and for these time-weighted averages: without a sample, over a
\* range that begins in a first bucket that begins before 0 and ends in a later
\* bucket, or ends in an earlier bucket than it begins; with samples, over a range
\* that ends in a first bucket that begins before 0, or whose buckets are reported
\* too far from ALIGN.
EmptyBucketsExist ==
  phase = "failed" =>
    \/ q.empty /\ TooWide
    \/ /\ TwaEmptyRange /\ InRange = {}
       /\ \/ TrueStart(q.start) < 0 /\ TrueStart(q.end) >= 0
          \/ TrueStart(q.end) < TrueStart(q.start)
    \/ /\ TwaEmptyRange /\ InRange # {}
       /\ TrueStart(q.end) < 0 \/ ReportedTooFar
=============================================================================
