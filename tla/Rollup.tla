------------------------------- MODULE Rollup -------------------------------
(***************************************************************************)
(* The context of a compaction rule, down to the values: what appending    *)
(* to, upserting into and reloading the source do to it, what reaches the  *)
(* destination, and what LATEST reads.  Module Compaction models the rule  *)
(* with retention, deletion and rules created late, and leaves the         *)
(* aggregator open; here the rule is created on an empty source.           *)
(***************************************************************************)
EXTENDS Aggregators

CONSTANTS
  RuleTime,   \* bound: the largest timestamp
  Values,     \* the values written
  RuleAggs,   \* the aggregators of the rules
  Duration,   \* rule->bucketDuration
  Alignment,  \* rule->timestampAlignment
  NoRule      \* no rule has been created

ASSUME RollupAssumption ==
  /\ RuleTime \in Nat /\ Alignment \in Nat /\ Duration \in Nat \ {0}
  /\ 2 * RuleTime < Word /\ 2 * Duration < Word   \* they are signed numbers
  /\ Values \subseteq -DBL_MAX .. DBL_MAX /\ RuleAggs \subseteq AggType /\ NoRule \notin AggType

VARIABLES
  rule,     \* rule->aggClass->type, or NoRule
  src,      \* the source
  start,    \* rule->startCurrentTimeBucket
  ctx,      \* rule->aggContext
  dest,     \* the destination: the buckets stored in it
  stale     \* history: buckets whose time-weighted average a later upsert changed

ruleVars == <<rule, src, start, ctx, dest, stale>>

NotStarted == -1
Nothing == [t \in {} |-> Dbl(0)]

RuleInit ==
  /\ rule = NoRule /\ src = Nothing /\ start = NotStarted /\ ctx = NoRule
  /\ dest = Nothing /\ stale = {}

RuleBucket(t) == CalcBucketStart(t, Duration, Alignment)

\* Mutant: the start of the first bucket is a signed number that is not clipped at 0.
RuleBucketStartSigned(t) == Signed(RuleBucket(t))

RuleBucketStart(t) == BucketStartNormalize(RuleBucket(t))
RuleBucketEnd(t) == Unsigned(RuleBucket(t) + Duration)
Put(s, t, v) == [u \in DOMAIN s \cup {t} |-> IF u = t THEN v ELSE s[u]]

----------------------------------------------------------------------------
\* What the samples of a bucket that starts at b, up to the timestamp before to,
\* mean for an aggregator.
Meaning(s, b, to) ==
  LET T == {t \in DOMAIN s : b <= t /\ t < to}
      v == SamplesAt(s, T)
  IN  IF rule = "twa" THEN TimeWeighted(s, b, to, T) ELSE Aggregated(rule, [i \in DOMAIN v |-> v[i].value])

BucketMeaning(s, b) == Meaning(s, b, RuleBucketEnd(b))

\* The buckets that a time-weighted average joins to the sample at t of another
\* bucket: the code recalculates the bucket of t only.
Neighbours(s, t) ==
  {b \in DOMAIN dest \cup {start} :
     \/ HasBefore(s, b) /\ Before(s, b).ts = t
     \/ HasFrom(s, RuleBucketEnd(b)) /\ From(s, RuleBucketEnd(b)).ts = t}

----------------------------------------------------------------------------
\* TS.CREATERULE
CreateRule(agg) ==
  /\ rule = NoRule
  /\ rule' = agg
  /\ ctx' = CreateContext(agg, FALSE)
  /\ UNCHANGED <<src, start, dest, stale>>

\* Mutant: the new context does not get the last sample of the old bucket.
OpenedAlone(c, t) ==
  LET fresh == ResetContext(rule, c)
  IN  IF rule = "twa" THEN TwaAddBucketParams(fresh, RuleBucketStart(t), RuleBucketEnd(t)) ELSE fresh

\* The context of the bucket of t, after the bucket with the context c.
Opened(c, t) ==
  LET fresh == ResetContext(rule, c)
  IN  IF rule = "twa"
      THEN TwaAddPrevBucketLastSample(TwaAddBucketParams(fresh, RuleBucketStart(t), RuleBucketEnd(t)), TwaPrev(c))
      ELSE fresh

\* Mutant: the sample that closes a bucket is not shown to its context.
ClosedAlone(c, s) == c

\* The context c of a bucket that the sample s closes.
Closed(c, s) == IF rule = "twa" THEN TwaAddNextBucketFirstSample(c, s) ELSE c

\* TS.ADD of a sample newer than all others: handleCompaction.
HandleCompaction(s) ==
  LET current == RuleBucketStart(s.ts)
      first   == IF start = NotStarted /\ rule = "twa"
                 THEN TwaAddBucketParams(ctx, current, RuleBucketEnd(s.ts)) ELSE ctx
      closed  == Closed(ctx, s)
  IN  IF start # NotStarted /\ current > start
      THEN /\ dest' = Put(dest, start, Finalize(rule, closed))
           /\ start' = current
           /\ ctx' = AppendValue(rule, Opened(closed, s.ts), s)
      ELSE /\ start' = IF start = NotStarted THEN current ELSE start
           /\ ctx' = AppendValue(rule, first, s)
           /\ UNCHANGED dest

AddSample(t, v) ==
  /\ rule # NoRule /\ \A u \in DOMAIN src : u < t
  /\ src' = Put(src, t, v)
  /\ HandleCompaction([ts |-> t, value |-> v])
  /\ UNCHANGED <<rule, stale>>

\* The context c after a sequence of samples.
Appended(c, samples) ==
  LET after[i \in 0 .. Len(samples)] ==
        IF i = 0 THEN c ELSE AppendValue(rule, after[i - 1], samples[i])
  IN  after[Len(samples)]

\* SeriesCalcRange: the context of the samples from a to the one before b.
CalcRange(s, a, b) ==
  LET new    == CreateContext(rule, FALSE)
      from   == IF rule = "twa" THEN TwaAddBucketParams(new, a, b) ELSE new
      before == IF rule = "twa" /\ HasBefore(s, a) THEN TwaAddPrevBucketLastSample(from, Before(s, a)) ELSE from
      full   == Appended(before, SamplesAt(s, {t \in DOMAIN s : a <= t /\ t < b}))
  IN  IF rule = "twa" /\ HasFrom(s, b) THEN TwaAddNextBucketFirstSample(full, From(s, b)) ELSE full

\* TS.ADD of a sample that is not newer: upsertCompaction; v is the value that the
\* duplicate policy leaves.
UpsertSample(t, v) ==
  /\ \E u \in DOMAIN src : t <= u
  /\ src' = Put(src, t, v)
  /\ \E newest \in DOMAIN src : \E c \in {CalcRange(src', RuleBucketStart(t), RuleBucketEnd(t))} :
       /\ \A u \in DOMAIN src : u <= newest
       /\ IF t >= RuleBucketStart(newest)
          THEN ctx' = c /\ UNCHANGED dest
          ELSE dest' = Put(dest, RuleBucketStart(t), Finalize(rule, c)) /\ UNCHANGED ctx
  /\ stale' = (stale \ {RuleBucketStart(t)}) \cup
              (IF rule = "twa" THEN Neighbours(src', t) ELSE {})
  /\ UNCHANGED <<rule, start>>

\* The rule is saved and loaded.
ReloadRule ==
  /\ rule # NoRule
  /\ ctx' = ReadContext(rule, WriteContext(rule, ctx))
  /\ UNCHANGED <<rule, src, start, dest, stale>>

\* calculate_latest_sample, on a copy of the context.
CalculateLatestSample == [ts |-> start, value |-> Finalize(rule, ctx)]

RuleStep ==
  \/ \E agg \in RuleAggs : CreateRule(agg)
  \/ \E t \in 0 .. RuleTime, n \in Values : AddSample(t, Dbl(n)) \/ UpsertSample(t, Dbl(n))
  \/ ReloadRule

----------------------------------------------------------------------------
(***************************************************************************)
(* Properties.                                                             *)
(***************************************************************************)
RuleTypeOK ==
  /\ rule \in RuleAggs \cup {NoRule}
  /\ DOMAIN src \subseteq 0 .. RuleTime /\ DOMAIN dest \subseteq 0 .. Word - 1
  /\ start \in {NotStarted} \cup 0 .. Word - 1
  /\ stale \subseteq 0 .. Word - 1

\* Whether it was computed sample by sample as they came (handleCompaction), again
\* after an upsert (SeriesCalcRange), or partly before a restart: what the
\* destination holds for a closed bucket is the aggregate of the samples of the
\* source in it.  (Beyond a quarter of Word, modulo overflows.)
RollupsExact == 4 * Duration <= Word => \A b \in DOMAIN dest \ stale : dest[b] = BucketMeaning(src, b)

\* What LATEST reports is the aggregate of the samples of the open bucket so far.
LatestExact ==
  4 * Duration <= Word /\ DOMAIN src # {} /\ start \notin stale =>
    CalculateLatestSample.value = Meaning(src, start, RuleBucketEnd(start))

\* The sum, or average, that the average keeps is a double: AvgAddValue turns to
\* averages before the sum overflows.
AverageFits == rule = "avg" => ~Less(Largest, Fabs(ctx.val))
=============================================================================
