---------------------------- MODULE Aggregators ----------------------------
(***************************************************************************)
(* The aggregation functions (compaction.c): what a context holds, and     *)
(* what appending a sample, closing a bucket, saving and loading do to it. *)
(* A double is a fraction <<numerator, denominator>> in lowest terms: the  *)
(* model computes exactly what the code computes up to rounding.  Only the *)
(* average looks at the largest double, DBL_MAX, which is small here.      *)
(* std.p and std.s are the roots of var.p and var.s and are left out.      *)
(***************************************************************************)
EXTENDS Integers, Sequences, FiniteSets, SequencesExt

CONSTANTS
  NaN,      \* the double that is not a number
  DBL_MAX,  \* the largest double
  VECTOR,   \* doubles in a vector register
  Word      \* timestamps are unsigned numbers below Word

ASSUME LimitAssumption == DBL_MAX \in Nat \ {0} /\ VECTOR \in Nat \ {0} /\ Word \in Nat \ {0}

AggType == {"min", "max", "sum", "avg", "twa", "var.p", "var.s", "count", "first", "last", "range"}

----------------------------------------------------------------------------
(***************************************************************************)
(* Fractions.                                                              *)
(***************************************************************************)
AbsInt(n) == IF n < 0 THEN -n ELSE n
GCD(n, d) == Max({k \in 1 .. d : n % k = 0 /\ d % k = 0})

Frac(n, d) == <<n \div GCD(n, d), d \div GCD(n, d)>>
Dbl(n) == <<n, 1>>
Plus(x, y)  == Frac(x[1] * y[2] + y[1] * x[2], x[2] * y[2])
Minus(x, y) == Frac(x[1] * y[2] - y[1] * x[2], x[2] * y[2])
Times(x, y) == Frac(x[1] * y[1], x[2] * y[2])
Over(x, n)  == IF n < 0 THEN Frac(-x[1], x[2] * (-n)) ELSE Frac(x[1], x[2] * n)
Less(x, y)  == x[1] * y[2] < y[1] * x[2]
Fabs(x)     == <<AbsInt(x[1]), x[2]>>
Largest  == Dbl(DBL_MAX)
Smallest == Dbl(-DBL_MAX)

----------------------------------------------------------------------------
(***************************************************************************)
(* Samples and buckets.  A series is a function from its timestamps to the *)
(* values.  The first bucket may begin before 0, which wraps around.       *)
(***************************************************************************)
Sample(s, t) == [ts |-> t, value |-> s[t]]
HasBefore(s, t) == \E u \in DOMAIN s : u < t
HasFrom(s, t) == \E u \in DOMAIN s : u >= t
Before(s, t) == Sample(s, CHOOSE u \in DOMAIN s : u < t /\ \A w \in DOMAIN s : w < t => w <= u)
From(s, t) == Sample(s, CHOOSE u \in DOMAIN s : u >= t /\ \A w \in DOMAIN s : w >= t => w >= u)

\* The elements of a set of numbers, the smallest first, and the samples with
\* timestamps in T, the earliest first.
Ascending(T) ==
  [i \in 1 .. Cardinality(T) |-> CHOOSE t \in T : Cardinality({u \in T : u < t}) = i - 1]

SamplesAt(s, T) == LET times == Ascending(T) IN [i \in DOMAIN times |-> Sample(s, times[i])]

Unsigned(n) == n % Word
Signed(n) == IF 2 * n >= Word THEN n - Word ELSE n
MaxOf(m, n) == IF m < n THEN n ELSE m
MinOf(m, n) == IF m < n THEN m ELSE n

\* x % N of C has the sign of x; modulo(x, N), the macro, corrects that with a sum
\* that leaves the signed numbers when N is larger than a quarter of Word.
Remainder(x, n) == IF x < 0 THEN -((-x) % n) ELSE x % n
Modulo(x, n) == Remainder(Signed(Unsigned(Remainder(x, n) + n)), n)

CalcBucketStart(t, delta, align) == Unsigned(t - Modulo(Signed(Unsigned(t - align)), delta))
BucketStartNormalize(b) == MaxOf(0, Signed(b))

----------------------------------------------------------------------------
(***************************************************************************)
(* The time-weighted average.  Read backwards, a bucket begins at its late *)
(* end: addBucketParams changes the ends about, and the two samples of a   *)
(* segment change places before it is measured.                            *)
(***************************************************************************)
DC == 0

TwaInitContext(reverse) ==
  [res |-> Dbl(0), prevTS |-> DC, prevValue |-> Dbl(DC), bucketStartTS |-> DC, bucketEndTS |-> DC,
   first_ts |-> DC, last_ts |-> DC, is_first_bucket |-> TRUE, iteration |-> 0, reverse |-> reverse]

TwaAddBucketParams(c, start, end) ==
  IF c.reverse THEN [c EXCEPT !.bucketStartTS = end, !.bucketEndTS = start]
  ELSE [c EXCEPT !.bucketStartTS = start, !.bucketEndTS = end]

TwaAddPrevBucketLastSample(c, s) ==
  [c EXCEPT !.prevTS = s.ts, !.prevValue = s.value, !.is_first_bucket = FALSE]

\* The value at time t of the line through the samples s1 and s2.
LineAt(s1, s2, t) ==
  Plus(s1.value, Over(Times(Dbl(t - s1.ts), Minus(s2.value, s1.value)), s2.ts - s1.ts))

\* The area under a line from value v1 to value v2 that takes the time d.
Area(v1, v2, d) == Over(Times(Plus(v1, v2), Dbl(d)), 2)

TwaPrev(c) == [ts |-> c.prevTS, value |-> c.prevValue]

TwaFirstSegment(c, s) ==
  LET ta == c.bucketStartTS
  IN  IF c.reverse THEN Area(LineAt(s, TwaPrev(c), ta), s.value, ta - s.ts)
      ELSE Area(LineAt(TwaPrev(c), s, ta), s.value, s.ts - ta)

TwaAddValue(c, s) ==
  [c EXCEPT
     !.first_ts  = IF c.iteration > 0 THEN @ ELSE IF c.is_first_bucket THEN s.ts ELSE c.bucketStartTS,
     !.res       = IF c.iteration > 0 THEN Plus(@, Area(c.prevValue, s.value, AbsInt(s.ts - c.prevTS)))
                   ELSE IF c.is_first_bucket THEN @ ELSE Plus(@, TwaFirstSegment(c, s)),
     !.last_ts   = s.ts,
     !.prevTS    = s.ts,
     !.prevValue = s.value,
     !.iteration = @ + 1]

TwaAddNextBucketFirstSample(c, s) ==
  LET tb   == c.bucketEndTS
      last == IF c.reverse THEN Area(LineAt(s, TwaPrev(c), tb), c.prevValue, c.prevTS - tb)
              ELSE Area(LineAt(TwaPrev(c), s, tb), c.prevValue, tb - c.prevTS)
  IN  [c EXCEPT !.res = Plus(@, last), !.last_ts = tb]

TwaFinalize(c) ==
  IF c.last_ts = c.first_ts THEN c.prevValue ELSE Over(c.res, AbsInt(c.last_ts - c.first_ts))

----------------------------------------------------------------------------
(***************************************************************************)
(* The average.  Once the sum would leave the doubles, val is the average  *)
(* of what was added so far instead.                                       *)
(***************************************************************************)
\* Mutant: no test for overflow.
AvgAddValueUntested(c, v) == [val |-> Plus(c.val, v), cnt |-> c.cnt + 1, isOverflow |-> FALSE]

AvgAddValue(c, v) ==
  LET n        == c.cnt + 1
      overflow == \/ /\ Less(c.val, Dbl(0)) = Less(v, Dbl(0))
                     /\ Less(Minus(Largest, Fabs(v)), Fabs(c.val))
                  \/ c.isOverflow
      sum      == IF c.isOverflow THEN Times(c.val, Dbl(n - 1)) ELSE c.val
  IN  [val |-> IF overflow THEN Plus(Over(sum, n), Over(v, n)) ELSE Plus(c.val, v),
       cnt |-> n, isOverflow |-> overflow]

AvgFinalize(c) == IF c.isOverflow THEN c.val ELSE Over(c.val, c.cnt)

\* variance, and its two scalings.
Variance(c) ==
  LET mean == Over(c.sum, c.cnt)
  IN  Over(Plus(Minus(c.sum_2, Over(Times(Dbl(2), Times(c.sum, c.sum)), c.cnt)),
                Times(Times(mean, mean), Dbl(c.cnt))), c.cnt)

VarSamplesFinalize(c) ==
  IF c.cnt = 1 THEN Dbl(0) ELSE Over(Times(Variance(c), Dbl(c.cnt)), c.cnt - 1)

----------------------------------------------------------------------------
(***************************************************************************)
(* The classes.                                                            *)
(***************************************************************************)
MaxMin == {"min", "max", "range"}
SingleValue == {"sum", "count", "last"}
Var == {"var.p", "var.s"}

CreateContext(agg, reverse) ==
  CASE agg \in MaxMin      -> [maxValue |-> Smallest, minValue |-> Largest]
    [] agg \in SingleValue -> [value |-> Dbl(0)]
    [] agg = "first"       -> [value |-> Dbl(0), isResetted |-> TRUE]
    [] agg = "avg"         -> [val |-> Dbl(0), cnt |-> 0, isOverflow |-> FALSE]
    [] agg \in Var         -> [sum |-> Dbl(0), sum_2 |-> Dbl(0), cnt |-> 0]
    [] agg = "twa"         -> TwaInitContext(reverse)

AssignIfGreater(x, y) == IF Less(x, y) THEN y ELSE x
AssignIfLess(x, y) == IF Less(y, x) THEN y ELSE x

AppendValue(agg, c, s) ==
  CASE agg = "max"   -> [c EXCEPT !.maxValue = AssignIfGreater(@, s.value)]
    [] agg = "min"   -> [c EXCEPT !.minValue = AssignIfLess(@, s.value)]
    [] agg = "range" -> [maxValue |-> AssignIfGreater(c.maxValue, s.value),
                         minValue |-> AssignIfLess(c.minValue, s.value)]
    [] agg = "sum"   -> [c EXCEPT !.value = Plus(@, s.value)]
    [] agg = "count" -> [c EXCEPT !.value = Plus(@, Dbl(1))]
    [] agg = "last"  -> [c EXCEPT !.value = s.value]
    [] agg = "first" -> IF c.isResetted THEN [value |-> s.value, isResetted |-> FALSE] ELSE c
    [] agg = "avg"   -> AvgAddValue(c, s.value)
    [] agg \in Var   -> [sum |-> Plus(c.sum, s.value), sum_2 |-> Plus(c.sum_2, Times(s.value, s.value)),
                         cnt |-> c.cnt + 1]
    [] agg = "twa"   -> TwaAddValue(c, s)

Finalize(agg, c) ==
  CASE agg = "max"         -> c.maxValue
    [] agg = "min"         -> c.minValue
    [] agg = "range"       -> Minus(c.maxValue, c.minValue)
    [] agg \in SingleValue -> c.value
    [] agg = "first"       -> c.value
    [] agg = "avg"         -> AvgFinalize(c)
    [] agg = "var.p"       -> Variance(c)
    [] agg = "var.s"       -> VarSamplesFinalize(c)
    [] agg = "twa"         -> TwaFinalize(c)

\* The value of a bucket without samples (the time-weighted one is interpolated).
FinalizeEmpty(agg, c) ==
  CASE agg \in {"sum", "count"} -> Dbl(0)
    [] agg = "last"             -> c.value
    [] OTHER                    -> NaN

\* last keeps its value, for the empty buckets to come.
ResetContext(agg, c) ==
  IF agg = "last" THEN c ELSE CreateContext(agg, IF agg = "twa" THEN c.reverse ELSE FALSE)

\* What writeContext puts into an RDB, in that order, and what readContext makes of it.
WriteContext(agg, c) ==
  CASE agg \in MaxMin      -> <<c.maxValue, c.minValue>>
    [] agg \in SingleValue -> <<c.value>>
    [] agg = "first"       -> <<c.value, c.isResetted>>
    [] agg = "avg"         -> <<c.val, c.cnt, c.isOverflow>>
    [] agg \in Var         -> <<c.sum, c.sum_2, c.cnt>>
    [] agg = "twa"         -> <<c.res, c.prevTS, c.prevValue, c.bucketStartTS, c.bucketEndTS, c.first_ts,
                                c.last_ts, c.is_first_bucket, c.iteration, c.reverse>>

ReadContext(agg, r) ==
  CASE agg \in MaxMin      -> [maxValue |-> r[1], minValue |-> r[2]]
    [] agg \in SingleValue -> [value |-> r[1]]
    [] agg = "first"       -> [value |-> r[1], isResetted |-> r[2]]
    [] agg = "avg"         -> [val |-> r[1], cnt |-> r[2], isOverflow |-> r[3]]
    [] agg \in Var         -> [sum |-> r[1], sum_2 |-> r[2], cnt |-> r[3]]
    [] agg = "twa"         -> [res |-> r[1], prevTS |-> r[2], prevValue |-> r[3], bucketStartTS |-> r[4],
                               bucketEndTS |-> r[5], first_ts |-> r[6], last_ts |-> r[7],
                               is_first_bucket |-> r[8], iteration |-> r[9], reverse |-> r[10]]

(***************************************************************************)
(* MaxAppendValuesVec, and its AVX2 form for a run of values whose first   *)
(* aligned element is the k-th: values in front of it, whole vectors by    *)
(* lanes, then the rest one by one.                                        *)
(***************************************************************************)
GreatestOf(x, values) == FoldSeq(LAMBDA v, m : AssignIfGreater(m, v), x, values)

LaneMax(values, si, ends, lane) ==
  GreatestOf(values[si + lane], [i \in 1..((ends - si) \div VECTOR) |-> values[si + i * VECTOR + lane]])

\* The first element behind the vectors that the loop adds to the first one.
VectorsEnd(si, ei) == LET vec_ei == ei - ((ei - si) % VECTOR)
                      IN  IF si + VECTOR < vec_ei THEN vec_ei ELSE si + VECTOR

MaxAppendValuesVec(x, values, k) ==
  IF Len(values) < 2 * VECTOR \/ Len(values) - k + 1 < 2 * VECTOR THEN GreatestOf(x, values)
  ELSE LET n    == Len(values)
           ends == VectorsEnd(k, n)
           head == GreatestOf(x, SubSeq(values, 1, k - 1))
           vec  == [j \in 1..VECTOR |-> LaneMax(values, k, ends - 1, j - 1)]
       IN  GreatestOf(GreatestOf(head, vec), SubSeq(values, ends, n))

----------------------------------------------------------------------------
(***************************************************************************)
(* What the aggregates mean.                                               *)
(***************************************************************************)
TotalOf(values) == FoldSeq(Plus, Dbl(0), values)
MeanOf(values) == Over(TotalOf(values), Len(values))
MaximumOf(values) == CHOOSE v \in Range(values) : \A w \in Range(values) : ~Less(v, w)
MinimumOf(values) == CHOOSE v \in Range(values) : \A w \in Range(values) : ~Less(w, v)
DeviationOf(values) ==
  LET square(v) == Times(Minus(v, MeanOf(values)), Minus(v, MeanOf(values)))
  IN  TotalOf([i \in DOMAIN values |-> square(values[i])])

Aggregated(agg, values) ==
  CASE agg = "min"   -> MinimumOf(values)
    [] agg = "max"   -> MaximumOf(values)
    [] agg = "range" -> Minus(MaximumOf(values), MinimumOf(values))
    [] agg = "sum"   -> TotalOf(values)
    [] agg = "count" -> Dbl(Len(values))
    [] agg = "avg"   -> MeanOf(values)
    [] agg = "first" -> values[1]
    [] agg = "last"  -> values[Len(values)]
    [] agg = "var.p" -> Over(DeviationOf(values), Len(values))
    [] agg = "var.s" -> IF Len(values) = 1 THEN Dbl(0) ELSE Over(DeviationOf(values), Len(values) - 1)

\* The value at time t of the curve through the samples of the series s, and its
\* average over from..to, cut off where no sample is on the far side; T are the
\* samples in that time.
CurveAt(s, t) == IF t \in DOMAIN s THEN s[t] ELSE LineAt(Before(s, t), From(s, t), t)

TimeWeighted(s, from, to, T) ==
  LET a    == IF HasBefore(s, from) THEN from ELSE CHOOSE t \in T : \A u \in T : t <= u
      b    == IF \E t \in DOMAIN s \ T : t >= to THEN to ELSE CHOOSE t \in T : \A u \in T : t >= u
      mean == [i \in 1 .. b - a |-> Over(Plus(CurveAt(s, a + i - 1), CurveAt(s, a + i)), 2)]
  IN  IF a = b THEN CurveAt(s, a) ELSE MeanOf(mean)
=============================================================================
