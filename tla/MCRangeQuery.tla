---------------------------- MODULE MCRangeQuery ----------------------------
EXTENDS RangeQuery

CONSTANTS AggTime, FilterTime  \* bounds of the timestamps in the two families of queries

\* All series with timestamps up to n: a set of timestamps and the first ones of
\* the chunks among them.
Series(n) ==
  LET chunkOf(S, cuts, c) ==
        Ascending({t \in S : c <= t /\ \A d \in cuts : d <= c \/ t < d})
      layout(S, cuts) ==
        LET sorted == Ascending(cuts)
        IN  [i \in DOMAIN sorted |-> chunkOf(S, cuts, sorted[i])]
  IN  UNION {{layout(S, cuts) : cuts \in {C \in SUBSET S : \A t \in S : \E c \in C : c <= t}}
             : S \in SUBSET (0 .. n)}

All == 2 * MaxTime + 4

\* The newest sample of a series.
LastOf(c) == IF c = <<>> THEN 0 ELSE Last(Last(c))

Plain ==
  [chunks |-> <<>>, last |-> 0, compressed |-> FALSE, reverse |-> FALSE, start |-> 0, end |-> MaxTime,
   latest |-> FALSE, open |-> {}, byTs |-> FALSE, wanted |-> {}, byValue |-> FALSE,
   rejected |-> {}, agg |-> "none", delta |-> 1, align |-> 0, bucketTS |-> "start",
   empty |-> FALSE, count |-> All]

\* Forward, in reverse, and in reverse from compressed chunks.
Directions == {<<FALSE, FALSE>>, <<TRUE, FALSE>>, <<TRUE, TRUE>>}
Loops == {<<FALSE, FALSE, "max">>, <<FALSE, FALSE, "other">>,
          <<TRUE, FALSE, "other">>, <<TRUE, TRUE, "max">>}
Ranges == {<<0, AggTime>>, <<0, AggTime - 1>>, <<2, AggTime>>}
Buckets == {<<1, 0, "start">>, <<2, 1, "mid">>, <<3, 2, "end">>}

Aggregations ==
  {[Plain EXCEPT !.chunks = c, !.last = LastOf(c), !.start = r[1], !.end = r[2],
                 !.reverse = d[1], !.compressed = d[2], !.agg = d[3],
                 !.delta = b[1], !.align = b[2], !.bucketTS = b[3], !.empty = f]
   : c \in Series(AggTime), d \in Loops, r \in Ranges, b \in Buckets, f \in BOOLEAN}

Filters ==
  {[Plain EXCEPT !.chunks = c, !.last = LastOf(c), !.start = 1, !.end = e,
                 !.reverse = d[1], !.compressed = d[2],
                 !.byTs = (w # {}), !.wanted = w, !.byValue = (r # {}), !.rejected = r,
                 !.agg = a, !.delta = 2, !.empty = TRUE, !.count = n]
   : c \in Series(FilterTime), d \in Directions, e \in {FilterTime - 1, FilterTime},
     w \in {{}, {1, 3}, 0 .. FilterTime}, r \in {{}, {1, 3}}, a \in {"none", "other"}, n \in {2, All}}

\* With a lastTimestamp that lags behind or not.
Latests ==
  {[Plain EXCEPT !.chunks = c, !.last = IF lag THEN 0 ELSE LastOf(c), !.start = s, !.end = e,
                 !.reverse = d[1], !.compressed = d[2],
                 !.latest = TRUE, !.open = o, !.byTs = (w # {}), !.wanted = w,
                 !.agg = a, !.delta = 2, !.empty = TRUE]
   : c \in Series(2), d \in Directions, s \in {0, 2}, e \in 0 .. 4,
     o \in {{}, {0}, {1}, {3}, {4}}, lag \in BOOLEAN, w \in {{}, {1, 3}}, a \in {"none", "other"}}

MCQueries == Aggregations \cup Filters \cup Latests
=============================================================================
