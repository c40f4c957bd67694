--------------------------- MODULE MCAggregation ---------------------------
EXTENDS Aggregation

Curves == {<<2, -1, 3, 0, 1, 1>>, <<0, 3, -2, -2, 1, 3>>}
SeriesOf(curve, T) == [t \in T |-> Dbl(curve[t + 1])]

\* bound: the largest timestamp of most queries
Soon == 5

Plain ==
  [series |-> SeriesOf(<<>>, {}), agg |-> "twa", start |-> 0, end |-> Soon, reverse |-> FALSE,
   empty |-> FALSE, delta |-> 2, align |-> 0, bucketTS |-> "start", aligned |-> 1]

TwaQueries ==
  {[Plain EXCEPT !.series = SeriesOf(c, T), !.start = r[1], !.end = r[2], !.reverse = d, !.empty = e,
                 !.delta = b[1], !.align = b[2], !.bucketTS = b[3]]
   : c \in Curves, T \in SUBSET (0 .. Soon), r \in {<<0, Soon>>, <<1, Soon - 1>>, <<2, 2>>, <<3, 2>>, <<3, 0>>},
     d \in BOOLEAN, e \in BOOLEAN, b \in {<<1, 0, "start">>, <<2, 0, "mid">>, <<2, 1, "mid">>, <<3, 1, "end">>}}

\* One bucket of everything has enough samples for the vectors.
OtherQueries ==
  {[Plain EXCEPT !.series = SeriesOf(<<2, -1, 3, 0, 1, 3>>, T), !.agg = a, !.reverse = d, !.empty = e,
                 !.delta = b[1], !.align = b[2], !.bucketTS = b[3], !.aligned = b[4]]
   : T \in SUBSET (0 .. Soon), a \in AggType \ {"twa"}, d \in BOOLEAN, e \in BOOLEAN,
     b \in {<<1, 0, "end", 2>>, <<6, 0, "mid", 1>>, <<6, 1, "start", 2>>}}

\* The latest timestamps and the longest durations that are signed numbers.
EdgeQueries ==
  {[Plain EXCEPT !.series = [t \in T |-> Dbl(t % 4)], !.agg = a, !.start = r[1], !.end = r[2], !.reverse = d,
                 !.empty = TRUE, !.delta = b[1], !.align = b[2], !.bucketTS = x]
   : T \in SUBSET {0, 1, 8, 15}, a \in {"twa", "sum"}, r \in {<<0, MaxTime>>, <<0, 1>>, <<8, 14>>},
     d \in BOOLEAN, b \in {<<3, 2>>, <<7, 0>>, <<8, 1>>, <<9, 2>>, <<15, 2>>}, x \in {"start", "mid", "end"}}

MCQueries == TwaQueries \cup OtherQueries \cup EdgeQueries

MCValues == {-1, 4}

\* Four series; 0 stands for NaN.
Samples(times, values) ==
  [i \in DOMAIN times |-> [ts |-> times[i], value |-> IF values[i] = 0 THEN NaN ELSE Dbl(values[i])]]
Inputs == {<<>>, Samples(<<0, 1, 2>>, <<1, 0, 3>>), Samples(<<0, 2>>, <<0, -2>>),
           Samples(<<0, 1>>, <<2, 2>>), Samples(<<1>>, <<-1>>)}
MCLabels == <<"a", "b">>
Labelled == {<<"a", "a", "a", "a">>, <<"b", "a", NoLabel, "b">>}

MCRequests ==
  {[series |-> [i \in 1 .. 4 |-> [label |-> l[i], samples |-> s[i]]], reducer |-> r]
   : l \in Labelled, s \in [1 .. 4 -> Inputs], r \in {"sum", "max", "var.s"}}
=============================================================================
