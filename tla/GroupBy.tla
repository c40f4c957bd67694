------------------------------ MODULE GroupBy ------------------------------
(***************************************************************************)
(* TS.MRANGE ... GROUPBY label REDUCE reducer: the series that match are   *)
(* put into groups by the value of a label; the samples of a group are     *)
(* merged through a heap, in the order of their timestamps, and samples    *)
(* with the same timestamp are reduced to one by an aggregator.            *)
(*                                                                         *)
(* A series is what its own iterators return: samples in order, and NaN    *)
(* for the empty buckets of an aggregation.                                *)
(***************************************************************************)
EXTENDS Aggregators

CONSTANTS
  Requests,   \* the requests: the series found, and the reducer
  Labels,     \* the values of the label, in the order of the dictionary
  NoLabel,    \* the series does not have the label
  NoRequest,  \* no request is being executed
  EndOfSeries \* CR_END

\* parseMultiSeriesReduceArgs refuses the others.
Reducer == AggType \ {"first", "last", "twa"}

ASSUME RequestAssumption ==
  /\ Labels \in Seq(Range(Labels))
  /\ \A request \in Requests :
       request.reducer \in Reducer /\ request.series \in Seq(Range(request.series))

VARIABLES
  stage,    \* "idle", "group", "ahead", "next", "same" or "done"
  req,      \* the request
  groups,   \* TS_ResultSet: the groups that are not reduced yet
  inputs,   \* the samples the iterators of the group have not returned yet
  heap,     \* samples_heap: the next sample of every iterator that has one
  next,     \* next_sample, or EndOfSeries
  gctx,     \* aggregationContext
  isNan,    \* has every sample with this timestamp been NaN?
  merged,   \* the samples of the reduced series
  reply     \* the reduced series, and the positions of the series they come from

groupVars == <<stage, req, groups, inputs, heap, next, gctx, isNan, merged, reply>>

GroupInit ==
  /\ stage = "idle" /\ req = NoRequest /\ groups = <<>> /\ inputs = <<>> /\ heap = <<>>
  /\ next = EndOfSeries /\ gctx = NoRequest /\ isNan = TRUE /\ merged = <<>> /\ reply = <<>>

----------------------------------------------------------------------------
(***************************************************************************)
(* The heap (utils/heap.c), the earliest sample at its root.  Samples at   *)
(* the same time compare as smaller both ways around.                      *)
(***************************************************************************)
HeapCmp(x, y) == IF x.ts < y.ts THEN 1 ELSE -1

Swapped(h, i, j) == [h EXCEPT ![i] = h[j], ![j] = h[i]]

\* A round of the loop of __pushup, at position p.at of the heap, and all of them.
RaisedOnce(p) ==
  IF p.at = 1 \/ HeapCmp(p.heap[p.at], p.heap[p.at \div 2]) < 0 THEN p
  ELSE [heap |-> Swapped(p.heap, p.at, p.at \div 2), at |-> p.at \div 2]

PushUp(h, i) ==
  LET up[n \in 0 .. Len(h)] == IF n = 0 THEN [heap |-> h, at |-> i] ELSE RaisedOnce(up[n - 1])
  IN  up[Len(h)].heap

\* Mutant: the left child is taken without looking at the right one.
BiggestChildLeft(h, i) == 2 * i

BiggestChild(h, i) ==
  IF 2 * i + 1 <= Len(h) /\ HeapCmp(h[2 * i], h[2 * i + 1]) < 0 THEN 2 * i + 1 ELSE 2 * i

\* The same for __pushdown.
LoweredOnce(p) ==
  IF 2 * p.at > Len(p.heap) \/ HeapCmp(p.heap[p.at], p.heap[BiggestChild(p.heap, p.at)]) > 0 THEN p
  ELSE [heap |-> Swapped(p.heap, p.at, BiggestChild(p.heap, p.at)), at |-> BiggestChild(p.heap, p.at)]

PushDown(h, i) ==
  LET down[n \in 0 .. Len(h)] == IF n = 0 THEN [heap |-> h, at |-> i] ELSE LoweredOnce(down[n - 1])
  IN  down[Len(h)].heap

Offer(h, item) == PushUp(Append(h, item), Len(h) + 1)

Polled(h) ==
  LET n    == Len(h) - 1
      rest == SubSeq([h EXCEPT ![1] = h[n + 1]], 1, n)
  IN  IF n > 1 THEN PushDown(rest, 1) ELSE rest

----------------------------------------------------------------------------
(***************************************************************************)
(* MultiSeriesSampleIterator: what GetNext returns and leaves behind.      *)
(***************************************************************************)
FromInput(i) == [ts |-> inputs[i][1].ts, value |-> inputs[i][1].value, iter |-> i]

\* heap_poll, and the next sample of the same iterator takes its place.
GetNext ==
  IF heap = <<>> THEN UNCHANGED <<heap, inputs>>
  ELSE LET i == heap[1].iter
       IN  IF inputs[i] = <<>> THEN heap' = Polled(heap) /\ UNCHANGED inputs
           ELSE /\ heap' = Offer(Polled(heap), FromInput(i))
                /\ inputs' = [inputs EXCEPT ![i] = Tail(@)]

Returned == IF heap = <<>> THEN EndOfSeries ELSE [ts |-> heap[1].ts, value |-> heap[1].value]

\* The first samples of all iterators, offered one by one.
FirstHeap(lists) ==
  LET first(i) == [ts |-> lists[i][1].ts, value |-> lists[i][1].value, iter |-> i]
      offered[i \in 0 .. Len(lists)] ==
        IF i = 0 THEN <<>>
        ELSE IF lists[i] = <<>> THEN offered[i - 1] ELSE Offer(offered[i - 1], first(i))
  IN  offered[Len(lists)]

----------------------------------------------------------------------------
\* ResultSet_AddSerie: the series with a value of the label, by this value.
MembersOf(l) == Ascending({i \in DOMAIN req.series : req.series[i].label = l})

\* TS.MRANGE: the groups that have members, in the order of the dictionary.
MRange(request) ==
  /\ stage' = "group"
  /\ req' = request
  /\ \E used \in {Ascending({k \in DOMAIN Labels :
                           \E i \in DOMAIN request.series : request.series[i].label = Labels[k]})} :
       groups' = [g \in DOMAIN used |-> Labels[used[g]]]
  /\ UNCHANGED <<inputs, heap, next, gctx, isNan, merged, reply>>

\* GroupList_ApplyReducer begins, up to the loop of MultiSerieReduce: the iterators
\* are created, and the first sample is read ahead.
ApplyReducer ==
  /\ stage = "group" /\ groups # <<>>
  /\ \E lists \in {[i \in DOMAIN MembersOf(groups[1]) |-> req.series[MembersOf(groups[1])[i]].samples]} :
       /\ heap' = FirstHeap(lists)
       /\ inputs' = [i \in DOMAIN lists |-> IF lists[i] = <<>> THEN <<>> ELSE Tail(lists[i])]
  /\ gctx' = CreateContext(req.reducer, FALSE)
  /\ merged' = <<>>
  /\ next' = EndOfSeries
  /\ stage' = "ahead"
  /\ UNCHANGED <<req, groups, isNan, reply>>

\* MultiSeriesAggDupSampleIterator_New reads one sample ahead.
ReadAhead ==
  /\ stage = "ahead"
  /\ next' = Returned
  /\ GetNext
  /\ stage' = "next"
  /\ UNCHANGED <<req, groups, gctx, isNan, merged, reply>>

Fed(c, s) == IF s.value = NaN THEN c ELSE AppendValue(req.reducer, c, s)

\* MultiSeriesAggDupSampleIterator_GetNext: begin with the sample read ahead,
Take ==
  /\ stage = "next" /\ next # EndOfSeries
  /\ gctx' = Fed(gctx, next)
  /\ isNan' = (next.value = NaN)
  /\ stage' = "same"
  /\ UNCHANGED <<req, groups, inputs, heap, next, merged, reply>>

\* add the ones with the same timestamp,
Same == Returned # EndOfSeries /\ Returned.ts = next.ts

TakeSame ==
  /\ stage = "same" /\ Same
  /\ gctx' = Fed(gctx, Returned)
  /\ isNan' = (isNan /\ Returned.value = NaN)
  /\ GetNext
  /\ UNCHANGED <<stage, req, groups, next, merged, reply>>

\* and keep the first one with another timestamp; SeriesAddSample stores the result.
Reduce ==
  /\ stage = "same" /\ ~Same
  /\ merged' = Append(merged, [ts |-> next.ts, value |-> IF isNan THEN NaN ELSE Finalize(req.reducer, gctx)])
  /\ gctx' = IF isNan THEN gctx ELSE ResetContext(req.reducer, gctx)
  /\ next' = Returned
  /\ GetNext
  /\ stage' = "next"
  /\ UNCHANGED <<req, groups, isNan, reply>>

\* The reduced series takes the place of the group.
GroupReduced ==
  /\ stage = "next" /\ next = EndOfSeries
  /\ reply' = Append(reply, [label |-> groups[1], samples |-> merged, source |-> MembersOf(groups[1])])
  /\ groups' = Tail(groups)
  /\ stage' = "group"
  /\ UNCHANGED <<req, inputs, heap, next, gctx, isNan, merged>>

\* replyResultSet
ReplyResultSet ==
  /\ stage = "group" /\ groups = <<>>
  /\ stage' = "done"
  /\ UNCHANGED <<req, groups, inputs, heap, next, gctx, isNan, merged, reply>>

GroupStep ==
  \/ stage = "idle" /\ \E request \in Requests : MRange(request)
  \/ ApplyReducer
  \/ ReadAhead
  \/ Take
  \/ TakeSame
  \/ Reduce
  \/ GroupReduced
  \/ ReplyResultSet

----------------------------------------------------------------------------
(***************************************************************************)
(* Properties.                                                             *)
(***************************************************************************)
GroupTypeOK ==
  /\ stage \in {"idle", "group", "ahead", "next", "same", "done"}
  /\ \A i \in DOMAIN heap : heap[i].iter \in DOMAIN inputs
  /\ \A i \in DOMAIN reply : reply[i].label \in Range(Labels)

\* The values of the series of a group at time t, without NaN.
ValuesAt(l, t) ==
  LET at(i) == SelectSeq(req.series[i].samples, LAMBDA s : s.ts = t /\ s.value # NaN)
      all   == FlattenSeq([i \in DOMAIN MembersOf(l) |-> at(MembersOf(l)[i])])
  IN  [i \in DOMAIN all |-> all[i].value]

TimesOf(l) ==
  UNION {{req.series[i].samples[k].ts : k \in DOMAIN req.series[i].samples} : i \in Range(MembersOf(l))}

ReducedAt(l, t) == IF ValuesAt(l, t) = <<>> THEN NaN ELSE Aggregated(req.reducer, ValuesAt(l, t))

\* Every group is answered with one series: a sample for every timestamp that one
\* of its series has, in order, with the reducer of all values at that timestamp
\* that are numbers, and NaN where there are none; and every series with the label
\* belongs to exactly the group of its value.
GroupsExact ==
  stage = "done" =>
    /\ \A i \in DOMAIN req.series :
         req.series[i].label # NoLabel =>
           Cardinality({g \in DOMAIN reply : i \in Range(reply[g].source)}) = 1
    /\ \A g \in DOMAIN reply :
         LET l == reply[g].label
         IN  reply[g].samples = SamplesAt([t \in TimesOf(l) |-> ReducedAt(l, t)], TimesOf(l))
=============================================================================
