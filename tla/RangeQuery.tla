----------------------------- MODULE RangeQuery -----------------------------
(***************************************************************************)
(* TS.RANGE and TS.REVRANGE: a chain of iterators.  The series iterator    *)
(* decodes one chunk at a time into a buffer (LATEST adds the open bucket  *)
(* of a compaction as a chunk of its own), FILTER_BY_TS and                *)
(* FILTER_BY_VALUE thin the buffer out, and the aggregation iterator       *)
(* writes the buckets into the same buffer it still reads samples from.    *)
(*                                                                         *)
(* A sample is its timestamp and a value; the value is the sequence of the *)
(* timestamps of the samples it was computed from: one for a stored        *)
(* sample, all those of the bucket for an aggregate, none for an empty     *)
(* bucket.  The aggregators other than MAX, which has a loop of its own,   *)
(* and TWA, which also looks outside the bucket and is not modelled, run   *)
(* through the same code.                                                  *)
(***************************************************************************)
EXTENDS Integers, Sequences, FiniteSets, SequencesExt

CONSTANTS
  MaxTime,   \* bound: the largest timestamp
  Queries,   \* the queries, see Query below
  NoScope,   \* contextScope outside AggregationIterator_GetNextChunk
  Garbage    \* the content of memory nobody has written

Time == 0 .. MaxTime

\* A series, as the chunks it is stored in, and RangeArgs.
Query ==
  [chunks     : Seq(Seq(Time)),
   last       : Time,                     \* series->lastTimestamp
   compressed : BOOLEAN,
   reverse    : BOOLEAN,
   start      : Time,
   end        : Time,
   latest     : BOOLEAN,                  \* LATEST, and the series is a compaction
   open       : SUBSET Time,              \* the bucket calculate_latest_sample finds, if any
   byTs       : BOOLEAN,                  \* is there a FILTER_BY_TS
   wanted     : SUBSET Time,
   byValue    : BOOLEAN,                  \* is there a FILTER_BY_VALUE
   rejected   : SUBSET Time,              \* the samples whose values it rejects
   agg        : {"none", "max", "other"},
   delta      : 1 .. MaxTime + 1,
   align      : Time,
   bucketTS   : {"start", "mid", "end"},
   empty      : BOOLEAN,
   count      : 1 .. 2 * MaxTime + 4]     \* COUNT, the last one standing for "all"

ASSUME TimeAssumption == MaxTime \in Nat
ASSUME QueriesAssumption == Queries \subseteq Query
ASSUME NoScopeAssumption == NoScope \notin 0 .. 2 * MaxTime + 2

\* What a series guarantees: chunks have samples, ordered and without duplicates,
\* and follow each other in time.  (The only chunk of a series without samples is
\* empty, and the iterators treat it as none.)  lastTimestamp may lag behind in a
\* compaction, into which RuleSeriesUpsertSample inserts newer samples without
\* setting it.  A compaction has one open bucket.
Increasing(s) == \A i, j \in DOMAIN s : i < j => s[i] < s[j]
Newest(query) == IF query.chunks = <<>> THEN 0 ELSE Last(Last(query.chunks))
WellFormed(query) ==
  /\ \A i \in DOMAIN query.chunks : query.chunks[i] # <<>> /\ Increasing(query.chunks[i])
  /\ \A i, j \in DOMAIN query.chunks :
       i < j => query.chunks[i][Len(query.chunks[i])] < query.chunks[j][1]
  /\ query.last <= Newest(query)
  /\ \A t, u \in query.open : t = u

ASSUME SeriesAssumption == \A query \in Queries : WellFormed(query)

VARIABLES
  q,          \* the query being executed
  pc,         \* where the execution is: "fetch", "chunk", "loop", "end", "done"
              \* or "failed" (an assertion)
  chunks,     \* SeriesIterator: the chunks not read yet, in the order of reading
  latest,     \* SeriesIterator: is the open bucket still to be added
  wanted,     \* SeriesFilterTSIterator: the timestamps still looked for, sorted
  buf,        \* enrichedChunk->samples
  si,         \* AggregationIterator: the read index
  written,    \* agg_n_samples, the write index
  scope,      \* contextScope, the end of the current bucket
  bucket,     \* aggregationLastTimestamp and whether it is initialized
  ctx,        \* the aggregation context: what went into the current bucket
  open,       \* hasUnFinalizedContext
  reply,      \* what the client has been sent
  unread,     \* history: the samples of the buffer that are still to be read
  displaced   \* history: a buffer with a margin was expanded in place

vars == <<q, pc, chunks, latest, wanted, buf, si, written, scope, bucket, ctx, open, reply,
          unread, displaced>>
iterators == <<chunks, latest, wanted>>
aggregation == <<si, written, scope, bucket, ctx, open>>

Sample(t) == [ts |-> t, val |-> <<t>>]

\* The elements of a set of numbers, the smallest first.
Ascending(S) ==
  [i \in 1 .. Cardinality(S) |-> CHOOSE t \in S : Cardinality({u \in S : u < t}) = i - 1]

\* The elements of a sequence at some of its indices, in order.
Sub(s, indices) == LET order == Ascending(indices)
                   IN  [n \in DOMAIN order |-> s[order[n]]]

----------------------------------------------------------------------------
(***************************************************************************)
(* The buffer.  cells is the allocated array, of which size are its own,   *)
(* timestamps points at cell off (the margin), and num samples follow.     *)
(***************************************************************************)
Cap == 2 * (MaxTime + 2)   \* bound: cells beyond any index used

NewEnrichedChunk == [cells |-> [i \in 0 .. Cap |-> Garbage], size |-> 0, off |-> 0, num |-> 0]

Cell(b, i) == b.cells[b.off + i]
SetCells(b, from, s) ==
  [i \in 0 .. Cap |-> IF from <= i /\ i < from + Len(s) THEN s[i - from + 1] ELSE b.cells[i]]
View(b) == [i \in 1 .. b.num |-> Cell(b, i - 1)]
WithView(b, s) == [b EXCEPT !.cells = SetCells(b, b.off, s), !.num = Len(s)]

\* The samples of a chunk that are in range, in order.
Decompressed(c) ==
  LET inRange == {i \in DOMAIN c : q.start <= c[i] /\ c[i] <= q.end}
  IN  Sub([i \in DOMAIN c |-> Sample(c[i])], inRange)

\* A reverse read of a compressed chunk fills the buffer from its end, so that a
\* margin remains for the samples of the chunk that are out of range.
ProcessChunk(b, c) ==
  LET samples  == Decompressed(c)
      revChunk == q.reverse /\ ~q.byTs
      margin   == IF revChunk /\ q.compressed /\ samples # <<>> THEN Len(c) - Len(samples) ELSE 0
  IN  WithView([b EXCEPT !.size = IF Len(c) > @ THEN Len(c) ELSE @, !.off = margin],
               IF revChunk THEN Reverse(samples) ELSE samples)

----------------------------------------------------------------------------
(***************************************************************************)
(* The filters.                                                            *)
(***************************************************************************)
\* filterSamples: halve the samples, and divide the wanted timestamps among
\* the halves, the left one first.  Found are the indices of the matches.  (The
\* code collects them in the same array; it never writes beyond the sample it
\* has just read.)
Found(samples, values) ==
  LET ts(i) == samples[i].ts
      within(W, i, j) == {t \in W : ts(i) <= t /\ t <= ts(j)}
      search[f \in [si : DOMAIN samples, ei : DOMAIN samples, values : SUBSET Time]] ==
        IF f.si = f.ei THEN IF ts(f.si) \in f.values THEN {f.si} ELSE {}
        ELSE LET mid   == (f.si + f.ei) \div 2
                 left  == within(f.values, f.si, mid)
                 right == within(f.values, mid + 1, f.ei)
             IN  (IF left = {} THEN {} ELSE search[[si |-> f.si, ei |-> mid, values |-> left]])
                   \cup (IF right = {} THEN {} ELSE search[[si |-> mid + 1, ei |-> f.ei, values |-> right]])
  IN  search[[si |-> 1, ei |-> Len(samples), values |-> values]]
FilterSamples(samples, values) ==
  Sub(samples, {i \in DOMAIN samples : i \in Found(samples, values)})

\* Mutant: as many values are dropped from the front in both directions.
StillWantedForward(n) == SubSeq(wanted, n + 1, Len(wanted))

\* At least n values are used up by n matches.
StillWanted(n) ==
  IF q.reverse THEN SubSeq(wanted, 1, Len(wanted) - n) ELSE SubSeq(wanted, n + 1, Len(wanted))

\* The chain above the series iterator is handed the buffer b.  The filters
\* read on when nothing is left.  filterSamples cannot deal with an empty
\* buffer: its index of the last sample wraps around, and what it finds depends
\* on memory outside the array ("undefined" stands for the worse outcomes).
FilteredByTs(samples) ==
  LET found == FilterSamples(samples, Range(wanted))
  IN  IF ~q.byTs THEN samples ELSE IF q.reverse THEN Reverse(found) ELSE found
FilteredByValue(samples) ==
  IF q.byValue THEN Sub(samples, {i \in DOMAIN samples : samples[i].ts \notin q.rejected})
  ELSE samples

Pass(b) ==
  \E byTs \in {FilteredByTs(View(b))} :
  \E byValue \in {FilteredByValue(byTs)} :
     /\ buf' = WithView(b, byValue)
     /\ wanted' = IF q.byTs THEN StillWanted(Len(byTs)) ELSE wanted
     /\ \/ pc' = IF (q.byTs \/ q.byValue) /\ byValue = <<>> THEN "fetch" ELSE "chunk"
        \/ q.byTs /\ b.num = 0 /\ pc' = "undefined"

----------------------------------------------------------------------------
(***************************************************************************)
(* The series iterator.                                                    *)
(***************************************************************************)
ShouldFinalizeLastBucket == latest /\ q.end > q.last
TsExhausted == q.byTs /\ wanted = <<>>

\* SeriesIterator_New: start at the last chunk that begins at or before the
\* start of the range (its end for TS.REVRANGE), or at the first one.
FirstChunks(query) ==
  LET bound == IF query.reverse THEN query.end ELSE query.start
      from  == Cardinality({i \in DOMAIN query.chunks : query.chunks[i][1] <= bound})
      first == IF from = 0 THEN 1 ELSE from
  IN  IF query.chunks = <<>> THEN <<>>
      ELSE IF query.reverse THEN Reverse(SubSeq(query.chunks, 1, first))
      ELSE SubSeq(query.chunks, first, Len(query.chunks))

\* The values of FILTER_BY_TS are sorted and each kept once.
FilterValues(query) == Ascending(query.wanted)

\* SeriesQuery puts the chain together; no iterator has been asked for anything.
Init ==
  /\ q \in Queries
  /\ pc = "fetch"
  /\ chunks = FirstChunks(q) /\ latest = q.latest /\ wanted = FilterValues(q)
  /\ buf = NewEnrichedChunk
  /\ si = 0 /\ written = 0 /\ scope = NoScope
  /\ bucket = [start |-> 0, initialized |-> FALSE] /\ ctx = <<>> /\ open = FALSE
  /\ reply = <<>>
  /\ unread = <<>> /\ displaced = FALSE

OpenBucket(b) ==
  LET found == Ascending({t \in q.open : t <= q.end})
  IN  WithView([b EXCEPT !.size = IF found # <<>> /\ @ = 0 THEN 1 ELSE @, !.off = 0],
               [i \in DOMAIN found |-> Sample(found[i])])

\* The chunk that is handed out.  One without a sample in range may be left to
\* the open bucket of a compaction, if its lastTimestamp lags behind.
HandOut(b) ==
  LET finalizes == b.num = 0 /\ ShouldFinalizeLastBucket
  IN  /\ Pass(IF finalizes THEN OpenBucket(b) ELSE b)
      /\ latest' = (latest /\ ~finalizes)

\* Mutant: the next chunk is fetched only after one that is handed out.
ReadChunkAgain ==
  /\ pc = "fetch" /\ ~TsExhausted
  /\ chunks # <<>> /\ ~(q.reverse /\ ShouldFinalizeLastBucket)
  /\ \E b \in {ProcessChunk(buf, Head(chunks))} :
         IF ~q.reverse /\ Last(Head(chunks)) < q.start
         THEN buf' = b /\ UNCHANGED <<pc, wanted, latest, chunks>>
         ELSE HandOut(b) /\ chunks' = Tail(chunks)
  /\ UNCHANGED <<q, aggregation, reply, unread, displaced>>

\* SeriesIteratorGetNextChunk.  A forward query may begin with a chunk that
\* ends before the range.
ReadChunk ==
  /\ pc = "fetch" /\ ~TsExhausted
  /\ chunks # <<>> /\ ~(q.reverse /\ ShouldFinalizeLastBucket)
  /\ \E b \in {ProcessChunk(buf, Head(chunks))} :
         IF ~q.reverse /\ Last(Head(chunks)) < q.start
         THEN buf' = b /\ UNCHANGED <<pc, wanted, latest>>
         ELSE HandOut(b)
  /\ chunks' = Tail(chunks)
  /\ UNCHANGED <<q, aggregation, reply, unread, displaced>>

\* _handle_latest: the open bucket of a compaction becomes a chunk of its own,
\* the first one of TS.REVRANGE and the last one of TS.RANGE.
ReadLatest ==
  /\ pc = "fetch" /\ ~TsExhausted
  /\ ShouldFinalizeLastBucket /\ (q.reverse \/ chunks = <<>>)
  /\ \E b \in {OpenBucket(buf)} : Pass(b)
  /\ latest' = FALSE
  /\ UNCHANGED <<q, chunks, aggregation, reply, unread, displaced>>

\* GetNext returns NULL.
EndOfInput ==
  /\ pc = "fetch"
  /\ TsExhausted \/ (chunks = <<>> /\ ~ShouldFinalizeLastBucket)
  /\ pc' = "end"
  /\ UNCHANGED <<q, iterators, buf, aggregation, reply, unread, displaced>>

----------------------------------------------------------------------------
(***************************************************************************)
(* ReplySeriesRange: COUNT cuts the last chunk, and no chunk is asked for  *)
(* once it is reached.                                                     *)
(***************************************************************************)
Reply(samples) ==
  LET sent == reply \o samples
      n    == IF Len(sent) < q.count THEN Len(sent) ELSE q.count
  IN  /\ reply' = SubSeq(sent, 1, n)
      /\ pc' = IF n < q.count THEN "fetch" ELSE "done"

ReplyChunk ==
  /\ pc = "chunk" /\ q.agg = "none"
  /\ Reply(View(buf))
  /\ UNCHANGED <<q, iterators, buf, aggregation, unread, displaced>>

----------------------------------------------------------------------------
(***************************************************************************)
(* The aggregation iterator.  The first bucket may begin before 0, an      *)
(* unsigned number that has wrapped around in the code, which only adds to *)
(* it before BucketStartNormalize turns it into 0.                         *)
(***************************************************************************)
Max0(x) == IF x < 0 THEN 0 ELSE x

CalcBucketStart(query, t) == t - ((t - query.align) % query.delta)

\* Mutant: the start of the first bucket stays negative.
BucketStartNormalizeNever(b) == b
BucketStartNormalize(b) == Max0(b)

CalcBucketTs(query, b) ==
  CASE query.bucketTS = "start" -> b
    [] query.bucketTS = "mid"   -> b + query.delta \div 2
    [] query.bucketTS = "end"   -> b + query.delta

Bucket(query, b, samples) == [ts |-> CalcBucketTs(query, b), val |-> samples]

\* A call of AggregationIterator_GetNextChunk got its first chunk, or a later
\* one because no bucket has ended yet.  A first chunk without samples counts
\* as the end.
BeginChunk ==
  /\ pc = "chunk" /\ q.agg # "none"
  /\ IF scope = NoScope /\ buf.num = 0
     THEN /\ pc' = "end"
          /\ UNCHANGED <<scope, bucket, open, unread>>
     ELSE LET start == IF bucket.initialized THEN bucket.start
                       ELSE CalcBucketStart(q, Cell(buf, 0).ts)
          IN  /\ pc' = "loop"
              /\ scope' = IF scope = NoScope THEN start + q.delta ELSE scope
              /\ bucket' = [start |-> BucketStartNormalize(start), initialized |-> TRUE]
              /\ open' = TRUE
              /\ unread' = View(buf)
  /\ si' = 0
  /\ UNCHANGED <<q, iterators, buf, written, ctx, reply, displaced>>

\* Mutant: reverseEnrichedChunk, of the FILTER_BY_TS iterator, leaves rev alone.
ChunkReversedUnfiltered == q.reverse /\ ~q.byTs /\ buf.num > 0

\* enrichedChunk->rev: a chunk without samples is never marked as reversed.
ChunkReversed == q.reverse /\ buf.num > 0

\* The assertion at the head of the loop over the chunks, in a build that checks
\* it; one that does not goes on with BeginChunk.
AssertDirection ==
  /\ pc = "chunk" /\ q.agg # "none"
  /\ ~(scope = NoScope /\ buf.num = 0)
  /\ q.reverse # ChunkReversed
  /\ pc' = "failed"
  /\ UNCHANGED <<q, iterators, buf, aggregation, reply, unread, displaced>>

EndsBucket(t) == IF q.reverse THEN t < bucket.start ELSE t >= scope

\* findLastIndexbeforeTS
LastIndexBefore(t) ==
  CHOOSE i \in si .. buf.num - 1 :
    /\ Cell(buf, i).ts < t
    /\ i = buf.num - 1 \/ Cell(buf, i + 1).ts >= t

Appended(from, to) == [i \in 1 .. to - from + 1 |-> Head(Cell(buf, from + i - 1).val)]

\* The sample at si belongs to the current bucket, and so do those up to ei.
AppendTo(ei) ==
  /\ ctx' = ctx \o Appended(si, ei)
  /\ si' = ei + 1
  /\ unread' = SubSeq(unread, ei - si + 2, Len(unread))
  /\ UNCHANGED <<q, pc, iterators, buf, written, scope, bucket, open, reply, displaced>>

InBucket == pc = "loop" /\ ~displaced /\ si < buf.num /\ ~EndsBucket(Cell(buf, si).ts)
Vectorized == q.agg = "max" /\ ~q.reverse

AppendValue == InBucket /\ ~Vectorized /\ AppendTo(si)
AppendValueVec == InBucket /\ Vectorized /\ AppendTo(LastIndexBefore(scope))

\* The starts of the buckets between the one that ends and the one that begins
\* at new, in the order of the reply.
EmptyBuckets(new) ==
  LET step    == IF q.reverse THEN -q.delta ELSE q.delta
      first   == IF q.reverse THEN Max0(scope - 2 * q.delta) ELSE scope
      last    == IF q.reverse THEN new + q.delta ELSE Max0(new - q.delta)
      far     == IF q.reverse THEN first - last ELSE last - first
      present == IF q.reverse THEN scope >= last + 2 * q.delta ELSE first < new
  IN  IF q.empty /\ present
      THEN [i \in 1 .. far \div q.delta + 1 |-> first + (i - 1) * step]
      ELSE <<>>

\* Mutant: the last of the n cells may be the next one to read.
NeedsRoomLate(w, n, r) == w + n - 1 > r

\* fillEmptyBuckets: would n cells at the write index w reach the unread samples,
\* which begin at index r?
NeedsRoom(w, n, r) == w + n - 1 >= r

\* Then make room for them.  The samples are moved to the beginning of the array,
\* but only ReallocSamplesArray sets the pointer.
MakeRoom(b, w, r, n) ==
  LET left    == b.num - r
      needed  == w + n + left
      unmoved == [i \in 1 .. left |-> Cell(b, r + i - 1)]
      front   == [b EXCEPT !.cells = SetCells(b, 0, [i \in 1 .. w |-> Cell(b, i - 1)])]
      moved   == SetCells(front, w + n, unmoved)
  IN  [cells |-> moved,
       size  |-> IF needed > b.size THEN needed ELSE b.size,
       off   |-> IF needed > b.size THEN 0 ELSE b.off,
       num   |-> needed]

\* fillEmptyBucketsWithDefaultVals
EmptyValues(gap) == [i \in DOMAIN gap |-> Bucket(q, gap[i], <<>>)]

\* A sample behind the current bucket ends it: the bucket is written, then the
\* empty ones after it, and the sample begins the next one.
CloseBucket ==
  /\ pc = "loop" /\ ~displaced
  /\ si < buf.num /\ EndsBucket(Cell(buf, si).ts)
  /\ LET sample == Cell(buf, si)
         new    == CalcBucketStart(q, sample.ts)
         gap    == EmptyBuckets(new)
         n      == Len(gap)
         w      == written + 1
         closed == [buf EXCEPT !.cells[buf.off + written] = Bucket(q, bucket.start, ctx)]
         moves  == n > 0 /\ NeedsRoom(w, n, si + 1)
         room   == IF moves THEN MakeRoom(closed, w, si + 1, n) ELSE closed
     IN  /\ buf' = [room EXCEPT !.cells = SetCells(room, room.off + w, EmptyValues(gap))]
         /\ written' = w + n
         /\ si' = IF moves THEN w + n ELSE si + 1
         /\ displaced' = (moves /\ room.off > 0)
         /\ ctx' = sample.val
         /\ scope' = new + q.delta
         /\ bucket' = [bucket EXCEPT !.start = BucketStartNormalize(new)]
  /\ unread' = Tail(unread)
  /\ UNCHANGED <<q, pc, iterators, open, reply>>

\* All samples are read: hand out the buckets written, or go on reading.
ReturnChunk ==
  /\ pc = "loop" /\ ~displaced
  /\ si >= buf.num
  /\ IF written = 0
     THEN pc' = "fetch" /\ UNCHANGED <<scope, reply>>
     ELSE /\ Reply([i \in 1 .. written |-> Cell(buf, i - 1)])
          /\ scope' = NoScope
  /\ written' = 0
  /\ UNCHANGED <<q, iterators, buf, si, bucket, ctx, open, unread, displaced>>

\* _finalize: the last bucket, from an auxiliary chunk.
Finalize ==
  /\ pc = "end" /\ open
  /\ Reply(<<Bucket(q, bucket.start, ctx)>>)
  /\ open' = FALSE
  /\ scope' = NoScope
  /\ UNCHANGED <<q, iterators, buf, si, written, bucket, ctx, unread, displaced>>

EndOfReply ==
  /\ pc = "end" /\ ~open
  /\ pc' = "done"
  /\ UNCHANGED <<q, iterators, buf, aggregation, reply, unread, displaced>>

Next ==
  \/ ReadChunk \/ ReadLatest \/ EndOfInput \/ ReplyChunk
  \/ BeginChunk \/ AssertDirection \/ AppendValue \/ AppendValueVec \/ CloseBucket \/ ReturnChunk
  \/ Finalize \/ EndOfReply

\* The command runs on the main thread until its reply is complete.
Spec == Init /\ [][Next]_vars /\ WF_vars(Next)

----------------------------------------------------------------------------
TypeOK ==
  /\ q \in Query
  /\ pc \in {"fetch", "chunk", "loop", "end", "done", "undefined", "failed"}
  /\ Len(chunks) <= MaxTime + 1
  /\ {latest, open, displaced, bucket.initialized} \subseteq BOOLEAN
  /\ Range(wanted) \subseteq Time
  /\ {buf.size, buf.off, buf.num, si, written} \subseteq 0 .. Cap
  /\ scope \in 0 .. 2 * MaxTime + 2 \/ scope = NoScope
  /\ bucket.start \in Time
  /\ Range(ctx) \subseteq Time
  /\ \A i \in DOMAIN reply : reply[i].ts \in 0 .. 2 * MaxTime + 1 /\ Range(reply[i].val) \subseteq Time

(***************************************************************************)
(* What docs/commands/ts.range.md promises.                                *)
(***************************************************************************)
Selected(query) ==
  LET stored  == UNION {Range(query.chunks[i]) : i \in DOMAIN query.chunks}
      all     == IF query.latest THEN stored \cup query.open ELSE stored
  IN  {t \in all : /\ query.start <= t /\ t <= query.end
                   /\ query.byTs => t \in query.wanted
                   /\ query.byValue => t \notin query.rejected}

ReplyOrder(query, S) == IF query.reverse THEN Reverse(Ascending(S)) ELSE Ascending(S)

\* The starts of the buckets reported for the samples S.
BucketsOf(query, S) ==
  LET starts == {CalcBucketStart(query, t) : t \in S}
  IN  IF query.empty
      THEN {b \in -MaxTime - 1 .. MaxTime :
              /\ \E c, d \in starts : c <= b /\ b <= d
              /\ (b - query.align) % query.delta = 0}
      ELSE starts

InBucketAt(query, S, b) == {t \in S : CalcBucketStart(query, t) = b}

Reported(query, S) ==
  LET samples == ReplyOrder(query, S)
      buckets == ReplyOrder(query, BucketsOf(query, S))
  IN  IF query.agg = "none" THEN [i \in DOMAIN samples |-> Sample(samples[i])]
      ELSE [i \in DOMAIN buckets |->
              Bucket(query, Max0(buckets[i]), ReplyOrder(query, InBucketAt(query, S, buckets[i])))]

Answer(query) ==
  LET full == Reported(query, Selected(query))
  IN  IF Len(full) <= query.count THEN full ELSE SubSeq(full, 1, query.count)

\* Three deviations of LATEST from its documentation: an open bucket is reported
\* out of order, or not at all, when the compaction has a sample at or behind it,
\* which only a client can have added (a series without samples counts as one
\* with the sample 0 here); an open bucket before fromTimestamp is reported; and
\* TS.REVRANGE with an aggregation reports nothing when there is no open bucket
\* up to toTimestamp.
LatestDeviates(query) ==
  /\ query.latest
  /\ \/ \E t \in query.open : t <= Newest(query) /\ (query.chunks # <<>> \/ query.end = 0)
     \/ query.end > query.last /\ \E t \in query.open : t < query.start
     \/ /\ query.end > query.last
        /\ query.reverse /\ query.agg # "none" /\ ~query.byTs /\ ~query.byValue
        /\ \A t \in query.open : t > query.end

\* The reply is exact: the samples or buckets the query asks for, each once, in
\* order, made of the right samples, for every division of the series into
\* chunks; and what has been sent on the way is a part of it.
AnswerExact ==
  ~LatestDeviates(q) =>
    /\ pc = "done" => reply = Answer(q)
    /\ pc = "fetch" => IsPrefix(reply, Answer(q))

\* Aggregation in place: buckets, and the empty ones among them, never reach
\* the samples that are still to be read, and stay inside the array.
UnreadIntact ==
  pc = "loop" /\ ~displaced =>
    /\ SubSeq(View(buf), si + 1, buf.num) = unread
    /\ written <= si
    /\ buf.off + buf.num <= buf.size

\* Every query comes to an end: no chunk is read twice and no bucket is handed
\* out twice, whatever the filters leave over.
QueryEnds == <>(pc \in {"done", "undefined", "failed"} \/ displaced)

\* The loop of the aggregation asserts that chunks are in the direction of the
\* query ("currently if the query reversed the chunk will be already revered
\* here").  They are, except for what TS.REVRANGE without filters is handed when it
\* goes on to samples below fromTimestamp (or deviates with LATEST anyway): a chunk
\* with nothing in it.
ChunksInDirection ==
  pc = "failed" /\ ~LatestDeviates(q) =>
    /\ q.reverse /\ ~q.byTs /\ ~q.byValue
    /\ \E i \in DOMAIN q.chunks : q.chunks[i][1] < q.start
=============================================================================
