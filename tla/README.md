# A TLA+ model of RedisTimeSeries

RedisTimeSeries is a Redis module. It stores time series as dictionaries of
chunks, keeps compacted copies of them up to date through rules, and finds
series by their labels. This project models the parts that carry state, checks
them with TLC on small instances and proves the most important invariants with
TLAPS for all instances.

## 1. Inventory

Commands and keyspace notifications run one at a time on Redis' main thread
(or under its global lock), so a command is one atomic action. What makes the
system hard is less a race between two commands than the order of many: every
piece of state is written by several commands through different code paths, and
most pieces are redundant copies of another one. The exception is the cluster:
there, the multi-series commands run on LibMR's threads, over several shards.

| Component | State | Operations | Talks to |
|---|---|---|---|
| Time series (`tsdb.c`, `series_iterator.c`) | dictionary of chunks by first timestamp, `lastChunk`, `lastTimestamp`, `lastValue`, `totalSamples`, settings | append, upsert with split, trim by retention, TS.DEL, TS.ALTER, TS.INCRBY, range queries | chunks, rules |
| Chunks (`chunk.c`, `compressed_chunk.c`, `gorilla.c`) | a sorted array, or an array of words with the writer's last timestamp, difference, value and window | add, upsert, split, delete a range, iterate | series |
| Compaction, data path (`module.c`, `tsdb.c`) | per rule: `startCurrentTimeBucket`, aggregation context | `handleCompaction`, `upsertCompaction`, `CompactionDelRange` | writes to the destination series |
| Compaction, references (`tsdb.c`) | the source's rule list, the destination's `srcKey` | TS.CREATERULE, TS.DELETERULE, lazy cleaning, rename, copy, dump and restore | keyspace events |
| Label index (`indexer.c`, `short_read.c`) | `labelsIndex`, `tsLabelIndex`, their backups | index, unindex, query | keyspace events, replica backup events |
| Aggregation functions (`compaction.c`) | contexts | append, finalize, reset, save and load; for the time-weighted average also the samples on either side of a bucket | rules, range queries, GROUPBY |
| Series, filter and aggregation iterators (`series_iterator.c`, `filter_iterator.c`, `enriched_chunk.c`, `reply.c`) | position, a buffer shared by the whole chain, current bucket and its context | next chunk, finalize | range queries, chunks, the open bucket of a rule |
| Multi-series iterators, GROUPBY (`multiseries_*.c`, `resultset.c`, `heap.c`) | heap of iterators | merge, group | TS.MRANGE |
| Cluster execution (`libmr_*.c`, `blocked_client.c`) | blocked clients, arguments with two reference counts, `shouldReturnNull`, partial results | run, read a shard, collect, reply and unblock, free | LibMR threads, other shards, the index |
| RDB (`rdb.c`) | `persistence_in_progress` | save, load, short reads | everything |
| Parsing, configuration, replies | - | - | - |

Hard behaviours, component by component, with the property that answers each
(`PROJECT.json` lists them under "hazards", at their lines):

* *Series.* A chunk has to be moved whenever its first sample changes
  (`update_chunk_in_dict`, with a fallback to key 0), a split must put the sample
  into the right half, TS.DEL tells the only chunk from a running count, the
  cached last sample must follow upserts and deletions, and a restart files the
  chunks under other keys. Correct means: chunks stay ordered and correctly
  filed, the caches are exact, queries in both directions are complete, and no
  command changes a sample it is not about.
* *Compaction.* Three code paths write the same destination. Correct means: a
  closed bucket holds the aggregate of the samples the source has in it, the open
  one equals the context.
* *References.* A rule is written down twice and only one half goes away with a
  key. Correct means: a command makes and breaks links of its own keys only,
  whatever leftovers it meets, and no chains arise, since a write calls itself on
  the destinations.
* *Index.* It is told of changes by events, and of some not at all; a replica
  swaps it out and back. Correct means: the two dictionaries are inverse, follow
  the keyspace, and a query returns the series its filters describe.

* *Range queries.* Buckets are written into the buffer that samples are still
  read from, a bucket may begin in one chunk and end in another, and empty
  buckets need more room than the samples took. Correct means: the answer is the
  documented one however the series is divided into chunks, no unread sample is
  overwritten, and the query ends.

* *Chunks.* A sample of a compressed chunk can only be read through all earlier
  ones; one wrong bit, left by an append that was rolled back or by a resize,
  corrupts the rest. Correct means: what was written is read back, the cached
  ends agree with it, and ranges are cut exactly.
* *Aggregation.* The same function is fed by rules, queries and GROUPBY, sample
  by sample, in vectors, backwards, or again from the beginning after an upsert.
  Correct means: the result is the documented aggregate of the samples, however
  it was computed.
* *Cluster.* Threads share arguments, writers run between the reads of two
  shards, and shards stop. Correct means: a reply is exact for every shard,
  memory is freed once and not used afterwards, and a blocked client is
  answered.

## 2. Modules

| Module | Models | Source |
|---|---|---|
| `Samples` | time, values, NaN, duplicate policies, the retention window | `generic_chunk.c`, `consts.h` |
| `SampleStore` | abstract: what a series promises to clients | - |
| `Series` | one series as a dictionary of chunks | `tsdb.c`, `chunk.c`, `compressed_chunk.c`, `module.c`, `rdb.c`, iterators |
| `Compaction` | one rule between a source and its destination | `module.c`, `tsdb.c`, `tsdb.h` |
| `LinkGraph` | abstract: a set of links without chains | - |
| `RuleGraph` | rule lists and `srcKey` of all keys | `tsdb.c`, `module.c`, `rdb.c` |
| `Index` | the label index under keyspace events | `indexer.c`, `short_read.c`, `tsdb.c`, `module.c` |
| `IndexQuery` | TS.QUERYINDEX over `Index` | `indexer.c`, `query_language.c` |
| `RangeQuery` | TS.RANGE and TS.REVRANGE as a chain of iterators | `series_iterator.c`, `filter_iterator.c`, `enriched_chunk.c`, `reply.c`, chunk decoding |
| `GorillaChunk` | a compressed chunk bit by bit | `gorilla.c`, `compressed_chunk.c` |
| `ArrayChunk` | an uncompressed chunk as an array | `chunk.c` |
| `Chunks` | either kind behind the table of functions, against the map it stands for | `generic_chunk.c`, `tsdb.c` |
| `Aggregators` | the aggregation functions and what they mean | `compaction.c`, `compaction_avx2.c`, `tsdb.h` |
| `AggregationIterator` | TS.RANGE and TS.REVRANGE with AGGREGATION, down to the values | `filter_iterator.c` |
| `Rollup` | the context of a compaction rule, down to the values | `module.c`, `tsdb.c`, `rdb.c` |
| `GroupBy` | TS.MRANGE ... GROUPBY ... REDUCE with its heap | `resultset.c`, `multiseries_*.c`, `heap.c` |
| `Aggregation` | composes the three users of `Aggregators` | - |
| `Cluster` | TS.MGET, TS.MRANGE and TS.QUERYINDEX over several shards | `libmr_commands.c`, `libmr_integration.c`, `blocked_client.c`, `indexer.c` |
| `MCSeries`, `MCCompaction`, `MCRuleGraph`, `MCIndex`, `MCRangeQuery`, `MCChunks`, `MCAggregation`, `MCCluster` | instances for TLC | - |
| `SeriesProofs`, `CompactionProofs`, `RuleGraphProofs`, `IndexProofs`, `ClusterProofs`, `RangeQueryProofs`, `AnswerProofs`, `AggregationProofs` | theorems | - |

`Series` implements `SampleStore` and `RuleGraph` implements `LinkGraph`, each
through an INSTANCE with a refinement mapping; `RuleGraph` command by command
(`CommandStep`), each with the keys it was given. `Compaction` takes the source as
`SampleStore` sees it, which `Series` justifies. `Series` takes a chunk as a map
from timestamps to values, which `Chunks` justifies. `Compaction` and
`RangeQuery` keep the samples that went into an aggregate and leave open what is
computed from them; `Rollup` and `AggregationIterator` compute it.

### How state and actions correspond to the code

**Series.** `chunks` maps a dictionary key to a chunk or `NoChunk`; a chunk is
its map from timestamps to values and its allocated size in samples. `lastChunk`
is the key of the chunk the pointer refers to (`Detached` once that chunk is no
longer in the dictionary). `Add` is TS.ADD and TS.MADD (`internalAdd`: retention
check, append or upsert, duplicate policy), `IncrBy` is TS.INCRBY and
TS.DECRBY, `DelRange` is TS.DEL, `Alter` is TS.ALTER, `Recreate` is DEL and a new
TS.CREATE, `Reload` is a save and load. `SeriesAddSample` includes the trim that
the code runs before it opens a new chunk; an upsert includes the split before it
and the move in the dictionary after it. For compressed series, whether a chunk
is full and how large it is after an upsert or a split depends on the encoded
bits and is a choice. `emptySplit` is a history variable: it becomes true when
`SplitChunk` is applied to a chunk of fewer than two samples, which no property
of the dictionary survives (see finding 1).

**Compaction.** An aggregate is the collection of samples that went into it
(`Twice` marks one that went in twice), so equality of aggregates holds for every
aggregator, and the aggregate of nothing is visible. Bucket arithmetic keeps the
wrap-around of the first bucket and `BucketStartNormalize`. History variables:
`since` (what the source's last timestamp was when the rule was created),
`horizon` (the latest beginning of the retention window) and `derailed` (the rule
was put out of step: its newest bucket deleted (deviation 1 below), or an upsert
before the first append to a rule created on a non-empty source).

**RuleGraph.** `rules` counts the rules per destination, since two rules for the
same destination may exist after a rename. Opening a series for a command is
`Cleaned` (`deleteReferenceToDeletedSeries`), also in commands that are refused
afterwards. `Dump` keeps the references while a background save runs. `AddToNew`
makes a new series together with the destinations of the global policy, as many as
it has rules; one whose key is taken, by a series or by anything else, is passed over.

**Index.** A series is its set of labels. `Delete` stands for all events that
`NotifyCallback` treats like del. `stale` is a history variable: the keys whose
old entries stayed when RENAME, COPY or RESTORE put something in their place.
`BackupGlobals`, `LoadKey`, `RestoreGlobals` and `LoadDone` are a replica's
diskless load and its two outcomes.

**RangeQuery.** One behaviour is one query. `pc` says which iterator works:
`ReadChunk` and `ReadLatest` are `SeriesIteratorGetNextChunk` with the two
filters on top of it (`Pass`), `BeginChunk`, `AppendValue`, `AppendValueVec`,
`CloseBucket`, `ReturnChunk` and `Finalize` are the loop of
`AggregationIterator_GetNextChunk`, `ReplyChunk` and `EndOfReply` that of
`ReplySeriesRange`. `buf` is the buffer they share: allocated cells, the margin a
reverse read of a compressed chunk leaves in front, the number of samples; `si`
and `written` are the read and the write index. A value is the sequence of the
samples it was computed from, so a bucket that misses a sample, has one twice or
has one of another bucket differs from the right one. `Answer` is the reference:
the selected samples, grouped by bucket, without chunks, buffers or iterators.
The series of a query are assumed well formed (`SeriesAssumption`: chunks have samples,
in order, and follow each other), which is what `SeriesProofs` proves of `Series`.
`Answer` follows the code in one point the documentation leaves open (the first bucket,
if it begins before 0, is reported as beginning at 0, and the bucket timestamps
`mid` and `end` are counted from there). History variables: `unread` (what the
aggregation still has to read) and `displaced` (a buffer with a margin was
expanded in place, after which the code works on the wrong cells, deviation 3; the
behaviour ends there). `pc = "undefined"` is the outcome of `filterSamples` on a
buffer without samples, where the index of the last sample wraps around.
`AssertDirection` (`pc = "failed"`) is the `assert` at the head of the aggregation's loop
(deviation 10); a build with NDEBUG, which the repository's build files do not set,
goes on with `BeginChunk`. A query has the series' `lastTimestamp` (`last`) apart from
its samples, since that of a compaction may lag behind its newest one (deviation 2).

**Chunks.** `chunk` is the structure of `compressed_chunk.h` or `chunk.h`, `contents`
the map the series believes it to be; each action is one call through the table
of functions. A compressed chunk has `data` as a sequence of words, `idx` as the
number of bits in use, and the writer's `prev...` fields. `Compressed_Append`
writes the timestamp and then the value, and rolls back what it wrote when the
second does not fit; upserts, splits and deletions decode the chunk and append to
a new one (`Rewritten`, with `ensureAddSample`). Word length, code widths and the
resize step are constants. For an uncompressed chunk, cells behind the samples
are undefined: a read of one (the base timestamp after the last sample was
deleted, a search that leaves the array) is a choice over `Junk`.

**Aggregation.** A double is a fraction, so results are exact and comparable with
their definitions (`Aggregated`, `TimeWeighted`). Contexts have the fields of the
structures in `compaction.c`. In `AggregationIterator` one behaviour is one
query: `Initialize`, `AppendOne`, `AppendRun` (vectors), `CloseBucket` and
`FinalizeLast` are the parts of `AggregationIterator_GetNextChunk`, with the
samples as a sequence rather than in a buffer; `phase = "failed"` is one of the two
assertions of `fillEmptyBuckets` (line 498, and the `assert` of line 499). Timestamps,
durations and their sums are unsigned or signed numbers of the width `Word`, as in the
code, and wrap around (the overflow of the signed sum in the macro `modulo`, which C
leaves undefined, too). In `Rollup`, `AddSample` is `handleCompaction`,
`UpsertSample` is `upsertCompaction` with `SeriesCalcRange`, and `stale` is a
history variable (deviation 7). In `GroupBy`, `heap` is the array of `heap.c`,
sifted as there, and `Take`, `TakeSame` and `Reduce` are
`MultiSeriesAggDupSampleIterator_GetNext`.

**Cluster.** `main` is the main thread of the shard that gets the commands, between
MR_Run and the return of the handler; `arg` is `refCount` of `QueryPredicates_Arg`,
changed atomically; `list` is `ref` of the predicates, which
`QueryPredicateList_Free` tests and decrements in two steps (`FreeTest`,
`FreeDecrement`). `Read` is a mapper under the Redis lock, `ReadEnds` its second
call, `Done` to `Answer` are `mget_done` and `mrange_done`. A series is a sequence
of chunks, since `SeriesRecord_New` selects chunks and
`SeriesRecord_IntoSeries` files them again. A reply is the sequence of the
answers as the handler found them, each with its shard. History variables: `seen` (what a
shard's series was since the command began), `raced`.

### Modelled from use

Redis itself is outside the repository. The models assume what the code relies
on: commands are atomic; del, set, expired, evicted, rename and restore events
are sent when the key changes; RENAME, COPY and RESTORE send no del event for a
key they overwrite (the comments "in case of replace" in `tsdb.c` take this into
account for COPY and RESTORE). Label names and values contain no `=` (a filter
cannot name such a label), so index entries of different labels differ.

LibMR is a submodule and outside as well. `Cluster` assumes: a reader is called
until it returns NULL; a shard's records arrive in order and at most once; an
execution that has lost a shard, or takes too long, ends with an error; late
records are dropped; the done handler is called once; the builder and the
execution each have a reference to the arguments
(`tests/flow/test_ts_libmr_failiure.py` exercises stops and disconnects).

## 3. Runs

| Run | Result | Shows |
|---|---|---|
| `series_structure` | pass | dictionary invariants and completeness of queries; 5 timestamps, data-dependent chunk sizes |
| `series_store` | pass | every command is a step of `SampleStore`; values, NaN, policies, TS.INCRBY, TS.ALTER |
| `series_alter_split` | violation | finding 1 |
| `compaction` | pass | destination and context equal the aggregates of the source's buckets |
| `rule_graph` | pass | `RuleGraph` implements `LinkGraph`, no chains; 3 keys, a policy with 2 destinations, 2 rules per pair |
| `rule_graph_latest` | violation | finding 2 |
| `index` | pass | inverse dictionaries, index follows keyspace, exact queries; 2 keys, 2 labels, 2 values, queries of up to 2 filters |
| `range_query` | pass | exact answers, aggregation in place, direction of chunks, termination; every series of up to 5 timestamps in every division into chunks |
| `chunks` | pass | round trip, cached ends, ranges; both kinds of chunks |
| `chunks_short` | violation | finding 3 |
| `aggregation` | pass | exact aggregates in queries, rules and GROUPBY; the assertions of `fillEmptyBuckets` fail for the named kinds of queries only; no overflow of the average |
| `cluster` | pass | exact replies, no use after free, no leak without a race, every client answered |

Every property of a passing run is broken by a mutant of the code's model: an
off-by-one, a dropped guard, a missing reset, a missing update.

### Bounds, and why they are enough

* `MaxTime` is 2 to 4 for a series. With chunks of one or two samples, five
  timestamps give up to five chunks: a first, a middle and a last one, gaps left
  by TS.DEL between them, a split of the last and of an inner chunk, and a trim
  that removes some chunks and keeps others. `series_structure` lets the sizes be
  chosen as for compressed chunks, which includes what uncompressed ones do;
  `series_store` has uncompressed chunks. The real minimum of 48 bytes (3 samples) only makes
  chunks longer, except in `series_alter_split`, which uses real sizes.
* `compaction` has four buckets, the first cut off by the alignment, and a
  retention window of two buckets. Its constraint `OnCourse` ends behaviours in
  which the rule is out of step; the properties say nothing of those anyway.
* `rule_graph`: three keys are a source, a destination and a third series that
  is renamed, copied or restored over one of them, and one key with two
  destinations in the policy; `MaxRules` bounds the rules
  with one destination. The guard on `MaxRules` is part of the model only. The two
  destinations of the policy may change places (`MCSymmetry`), as nothing else names them.
* `index`: two keys and lists with no, one and two labels, one value shared by
  two labels; all filter types.
* `range_query`: three families of queries. Aggregations over five timestamps
  have bucket lengths 1 to 3 with different alignments and bucket timestamps, so
  that buckets span chunks, the first one is cut off at 0, and gaps hold up to
  three empty buckets, enough to overtake the read index and to outgrow the array.
  Filters over four timestamps have values that are found, missing or out of
  range, chunks of which nothing is left, and COUNT. LATEST has an open bucket
  before, inside and behind the range, or none, and a `lastTimestamp` that may lag.
* `chunks` has words of 8 bits with "bytes" of one, so that a chunk of 16 bytes
  is two words; the code widths (2 to 6) and the window fields (2 and 3 bits) keep
  the proportions of `gorilla.c`. Nine samples use every width, the widest
  included, equal values, windows that are reused and new ones, and appends that
  fail in the timestamp or, after it was written, in the value. An upsert enlarges
  a chunk by four words, so all samples fit after one.
* `chunks_short` scales the short down to four values and the chunk with it (65536
  samples in the largest chunk that CHUNK_SIZE allows).
* `aggregation`: all subsets of six timestamps, buckets of 1, 2, 3 and 6 with and
  without alignment, three ranges and two that end before they begin, both directions, EMPTY.
  `EdgeQueries` have timestamps up to 15 of 32 unsigned numbers, the largest signed one, and
  durations 3, 7, 8 (a quarter), 9 and 15 (the largest), so that every sum of the
  code wraps in some query, and every kind of failure that `EmptyBucketsExist` names happens. For rules all
  aggregators over five timestamps in two buckets, the first cut off at 0, with two
  values of which two make the average overflow (`DBL_MAX` is 5); for GROUPBY four
  series, three of them with samples at the same time, which is the smallest heap
  in which both children of the root matter.
* `cluster`: two shards, one command of any kind, one write and one stop: enough
  for every thread to meet every other one, since commands share nothing but the
  lock. Two chunks and an open bucket per series, ranges that cut through them.
* CHECK_DEADLOCK is left on where clients drive the system: some command is
  always possible. A query or a cluster command, in contrast, stops when it has
  been answered, and a chunk may be full.

### Findings

1. After TS.ALTER to a smaller CHUNK_SIZE an upsert can split a chunk that holds
   one sample. The empty half is filed under key 0 and a later move takes the
   chunk under key 0 away. `docs/commands/ts.alter.md` says existing chunks are
   not affected.
2. A destination keeps its `srcKey` when its source is overwritten or created
   anew; a read with LATEST then runs into the assertion of `find_rule`.
3. `Uncompressed_UpsertSample` counts samples in a `short`. In a chunk of 65536
   samples the search does not run and a timestamp is stored twice; from 32768 on
   the search has no end.

### Other deviations the models show

These have no run of their own. The models behave like the code; history
variables or an excluding condition keep the properties about the rest.

1. TS.DEL of the whole newest bucket leaves the rule's bucket open; the next
   append stores a compacted sample for a bucket without samples, where
   `docs/commands/ts.createrule.md` promises none, and AvgFinalize asserts that
   there are some (`derailed` in `Compaction`).
2. A recalculated bucket that is newer than every compacted sample is upserted
   (`RuleSeriesUpsertSample`), which does not move the destination's
   `lastTimestamp`; TS.GET misses it.
3. `fillEmptyBuckets` moves the samples to the beginning of the array, but sets
   the pointer only if it reallocates: after TS.REVRANGE ... EMPTY over a
   compressed chunk with samples out of range, the code works on cells behind
   those it moved, possibly outside the array (`displaced` in `RangeQuery`).
4. The label entries of a series that RENAME, COPY or RESTORE overwrites stay in
   the index (`stale` in `Index`).
5. The assertions of `fillEmptyBuckets` fail for some queries, all
   of them with EMPTY. `EmptyBucketsExist` says that there are no others than these.
   With any aggregator: bucket durations above a quarter of the unsigned numbers, which
   `parseAggregationArgs` accepts and for which sums of buckets and durations wrap around
   (the test of line 819 among them, in reverse). For a time-weighted average without samples: the range
   begins in a first bucket that begins before 0 and ends in a later one, or it
   ends in an earlier bucket than it begins, since `parseRangeArguments` does not
   refuse fromTimestamp > toTimestamp. With samples: a range that ends in a
   first bucket that begins before 0 (its bounds wrap, and no whole number of buckets
   lies between them), or buckets reported half of the unsigned numbers away from ALIGN
   (BUCKETTIMESTAMP mid or end, at the end of time), whose start comes out wrong.
6. Time-weighted averages with EMPTY: with BUCKETTIMESTAMP end, the empty buckets
   behind the last sample start one bucket late, since the start is taken from the
   reported timestamp; empty buckets next to a first bucket that begins before
   0 are left out; and a range that ends before it begins may be answered with empty
   buckets (`Regular` in `AggregationIterator`, which also excludes the durations of
   deviation 5).
7. An upsert changes the time-weighted average of the neighbouring buckets too,
   but only its own bucket is recalculated (`stale` in `Rollup`).
8. TS.QUERYINDEX refused inside MULTI or Lua, and TS.MRANGE whose execution cannot
   be created, leak their predicates; so may two threads that are in
   `QueryPredicateList_Free` at the same time. None of this frees twice.
9. A source with two destinations, one of which is renamed to the key of the other: the
   rule left over for the overwritten series agrees with the renamed one, and the
   source has two rules for one destination. `UpdateReferencesToRenamedSeries` ("Only
   one src can point back to destKey") and TS.CREATERULE count on at most one.
   `RuleGraph` counts rules per destination for this reason.
10. TS.REVRANGE with an aggregation and no filter goes on to the first chunk below
   fromTimestamp. It is handed out without samples and with `rev` false, and the `assert`
   that the chunk is reversed fails. `ChunksInDirection` says where.
11. TS.REVRANGE computes `first` and `last` in the order of reading, and an empty bucket
   of `last` repeats the newer neighbour. The flow test `test_ts_range.py` expects
   this; `docs/commands/ts.revrange.md` defines `first` by the lowest timestamp of the
   bucket, `last` by the highest, and an empty `last` by the previous sample. The two
   contradict each other, so `AnswerIsAggregate`, which has the documented meaning, is not about
   these two in reverse.

`AnswerExact` leaves out three deviations of LATEST from
`docs/commands/ts.range.md` (operator `LatestDeviates`): an open bucket is reported
out of order, or not at all, when the compaction has a sample at or behind it, which
only a client that writes into the compaction itself can have added; an open bucket
before fromTimestamp is reported; and TS.REVRANGE with an aggregation reports nothing
when no open bucket begins by toTimestamp, since the empty first chunk is taken
for the end. The first was found by the proof: `AnswerExact` could not be shown without
it, and the instance of the run had no such query.

### Fairness and liveness

Most modelled parts are driven by clients: nothing has to happen unless a command
arrives, so their specifications state no fairness. `RangeQuery` is different: a
command runs on the main thread until it has replied, so `Spec` has weak fairness
of `Next`, and `QueryEnds` says that every query comes to its end. In `Cluster`,
threads run on (weak fairness of the main thread's steps and of each execution's
steps), and an execution that has lost a shard is ended with an error, by the
broken connection or by LibMR's timeout (weak fairness of `Fail`, only once a
shard is lost). Nothing is assumed of shards: they may stop and never return.
`ClientsAnswered` says that a blocked client is answered all the same.

## 4. Proofs

All proofs are checked by tlapm with the SMT, Zenon and LS4 backends. The only
assumptions are the named ASSUMEs of the modules (`TimeAssumption`,
`ChunkSizesAssumption`, `KeyAssumption`, ...), which say that constants have
their types and that the marks for "nothing" are not values, `SeriesAssumption`,
that a range query reads a well-formed series, and `QueryAssumption` and
`RollupAssumption`, that timestamps and durations are signed numbers; TLC evaluates them in every
run of the modules.

**SeriesProofs** proves all invariants of `series_structure`, and
`LastSampleIsNewest`, for every number of timestamps, chunk size, retention
time, policy and encoding: `TypeCorrect`, `OrderTheorem`, `KeyTheorem`,
`EmptyChunkTheorem`, `LastChunkTheorem`, `LastSampleTheorem`, `CountTheorem`,
`QueryTheorem`. None of them is inductive alone: moving a chunk to its new key
is correct only because chunks are ordered and no other is empty, TS.DEL
recognises the only chunk because the count is exact, the split goes to the right
half because of the order. The inductive invariant `IndInv` is their
conjunction, with an alternative for the empty series, as long as no one-sample
chunk has been split; afterwards only the types are kept. The argument follows
the code: lemmas about chunks (ends, split, deletion), about the dictionary
(moving, splitting, shrinking), about the append, the upsert and the deletion, and
then one step per action.

It also proves, from `IndInv`, that `Series` implements `SampleStore`. The refinement mapping `Data` gives every timestamp the
value of the chunk that holds it; since chunks are disjoint there is at most one.
`StoreInit` is the initial half, `StoreTheorem` says that every step of every
command is a step of the abstract store or leaves it alone, until a one-sample
chunk has been split. Per operation there is a lemma on what it does to `Data`: a
split, a move to a new key and an enlargement leave it alone, an append or upsert
changes one timestamp, a trim and a deletion remove what they should.

**CompactionProofs** proves all properties of `compaction` for every number of
timestamps, bucket duration, alignment and retention time: `TypeCorrect`,
`ClosedTheorem`, `LatestTheorem`, `CompactedTheorem`. It begins with the arithmetic of
buckets (a timestamp lies in its bucket, buckets do not overlap, the first one may
begin before 0 and is normalized). The three exactness properties need each other
(a bucket is closed with what is in the context) and two facts none of them
states: `lastTimestamp` is the newest timestamp of the source, and the recorded
horizon covers the retention window, so that `SeriesCalcRange`, which clips its
range at that window, never clips a bucket the properties are about (`SourceInv`).
A rule on course either has an empty context and nothing newer than itself in
the source (`Unstarted`), or its context has samples of the source's newest bucket
(`Started`). `IndInv` is the conjunction. The hardest case is TS.DEL, which
recalculates the first and the last bucket of its range and deletes those
between. The theorem also covers a rule created after an earlier one was put out
of step, which the run's constraint `OnCourse` leaves out.

**RuleGraphProofs** proves `TypeCorrect` and `NoChainsTheorem` for every set of
keys, compaction policy and number of rules. `NoChains` speaks of rules whose two
halves agree; that is not inductive, since a leftover half may find a counterpart
again (a DUMP taken during a save, for instance). The invariant is about single
series: one with a `srcKey` has no rules, matched or not, stored or dumped. RENAME
is the interesting case: the destinations that get the new name still name the
old one, therefore have no rules of their own. With the same invariant,
`RefinesLinkGraph` proves that `RuleGraph` implements `LinkGraph`, where a pair of keys is
linked when both halves agree. The claim is made of each command with the keys it was
given (`CommandStep`), with the cleaning it begins with: TS.CREATERULE and TS.DELETERULE
change one link, a new series gets links to the new destinations of its policy, DEL and COPY
remove the links of one key, RENAME moves those of one key and drops those of the key it
overwrites, and writes, TS.INFO, DUMP and a refused TS.CREATERULE change none. It does not
say that leftovers never matter: RESTORE brings back links that its value names,
if the other half is there (`Restore`), and RENAME may turn a leftover into
a second rule for a pair that is linked (deviation 9), which a set of links does not show.

**IndexProofs** proves `TypeCorrect`, `InverseTheorem` and `FollowTheorem` for
every set of keys, labels and label lists. The invariant says the same of the
backup as of the live index, so that a broken-off load is a step like any other.

It also proves `QueriesTheorem`: `QueriesExact` for every finite set of
keys, every set of filters and any number of filters in a query. It rests on the
same invariant, from which the leaf of a filter holds exactly the series with
its label (`DictHolds`). The two passes of `QueryIndex` over the filters are a recursive
function; a closed form of each step (`MatchedBy`, `ReducedBy`) obeys the recursion,
and a smallest counterexample shows that nothing else does (`PassResult`).
`PromoteSmallestPredicateToFront` exchanges two filters and so loses none; that there
is a smallest one needs a finite keyspace (`KeyAssumption` of `IndexQuery`). Keys that
are not series are kept out by the matcher every query must have (`IsQuery`); without
one `QueryIndex` would return nothing.

**ClusterProofs** proves all safety properties of `cluster` for every number of
shards, commands, chunks and writes: `TypeCorrect`, `RepliesSnapshots`,
`NeverUsedAfterFree`, `AllFreed`. A property of the freed memory is not inductive, since it
says nothing of a count that is too small but not yet zero. The invariant states
that each reference count equals the number of references the main thread and
the execution still hold, the predicates' count with the exception of decrements
lost in a race (`raced`), which only leaves it too large. For the replies it
states that every record under way, collected or sent is the exact answer of a
series the shard has had since the command began, and that a shard that has
answered is not asked again.

**RangeQueryProofs** proves that aggregation in place is safe (`TypeCorrect`,
`UnreadTheorem`) for every well-formed series, division into chunks and query. `UnreadIntact`
says where the unread samples are; that they stay there when a bucket and a
gap of EMPTY buckets are written needs a bound on how many buckets there can be. The
invariant therefore also says that the unread samples are in the order of the query,
so that not more are left than there are timestamps behind the next one
(`UpLength`, `DownLength`), and that the buckets written so far fit between the
first bucket and the end of the current one (`Written`). The arithmetic of the
gap (`GapForward`, `GapReverse`) then gives room for each bucket in an array of
`Cap` cells. Of the filters only this is needed: they keep a
subsequence. The case of `CloseBucket` follows the code: write the bucket over a sample
that has been read (`Closed`), move the rest if the gap would reach it (`RoomKept`),
fill the gap (`EmptyFilled`). A buffer with a margin that is expanded in place
(deviation 3) ends the claim, as in the run.

**AnswerProofs** proves, on top of it, that the reply is exact (`AnswerTheorem`) for every
well-formed series, division into chunks and query. At every point the selected samples
are divided into `Rest`, which no chunk read so far had, `Held`, which are in the buffer,
and `Done`, and in the order of the reply `Done` comes first and `Rest` last (`InputInv`).
That reading a chunk keeps this needs what the first chunk of a query skips
(`FirstChunksHold`), that the halving search of `filterSamples` finds all it should
(`FoundExact`, an induction on the length of the searched part), that dropping as many
wanted timestamps as were found never drops one that is still needed
(`StillWantedKeeps`), and that the open bucket of LATEST comes behind all stored samples
(`OpenAhead`). Without an aggregation the reply lists `Done`. With one, the buckets sent
and those in the buffer are the beginning of the full reply, the current bucket is the next
one, and the context lists what `Done` has of it (`Running`); the end of the bucket,
its start, which may have been below 0 and is then normalized, and the true beginning are
related by `Window`. A sample that stays inside the window belongs to the bucket
(`StaysInBucket`); one that ends it begins a later one, and the buckets between them, which
hold no sample, are those `fillEmptyBuckets` writes (`GapExact`, `GapFollows`). Two lists of the
same samples in the same order are equal (`ListUnique`), so the finished reply is the
documented one, cut at COUNT. TLC checked this invariant on the instance of the run first.

**AggregationProofs** proves `EmptyBucketsTheorem`, `AverageTheorem` and `TypeTheorem` for
every set of queries, rules and requests, every largest double and every width `Word`
of the unsigned numbers. The invariant `Inv` is `QueryOK`, `RuleOK` and `GroupOK`.

* *Queries.* The assertions compare starts that may have wrapped around, so the argument is
  about the starts before wrapping (`Floor`), which lie on a grid: two of them that differ
  are a whole bucket apart (`Apart`), all negative ones are the same (`FirstBucket`), and
  a start that wrapped is in the upper half of the numbers while one that did not is
  in the lower (`WrappedStart`). For durations up to a quarter of `Word` the sum in
  `modulo` stays signed and `CalcBucketStart` computes `Floor` (`ModuloIs`, `TimeStart`).
  `QueryOK` says that `bucket` and `scope` are those of
  one timestamp of the range, that only samples of the range are read, and that
  none are there to be read only if the range has none. Two lemmas for each call of
  `fillEmptyBuckets`, one per direction (`PrefixInOrder`, `PrefixInReverse`,
  `BetweenInOrder`, `BetweenInReverse`, `SuffixInOrder`, `SuffixInReverse`), then show the order
  of its bounds and that they lie on the grid (`WholeOnGrid`), the case of BUCKETTIMESTAMP
  end included, where the bucket is taken from the wrong timestamp. Above a quarter of
  `Word` only the types are kept, and that nothing is asserted without EMPTY. What is
  assumed (`QueryAssumption`) is that timestamps and durations are signed numbers, less
  than half of `Word`, as the parser sees to.
* *Averages.* `AvgAddValue` keeps a sum until adding to it would overflow, and an average from
  then on. `AverageOK` says that what is kept is a fraction of at most `DBL_MAX`, which
  reducing it to lowest terms does not change; the test that precedes the addition, and
  the weights (n - 1) / n and 1 / n of the average, keep it there (`SumFits`,
  `AverageStays`); the step at which the sum becomes an average needs that there was a
  sample before. Upserts compute the context again from any
  number of samples: a recursive function, handled by a smallest counterexample
  (`AverageFed`).
* *Groups.* Each round of `__pushup` and `__pushdown` exchanges two items inside the heap
  (`RaisedOnceKeeps`, `LoweredOnceKeeps`), and so do all of them (`Rounds`, `EveryRound`);
  with heap_offer and heap_poll the items of the heap always belong to iterators of
  the group.

Only model-checked: `QueryEnds` and `ClientsAnswered`, which are liveness
properties and out of the prover's reach; `ChunksInDirection`; the properties of `Chunks`, since `GorillaChunk`
needs `Bitwise`, which the prover cannot load; and `AnswerIsAggregate`, `RollupsExact`,
`LatestExact` and `GroupsExact`, which compare what eleven aggregators compute step by step with
folds over all samples, in fractions: an induction over data in nonlinear arithmetic.

## 5. Not modelled

* Rounding of doubles, infinities, and std.p and std.s, the square roots of the
  variances. The AVX-512 form of the maximum, and NaN in the lanes of the vectors.
* The full word length of Gorilla compression (64 bits): the model checks the
  same algorithm with words of 8.
* `forceSaveCrossRef` and series that are not in RAM (both keep references in a
  DUMP as a running save does).
* Expiry of a key between two lookups of one command.
* In range queries, a time-weighted average combined with FILTER_BY_TS or
  FILTER_BY_VALUE, and the clipping of the range by the retention time, which
  `Series` has.
* In GROUPBY, the growth of the heap's array and the labels of the reduced series;
  a reversed reply is the merged series read backwards.
* In the cluster, the encoding of records, SELECTED_LABELS, and GROUPBY on the
  collected series, which is `GroupBy` again. (A record carries no retention time,
  so TS.MRANGE in a cluster also reports samples that have expired but are still
  in a chunk; `Cluster` has no retention.)
* Short reads while loading an RDB, and its older encodings.
* Parsing, replies and configuration, apart from label filters, the arguments of a
  range and the choice of a reducer.

## 6. Plan

Done, in this order: `Samples`, `SampleStore`, `Series`, `SeriesProofs`,
`Compaction`, `LinkGraph`, `RuleGraph`, `RuleGraphProofs`, `Index`, `IndexQuery`,
`IndexProofs`, `RangeQuery`; `GorillaChunk`, `ArrayChunk`, `Chunks`; `Cluster`;
`Aggregators`, `AggregationIterator`, `Rollup`, `GroupBy`, `Aggregation`;
`ClusterProofs`, the refinements of `LinkGraph` and `SampleStore`, `CompactionProofs`,
`RangeQueryProofs`, the queries in `IndexProofs`, `AnswerProofs`, `AggregationProofs`.

Next:

1. The retention 0 case of `is_obsolete` in TS.DEL, and short reads while loading.
