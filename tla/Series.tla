------------------------------- MODULE Series -------------------------------
(***************************************************************************)
(* One time series (tsdb.c): a dictionary of chunks ordered by timestamp.  *)
(*                                                                         *)
(* Clients see a map from timestamps to values; the series keeps it cut    *)
(* into chunks that are appended to, upserted into, split when they have   *)
(* grown too large, shortened or removed by TS.DEL and dropped from the    *)
(* old end by retention.  A chunk lives in the dictionary under the        *)
(* timestamp of its first sample, except the very first one, which NewSeries *)
(* stores under 0; every operation that changes a chunk's first sample has *)
(* to move the chunk to its new key.                                       *)
(*                                                                         *)
(* The commands run one at a time under Redis' global lock, so each is one *)
(* action.  Compaction rules are the subject of another module: here       *)
(* series->rules is NULL.                                                  *)
(***************************************************************************)
EXTENDS Samples, FiniteSets

CONSTANTS
  GlobalPolicy,  \* TSGlobalConfig.duplicatePolicy
  Compressed,    \* does the series use Gorilla chunks (the default) or not?
  ChunkSizes,    \* the values CHUNK_SIZE may take, in samples of 16 bytes
  Retentions,    \* the values RETENTION may take
  Policies,      \* the duplicate policies used in commands
  Inputs,        \* the values written by TS.ADD and TS.MADD
  Increments,    \* the amounts TS.INCRBY (and, negated, TS.DECRBY) adds
  NoChunk        \* "no chunk under this key"

ASSUME CompressedAssumption == Compressed \in BOOLEAN
ASSUME ChunkSizesAssumption == ChunkSizes \subseteq Nat \ {0} /\ ChunkSizes # {}
ASSUME RetentionsAssumption == Retentions \subseteq Nat /\ Retentions # {}
ASSUME InputsAssumption == Inputs \subseteq Value /\ Increments \subseteq Int
ASSUME PoliciesAssumption ==
  Policies \subseteq DuplicatePolicy \cup {DP_NONE} /\ Policies # {} /\ GlobalPolicy \in DuplicatePolicy

VARIABLES
  chunks,          \* series->chunks: key -> chunk, or NoChunk
  lastChunk,       \* the key of the chunk series->lastChunk points at
  lastTimestamp,   \* series->lastTimestamp
  lastValue,       \* series->lastValue
  totalSamples,    \* series->totalSamples
  retentionTime,   \* series->retentionTime
  chunkSize,       \* series->chunkSizeBytes / SAMPLE_SIZE
  duplicatePolicy, \* series->duplicatePolicy
  emptySplit       \* has SplitChunk been applied to a chunk of fewer than two samples?

config == <<retentionTime, chunkSize, duplicatePolicy>>
vars == <<chunks, lastChunk, lastTimestamp, lastValue, totalSamples,
          retentionTime, chunkSize, duplicatePolicy, emptySplit>>

----------------------------------------------------------------------------
(***************************************************************************)
(* Chunks.  The samples of a chunk are a map from timestamps to values;    *)
(* that the sorted array of chunk.c implements such a map is taken for     *)
(* granted here.  size is the allocated size in samples, rounded up.  How  *)
(* many samples fit into a Gorilla chunk depends on the data, so for a     *)
(* compressed series the outcomes that depend on the encoded length are    *)
(* choices.                                                                *)
(***************************************************************************)
Chunk == [samples : [Time -> Value \cup {NoValue}], size : Nat \ {0}]

ASSUME NoChunkAssumption == NoChunk \notin Chunk

NewChunk(size) == [samples |-> [t \in Time |-> NoValue], size |-> size]

Timestamps(c) == {t \in Time : c.samples[t] # NoValue}

IsSmallest(T, t) == t \in T /\ \A u \in T : t <= u
IsLargest(T, t) == t \in T /\ \A u \in T : u <= t
Smallest(T) == CHOOSE t \in T : IsSmallest(T, t)
Largest(T) == CHOOSE t \in T : IsLargest(T, t)

NumOfSample(c) == Cardinality(Timestamps(c))

\* An empty chunk answers 0, which is also the key it is stored under.
GetFirstTimestamp(c) == LET T == Timestamps(c) IN IF T = {} THEN 0 ELSE Smallest(T)
GetLastTimestamp(c) == LET T == Timestamps(c) IN Largest(T)
\* Mutant: the value of the wrong end of the chunk.
GetLastValueOfFirst(c) == c.samples[GetFirstTimestamp(c)]
GetLastValue(c) == c.samples[GetLastTimestamp(c)]

WithSample(c, t, v) == [c EXCEPT !.samples[t] = v]

\* The outcomes of "is there no room for one more sample at the end?".
AddSampleEnds(c) ==
  IF ~Compressed THEN {NumOfSample(c) = c.size}
  ELSE IF Timestamps(c) = {} THEN {FALSE} ELSE BOOLEAN

\* The sizes a chunk may have after a sample is inserted at any position.  A
\* compressed chunk that is too small grows by CHUNK_RESIZE_STEP bytes, once, which
\* is one unit of its size here.
UpsertSizes(c) ==
  IF ~Compressed THEN {IF NumOfSample(c) = c.size THEN c.size + 1 ELSE c.size}
  ELSE {c.size, c.size + 1}

\* Mutant: a half is allocated one sample too small.
SplitSizesOneLess(n) == {n - 1}

\* The sizes one half of a split chunk may have when it holds n samples.
SplitSizes(n) == IF ~Compressed THEN {n} ELSE 1 .. n

DelRangeOfChunk(c, a, b) ==
  [samples |-> [t \in Time |-> IF a <= t /\ t <= b THEN NoValue ELSE c.samples[t]],
   size    |-> c.size]

\* The samples of c before, and from, timestamp t.
Before(c, t, size) ==
  [samples |-> [u \in Time |-> IF u < t THEN c.samples[u] ELSE NoValue], size |-> size]
From(c, t, size) ==
  [samples |-> [u \in Time |-> IF u < t THEN NoValue ELSE c.samples[u]], size |-> size]

\* SplitChunk moves the last half (rounded down) of the samples of c; t is the
\* first timestamp that moves.
SplitsAt(c, t) ==
  /\ t \in Timestamps(c)
  /\ Cardinality({u \in Timestamps(c) : t <= u}) = NumOfSample(c) \div 2

\* SPLIT_FACTOR is 1.2.
Oversized(c) == 5 * c.size > 6 * chunkSize

----------------------------------------------------------------------------
(***************************************************************************)
(* The dictionary.                                                         *)
(***************************************************************************)
Detached == MaxTime + 1

Keys == {k \in Time : chunks[k] # NoChunk}

\* DICT_OP_SET fails, and changes nothing, when the key is taken.
DictSet(d, k, c) == IF d[k] = NoChunk THEN [d EXCEPT ![k] = c] ELSE d
DictDel(d, k) == [d EXCEPT ![k] = NoChunk]

\* update_chunk_in_dict: move the chunk whose first timestamp was orig to the
\* key first.  When nothing is stored under orig the chunk is the one under 0.
UpdateChunkInDict(d, c, orig, first) ==
  DictSet(IF d[orig] # NoChunk THEN DictDel(d, orig) ELSE DictDel(d, 0), first, c)

\* The key of the chunk stored under k once an operation has changed it.
KeyAfter(k, before, after) ==
  LET first == GetFirstTimestamp(after) IN
  IF first # GetFirstTimestamp(before) THEN first ELSE k

\* The chunk under k becomes c, which is stored under another key when its
\* first timestamp has changed.
ReplaceChunk(d, k, c) ==
  LET orig    == GetFirstTimestamp(d[k])
      first   == GetFirstTimestamp(c)
      inPlace == [d EXCEPT ![k] = c]
  IN  IF first # orig THEN UpdateChunkInDict(inPlace, c, orig, first) ELSE inPlace

\* The dictionary that holds each chunk under the key paired with it.
DictOf(pairs) ==
  [n \in Time |-> IF \E m \in pairs : m[1] = n
                  THEN (CHOOSE m \in pairs : m[1] = n)[2]
                  ELSE NoChunk]

\* The iterator seek "<=": the chunk with the largest key up to t, or, when
\* there is none, the first chunk ("^").
Seek(t) ==
  LET upToT == {k \in Keys : k <= t} IN
  IF upToT # {} THEN Largest(upToT) ELSE Smallest(Keys)

\* Every stored sample, with the key of the chunk that holds it.
Entries == UNION {{k} \X Timestamps(chunks[k]) : k \in Keys}

----------------------------------------------------------------------------
(***************************************************************************)
(* NewSeries: one empty chunk, stored under 0.                             *)
(***************************************************************************)
NewSeries(size) ==
  [k \in Time |-> IF k = 0 THEN NewChunk(size) ELSE NoChunk]

Init ==
  /\ retentionTime \in Retentions /\ chunkSize \in ChunkSizes /\ duplicatePolicy \in Policies
  /\ chunks = NewSeries(chunkSize)
  /\ lastChunk = 0
  /\ lastTimestamp = 0 /\ lastValue = 0 /\ totalSamples = 0
  /\ emptySplit = FALSE

\* DEL (or expiry, eviction, overwriting) and a new TS.CREATE.
Recreate ==
  /\ retentionTime' \in Retentions /\ chunkSize' \in ChunkSizes /\ duplicatePolicy' \in Policies
  /\ chunks' = NewSeries(chunkSize')
  /\ lastChunk' = 0
  /\ lastTimestamp' = 0 /\ lastValue' = 0 /\ totalSamples' = 0
  /\ emptySplit' = FALSE

----------------------------------------------------------------------------
(***************************************************************************)
(* SeriesAddSample: append to the last chunk; when it is full, apply the   *)
(* retention time and open a new chunk.                                    *)
(***************************************************************************)
AppendToLast(t, v) ==
  /\ FALSE \in AddSampleEnds(chunks[lastChunk])
  /\ chunks' = [chunks EXCEPT ![lastChunk] = WithSample(@, t, v)]
  /\ totalSamples' = totalSamples + 1
  /\ UNCHANGED lastChunk

\* SeriesTrim removes chunks from the old end while their last timestamp is
\* behind the retention window.
MinTimestamp == IF lastTimestamp > retentionTime THEN lastTimestamp - retentionTime ELSE 0

\* Mutant: the oldest timestamp of the window is trimmed, too.
TrimmedAtBoundary(k) ==
  /\ retentionTime # 0
  /\ \A j \in Keys : j <= k => GetLastTimestamp(chunks[j]) <= MinTimestamp

Trimmed(k) ==
  /\ retentionTime # 0
  /\ \A j \in Keys : j <= k => GetLastTimestamp(chunks[j]) < MinTimestamp

SeriesTrim == [k \in Time |-> IF k \in Keys /\ Trimmed(k) THEN NoChunk ELSE chunks[k]]

\* Mutants: lastChunk is not moved; the trimmed samples are still counted.
AppendToNewKeepsLast(t, v) ==
  /\ TRUE \in AddSampleEnds(chunks[lastChunk])
  /\ chunks' = DictSet(SeriesTrim, t, WithSample(NewChunk(chunkSize), t, v))
  /\ totalSamples' = totalSamples - Cardinality({e \in Entries : Trimmed(e[1])}) + 1
  /\ lastChunk' = lastChunk

AppendToNewUncounted(t, v) ==
  /\ TRUE \in AddSampleEnds(chunks[lastChunk])
  /\ chunks' = DictSet(SeriesTrim, t, WithSample(NewChunk(chunkSize), t, v))
  /\ totalSamples' = totalSamples + 1
  /\ lastChunk' = t

AppendToNew(t, v) ==
  /\ TRUE \in AddSampleEnds(chunks[lastChunk])
  /\ chunks' = DictSet(SeriesTrim, t, WithSample(NewChunk(chunkSize), t, v))
  /\ totalSamples' = totalSamples - Cardinality({e \in Entries : Trimmed(e[1])}) + 1
  /\ lastChunk' = t

SeriesAddSample(t, v) ==
  /\ AppendToLast(t, v) \/ AppendToNew(t, v)
  /\ lastTimestamp' = t
  /\ lastValue' = v
  /\ UNCHANGED emptySplit

----------------------------------------------------------------------------
(***************************************************************************)
(* SeriesUpsertSample: a sample at or before lastTimestamp.                *)
(***************************************************************************)

\* Is the sample older than the last chunk's first one?
InOlderChunk(t) ==
  t < GetFirstTimestamp(chunks[lastChunk]) /\ Cardinality(Keys) > 1

\* Mutant: every upsert goes to the last chunk.
UpsertKeyLast(t) == lastChunk

UpsertKey(t) == IF InOlderChunk(t) THEN Seek(t) ELSE lastChunk

\* The tail of SeriesUpsertSample once the chunk is chosen: insert into (or
\* overwrite in) the chunk under key k of the dictionary d, move the chunk if
\* its first timestamp changed.  last is the key series->lastChunk stands for
\* before the chunk is moved.
UpsertIntoChunk(d, k, last, t, v, dp) ==
  LET c   == d[k]
      old == c.samples[t]
      new == IF old = NoValue THEN v ELSE HandleDuplicateSample(dp, old, v)
  IN
  \/ /\ old # NoValue /\ dp = "block"         \* CR_ERR: the sample is refused
     /\ chunks' = d
     /\ lastChunk' = last
     /\ UNCHANGED <<lastTimestamp, lastValue, totalSamples>>
  \/ /\ old = NoValue \/ dp # "block"
     /\ new \in Value                          \* bound: sums stay in Number
     /\ \E size \in IF old = NoValue \/ Compressed THEN UpsertSizes(c) ELSE {c.size} :
          LET upserted == [WithSample(c, t, new) EXCEPT !.size = size]
          IN  /\ chunks' = ReplaceChunk(d, k, upserted)
              /\ lastChunk' = IF last = k THEN KeyAfter(k, c, upserted) ELSE last
     /\ totalSamples' = totalSamples + (IF old = NoValue THEN 1 ELSE 0)
     /\ lastValue' = IF t = lastTimestamp THEN new ELSE lastValue
     /\ UNCHANGED lastTimestamp

UpsertInPlace(t, v, dp) ==
  /\ ~Oversized(chunks[UpsertKey(t)])
  /\ UpsertIntoChunk(chunks, UpsertKey(t), lastChunk, t, v, dp)
  /\ UNCHANGED emptySplit

\* The chunk has outgrown 1.2 times the chunk size: split it first.
UpsertAfterSplit(t, v, dp) ==
  LET k == UpsertKey(t)
      c == chunks[k]
      n == NumOfSample(c)
  IN
  /\ Oversized(c) /\ n >= 2
  /\ \E at \in Time, size1 \in SplitSizes(n - n \div 2), size2 \in SplitSizes(n \div 2) :
       /\ SplitsAt(c, at)
       /\ UpsertIntoChunk(DictSet([chunks EXCEPT ![k] = Before(c, at, size1)],
                                  at, From(c, at, size2)),
                          IF t >= at THEN at ELSE k,
                          IF InOlderChunk(t) THEN lastChunk ELSE at,
                          t, v, dp)
  /\ UNCHANGED emptySplit

\* The oversized chunk holds a single sample (TS.DEL removed the others, or
\* TS.ALTER made CHUNK_SIZE smaller).  SplitChunk then returns an empty chunk,
\* whose first timestamp is 0: it is stored under 0 unless that key is taken,
\* receives the sample, and is moved from 0 to t, which removes whatever was
\* stored under 0.  lastChunk may be left pointing at a chunk that is not in
\* the dictionary, written as the key Detached; what such a series does next
\* is not modelled, only Recreate leaves this state.
\*
\* Compressed_UpsertSample compares t with an iterSample that an empty chunk
\* leaves uninitialized.  When the two happen to agree the sample counts as a
\* duplicate of an arbitrary value: it is refused under BLOCK, and not added to
\* totalSamples otherwise.
UpsertAfterEmptySplit(t, v, dp) ==
  LET k     == UpsertKey(t)
      c     == chunks[k]
      split == [chunks EXCEPT ![k] = [@ EXCEPT !.size = NumOfSample(c)]]
      moved == IF t = 0 THEN split ELSE DictDel(split, 0)
      stored(w) ==
        /\ chunks' = DictSet(moved, t, WithSample(NewChunk(1), t, w))
        /\ lastValue' = IF t = lastTimestamp THEN w ELSE lastValue
        /\ lastChunk' = IF InOlderChunk(t) THEN lastChunk
                        ELSE IF moved[t] = NoChunk THEN t ELSE Detached
  IN
  /\ Oversized(c) /\ NumOfSample(c) < 2
  /\ \/ stored(v) /\ totalSamples' = totalSamples + 1
     \/ /\ Compressed /\ dp # "block"
        /\ \E garbage \in Value : LET w == HandleDuplicateSample(dp, garbage, v)
                                  IN  w \in Value /\ stored(w)
        /\ UNCHANGED totalSamples
     \/ /\ Compressed /\ dp = "block"
        /\ chunks' = DictSet(split, 0, NewChunk(1))
        /\ lastChunk' = IF InOlderChunk(t) THEN lastChunk
                        ELSE IF chunks[0] = NoChunk THEN 0 ELSE Detached
        /\ UNCHANGED <<totalSamples, lastValue>>
  /\ emptySplit' = TRUE
  /\ UNCHANGED lastTimestamp

----------------------------------------------------------------------------
(***************************************************************************)
(* internalAdd, the common body of TS.ADD, TS.MADD, TS.INCRBY, TS.DECRBY.  *)
(***************************************************************************)
InternalAdd(t, v, override) ==
  LET dp == EffectivePolicy(override, duplicatePolicy, GlobalPolicy) IN
  /\ ~OlderThanRetention(t, lastTimestamp, retentionTime)
  /\ IF t <= lastTimestamp /\ totalSamples # 0
     THEN \/ UpsertInPlace(t, v, dp)
          \/ UpsertAfterSplit(t, v, dp)
          \/ UpsertAfterEmptySplit(t, v, dp)
     ELSE SeriesAddSample(t, v)
  /\ UNCHANGED config

Add(t, v, override) == ~emptySplit /\ InternalAdd(t, v, override)

\* TS.INCRBY and TS.DECRBY: the new sample continues from lastValue and must
\* not be older than lastTimestamp.
IncrBy(t, delta) ==
  LET result == IF lastValue = NaN THEN NaN ELSE lastValue + delta IN
  /\ ~emptySplit
  /\ ~(t < lastTimestamp /\ lastTimestamp # 0)
  /\ result \in Value                          \* bound: sums stay in Number
  /\ InternalAdd(t, result, "last")

----------------------------------------------------------------------------
(***************************************************************************)
(* SeriesDelRange: TS.DEL key a b.                                         *)
(*                                                                         *)
(* The loop walks the chunks in key order.  No chunk's new key can be the  *)
(* key of another chunk (ChunksOrdered below), so the moves are stated for *)
(* all chunks at once.                                                     *)
(***************************************************************************)

\* The chunks the loop works on: it stops at the first chunk that is empty or
\* begins after b, and skips those that end before a.
Reached(b) ==
  LET stops == {j \in Keys : Timestamps(chunks[j]) = {} \/ GetFirstTimestamp(chunks[j]) > b}
  IN  {k \in Keys : \A j \in stops : k < j}

Touched(a, b) == {k \in Reached(b) : GetLastTimestamp(chunks[k]) >= a}

\* The samples deleted from the chunks K.
Deleted(K, a, b) == UNION {{k} \X {t \in Timestamps(chunks[k]) : a <= t /\ t <= b} : k \in K}

\* Mutant: a chunk is taken for the only one whenever it could be.
IsOnlyChunkAtMost(k, touched, a, b) ==
  NumOfSample(chunks[k]) + Cardinality(Deleted({j \in touched : j < k}, a, b)) <= totalSamples

\* is_only_chunk: together with what is already deleted this chunk is the
\* whole series; the last chunk of a series is emptied, never removed.
IsOnlyChunk(k, touched, a, b) ==
  NumOfSample(chunks[k]) + Cardinality(Deleted({j \in touched : j < k}, a, b)) = totalSamples

Removed(touched, a, b) ==
  {k \in touched : /\ GetFirstTimestamp(chunks[k]) >= a
                   /\ GetLastTimestamp(chunks[k]) <= b
                   /\ ~IsOnlyChunk(k, touched, a, b)}

\* What is left of chunk k, and the key it is stored under afterwards.
Remaining(k, touched, a, b) ==
  IF k \in touched THEN DelRangeOfChunk(chunks[k], a, b) ELSE chunks[k]

\* Mutant: a chunk that has lost its first sample stays where it is.
NewKeyUnmoved(k, touched, a, b) == k
NewKey(k, touched, a, b) == KeyAfter(k, chunks[k], Remaining(k, touched, a, b))

\* The surviving chunks, each with its new key.
Moved(touched, removed, a, b) ==
  {<<NewKey(k, touched, a, b), Remaining(k, touched, a, b)>> : k \in Keys \ removed}

DelRange(a, b) ==
  LET touched == Touched(a, b)
      removed == Removed(touched, a, b)
      moved   == Moved(touched, removed, a, b)
      end     == Largest({m[1] : m \in moved})
      newest  == DictOf(moved)[end]     \* the chunk with the largest key
  IN
  /\ ~emptySplit
  /\ chunks' = DictOf(moved)
  /\ totalSamples' = totalSamples - Cardinality(Deleted(touched, a, b))
  /\ lastChunk' = IF lastChunk \in removed THEN end ELSE NewKey(lastChunk, touched, a, b)
  /\ IF a <= lastTimestamp /\ lastTimestamp <= b
     THEN IF Timestamps(newest) = {}
          THEN lastTimestamp' = 0 /\ lastValue' = 0
          ELSE /\ lastTimestamp' = GetLastTimestamp(newest)
               /\ lastValue' = GetLastValue(newest)
     ELSE UNCHANGED <<lastTimestamp, lastValue>>
  /\ UNCHANGED <<config, emptySplit>>

----------------------------------------------------------------------------
(***************************************************************************)
(* TS.ALTER; existing chunks keep their size.                              *)
(***************************************************************************)
Alter ==
  /\ ~emptySplit
  /\ retentionTime' \in Retentions /\ chunkSize' \in ChunkSizes /\ duplicatePolicy' \in Policies
  /\ UNCHANGED <<chunks, lastChunk, lastTimestamp, lastValue, totalSamples, emptySplit>>

(***************************************************************************)
(* series_rdb_save followed by series_rdb_load: a restart, a replica's     *)
(* full synchronisation or DUMP and RESTORE.  The chunks are saved without *)
(* their keys and are loaded under their first timestamp.                  *)
(***************************************************************************)
Reload ==
  LET loaded == {<<GetFirstTimestamp(chunks[k]), chunks[k]>> : k \in Keys} IN
  /\ ~emptySplit
  /\ chunks' = DictOf(loaded)
  /\ lastChunk' = Largest({m[1] : m \in loaded})
  /\ UNCHANGED <<lastTimestamp, lastValue, totalSamples, config, emptySplit>>

Next ==
  \/ \E t \in Time :
       \/ \E v \in Inputs, override \in Policies : Add(t, v, override)
       \/ \E delta \in Increments : IncrBy(t, delta)
       \/ \E b \in t .. MaxTime : DelRange(t, b)
  \/ Alter
  \/ Reload
  \/ Recreate

Spec == Init /\ [][Next]_vars

----------------------------------------------------------------------------
(***************************************************************************)
(* Reading: SeriesQuery and SeriesIterator.  The iterator starts at the    *)
(* chunk found by a "<=" seek and walks the dictionary in one direction;   *)
(* SeriesSampleIterator stops at the first chunk with nothing in range,    *)
(* except that the forward iterator itself skips a chunk that ends before  *)
(* the range.                                                              *)
(***************************************************************************)
ProcessChunk(k, a, b) == {t \in Timestamps(chunks[k]) : a <= t /\ t <= b}

\* With a retention time, nothing older than the window is returned.
QueryStart(a) ==
  IF retentionTime > 0 /\ lastTimestamp > retentionTime /\ a < lastTimestamp - retentionTime
  THEN lastTimestamp - retentionTime ELSE a

\* Mutant: a chunk that ends before the range ends the query.
ForwardChunksUnskipped(a, b) ==
  {k \in Keys : /\ k >= Seek(a)
                /\ \A j \in Keys : Seek(a) <= j /\ j <= k => ProcessChunk(j, a, b) # {}}

ForwardChunks(a, b) ==
  {k \in Keys : /\ k >= Seek(a)
                /\ \A j \in Keys : Seek(a) <= j /\ j <= k =>
                     \/ ProcessChunk(j, a, b) # {}
                     \/ j < k /\ Timestamps(chunks[j]) # {} /\ GetLastTimestamp(chunks[j]) < a}

ReverseChunks(a, b) ==
  {k \in Keys : /\ k <= Seek(b)
                /\ \A j \in Keys : k <= j /\ j <= Seek(b) => ProcessChunk(j, a, b) # {}}

\* The samples behind a set of entries.
SamplesOf(E) == {<<e[2], chunks[e[1]].samples[e[2]]>> : e \in E}

SeriesRange(a, b) ==
  LET from == QueryStart(a) IN
  SamplesOf(UNION {{k} \X ProcessChunk(k, from, b) : k \in ForwardChunks(from, b)})

SeriesRevRange(a, b) ==
  LET from == QueryStart(a) IN
  SamplesOf(UNION {{k} \X ProcessChunk(k, from, b) : k \in ReverseChunks(from, b)})

----------------------------------------------------------------------------
(***************************************************************************)
(* Properties.  Each holds until a chunk of one sample is split.           *)
(***************************************************************************)

\* Type correctness of the state of a series.
TypeOK ==
  /\ chunks \in [Time -> Chunk \cup {NoChunk}]
  /\ lastChunk \in Time \cup {Detached}
  /\ lastTimestamp \in Time
  /\ lastValue \in Value
  /\ totalSamples \in Int
  /\ retentionTime \in Retentions
  /\ chunkSize \in ChunkSizes
  /\ duplicatePolicy \in Policies
  /\ emptySplit \in BOOLEAN

\* The chunks of the dictionary cover disjoint, increasing time ranges: every
\* sample lies at or after its chunk's key and before the next chunk's key.
\* Upserts, splits, TS.DEL and update_chunk_in_dict all have to keep this, and
\* the "<=" seeks of upserts and queries depend on it.
ChunksOrdered ==
  ~emptySplit => \A k \in Keys : \A t \in Timestamps(chunks[k]) :
                    /\ k <= t
                    /\ \A j \in Keys : k < j => t < j

\* A chunk is stored under its first timestamp; only the first chunk of the
\* dictionary may still be under 0 (NewSeries), which is the special case
\* update_chunk_in_dict falls back to.
KeyIsFirstTimestamp ==
  ~emptySplit => \A k \in Keys : k # 0 => k = GetFirstTimestamp(chunks[k])

\* chunk.c: "Only the first chunk can be empty since we delete empty chunks":
\* an empty chunk is the only chunk of the series, under key 0.
EmptyChunkIsOnly ==
  ~emptySplit => /\ Keys # {}
                 /\ \A k \in Keys : Timestamps(chunks[k]) = {} => Keys = {0}

\* series->lastChunk is the chunk with the largest key, the one that appends
\* and the retention rule rely on.
LastChunkIsLargest == ~emptySplit => IsLargest(Keys, lastChunk)

\* lastTimestamp and lastValue, which TS.GET answers without looking at a
\* chunk and which order every write, describe the newest stored sample.
LastSampleIsNewest ==
  ~emptySplit =>
    IF Entries = {} THEN lastTimestamp = 0 /\ lastValue = 0
    ELSE /\ IsLargest(Timestamps(chunks[lastChunk]), lastTimestamp)
         /\ lastValue = chunks[lastChunk].samples[lastTimestamp]

\* totalSamples, which decides between append and upsert and tells TS.DEL
\* which chunk is the only one, is the number of samples in the chunks.
TotalSamplesCounts == ~emptySplit => totalSamples = Cardinality(Entries)

\* TS.RANGE and TS.REVRANGE return every stored sample of the range that is in
\* the retention window, and nothing else, whichever chunk the seek finds.
QueriesComplete ==
  ~emptySplit => \A a, b \in Time :
    LET expected == SamplesOf({e \in Entries : QueryStart(a) <= e[2] /\ e[2] <= b})
    IN  SeriesRange(a, b) = expected /\ SeriesRevRange(a, b) = expected

----------------------------------------------------------------------------
(***************************************************************************)
(* What clients see: the samples of all chunks.                            *)
(***************************************************************************)
Data ==
  LET E == Entries IN
  [t \in Time |-> IF \E e \in E : e[2] = t
                  THEN chunks[(CHOOSE e \in E : e[2] = t)[1]].samples[t]
                  ELSE NoValue]

Store == INSTANCE SampleStore WITH data <- Data, retention <- retentionTime,
                                   policy <- duplicatePolicy

\* Every command is, for its clients, a step of the sample store: no append,
\* upsert, split, trim, deletion, TS.ALTER or reload loses, moves or revives a
\* sample.
ImplementsStoreStep == [][emptySplit' \/ Store!Next]_<<Data, retentionTime, duplicatePolicy>>

\* The same, also across the split of a one-sample chunk.
AlwaysImplementsStoreStep == [][Store!Next]_<<Data, retentionTime, duplicatePolicy>>
=============================================================================
