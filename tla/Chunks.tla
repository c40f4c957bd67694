------------------------------- MODULE Chunks -------------------------------
(***************************************************************************)
(* A chunk of either kind behind the table of functions of generic_chunk.c,*)
(* against what the rest of the module takes it for: a map from timestamps *)
(* to values.                                                              *)
(*                                                                         *)
(* The series calls one function at a time; each call is one action.       *)
(* contents is the map the caller believes the chunk to hold.              *)
(***************************************************************************)
EXTENDS GorillaChunk, ArrayChunk, Functions

CONSTANTS
  Kinds,       \* the kinds of chunks checked: "regular", "compressed"
  ChunkSizes,  \* the sizes of new chunks per kind, in cells and in bytes
  Sample,      \* the samples written
  Policies,    \* the duplicate policies of upserts
  Ranges       \* the ranges deleted and read, as pairs of timestamps

VARIABLES
  kind,      \* which table of functions the series uses
  chunk,     \* the chunk
  contents   \* the samples it should hold: a function on their timestamps

vars == <<kind, chunk, contents>>

\* The samples of a map in the order of their timestamps.
InOrder(f) ==
  LET before(t) == {u \in DOMAIN f : u <= t}
      at(i) == CHOOSE t \in DOMAIN f : Cardinality(before(t)) = i
  IN [i \in 1 .. Cardinality(DOMAIN f) |-> [timestamp |-> at(i), value |-> f[at(i)]]]

----------------------------------------------------------------------------
(***************************************************************************)
(* The table of functions.                                                 *)
(***************************************************************************)
Regular == kind = "regular"

NewChunk(k, size) == IF k = "regular" THEN NewUncompressed(size) ELSE NewCompressed(size)
GetNumOfSample(c) == IF Regular THEN Len(c.samples) ELSE c.count
GetFirstTimestamp(c) ==
  IF GetNumOfSample(c) = 0 THEN 0
  ELSE IF Regular THEN c.samples[1].timestamp ELSE c.baseTimestamp
GetLastTimestamp(c) == IF Regular THEN Last(c.samples).timestamp ELSE c.prevTimestamp
\* Mutant: the cached value is the one of the first sample.
GetLastValueOfBase(c) == IF Regular THEN c.samples[1].value ELSE c.baseValue
GetLastValue(c) == IF Regular THEN Last(c.samples).value ELSE c.prevValue

AddSampleTo(c, s) == IF Regular THEN Uncompressed_AddSample(c, s) ELSE Compressed_Append(c, s)
Halves(c) == IF Regular THEN Uncompressed_SplitChunk(c) ELSE Compressed_SplitChunk(c)
DelRangeOutcomes(c, a, b) ==
  IF Regular THEN Uncompressed_DelRange(c, a, b) ELSE {Compressed_DelRange(c, a, b)}
ProcessChunk(c, a, b) ==
  IF Regular THEN Uncompressed_ProcessChunk(c, a, b) ELSE Compressed_ProcessChunk(c, a, b)
Reloaded(c) ==
  IF Regular THEN Uncompressed_Deserialize(Uncompressed_Serialize(c))
  ELSE Compressed_Deserialize(Compressed_Serialize(c))
UpsertOutcomes(c, s, policy) ==
  IF Regular THEN Uncompressed_UpsertSample(c, s, policy) ELSE {Compressed_UpsertSample(c, s, policy)}

----------------------------------------------------------------------------
Init ==
  /\ kind \in Kinds
  /\ \E size \in ChunkSizes[kind] : chunk = NewChunk(kind, size)
  /\ contents = <<>>

\* SeriesAddSample appends only samples newer than all there are.  When the
\* chunk answers CR_END the series goes on with a new one; this one stays.
AddSample(s) ==
  /\ \A t \in DOMAIN contents : t < s.timestamp
  /\ LET res == AddSampleTo(chunk, s) IN
     /\ chunk' = res.chunk
     /\ contents' = IF res.ok THEN contents @@ (s.timestamp :> s.value) ELSE contents
  /\ UNCHANGED kind

\* SeriesUpsertSample picks a chunk that has samples (a timestamp before, among
\* or behind them).  BLOCK refuses a taken timestamp.
UpsertSample(s, policy) ==
  /\ contents # <<>>
  /\ policy = "block" => s.timestamp \notin DOMAIN contents
  /\ chunk' \in UpsertOutcomes(chunk, s, policy)
  /\ contents' = IF s.timestamp \notin DOMAIN contents THEN contents @@ (s.timestamp :> s.value)
                 ELSE [contents EXCEPT ![s.timestamp] = HandleDuplicateSample(policy, @, s.value)]
  /\ UNCHANGED kind

DelRange(a, b) ==
  /\ chunk' \in DelRangeOutcomes(chunk, a, b)
  /\ contents' = Restrict(contents, {t \in DOMAIN contents : t < a \/ t > b})
  /\ UNCHANGED kind

\* The chunk keeps the larger half; the model goes on with either of them.
SplitChunk(half) ==
  /\ GetNumOfSample(chunk) >= 2
  /\ chunk' = Halves(chunk)[half]
  /\ LET n == Cardinality(DOMAIN contents)
         before(t) == {u \in DOMAIN contents : u < t}
         first == {t \in DOMAIN contents : Cardinality(before(t)) < n - n \div 2}
     IN contents' = Restrict(contents, IF half = 1 THEN first ELSE DOMAIN contents \ first)
  /\ UNCHANGED kind

\* Saved to an RDB file or a LibMR record, and read back.
Reload ==
  /\ chunk' = Reloaded(chunk)
  /\ UNCHANGED <<kind, contents>>

Next ==
  \/ \E s \in Sample : AddSample(s)
  \/ \E s \in Sample, policy \in Policies : UpsertSample(s, policy)
  \/ \E r \in Ranges : DelRange(r[1], r[2])
  \/ \E half \in 1 .. 2 : SplitChunk(half)
  \/ Reload

Spec == Init /\ [][Next]_vars

----------------------------------------------------------------------------
(***************************************************************************)
(* Properties.                                                             *)
(***************************************************************************)

\* Whatever was appended, refused for lack of space, inserted, replaced,
\* deleted, split off and reloaded before: reading a chunk from its first
\* sample on gives exactly the samples written, in the order of time.  For a
\* compressed chunk this is the round trip through the bits, for an
\* uncompressed one the order of the array.  ensureAddSample asserts that a sample
\* fits once the chunk has been enlarged; one that did not would be missing here.
ReadsBack ==
  (IF Regular THEN chunk.samples ELSE Decoded(chunk)) = InOrder(contents)

\* The numbers a series takes from its chunks without reading them (how many
\* samples, the first and the last timestamp, the last value) are those of
\* the samples, although each kind keeps them in fields of their own.
EndsExact ==
  LET s == InOrder(contents) IN
  /\ GetNumOfSample(chunk) = Len(s)
  /\ s # <<>> => /\ GetFirstTimestamp(chunk) = s[1].timestamp
                 /\ GetLastTimestamp(chunk) = Last(s).timestamp
                 /\ GetLastValue(chunk) = Last(s).value
                 /\ Regular => chunk.base_timestamp = s[1].timestamp

\* ProcessChunk, which skips to the start of a range and for a compressed chunk
\* reads four samples ahead and steps back, returns exactly the samples in
\* range.
RangesExact ==
  LET s == InOrder(contents) IN
  \A r \in Ranges :
    LET inRange(x) == r[1] <= x.timestamp /\ x.timestamp <= r[2]
    IN ProcessChunk(chunk, r[1], r[2]) = SelectSeq(s, inRange)

\* Uncompressed_UpsertSample looks for the timestamp first ("update value in
\* case timestamp exists"), so no timestamp is stored twice.  The search stops
\* at the number of samples kept in a short.
TimestampsUnique ==
  Regular => \A i, j \in DOMAIN chunk.samples :
               chunk.samples[i].timestamp = chunk.samples[j].timestamp => i = j
=============================================================================
