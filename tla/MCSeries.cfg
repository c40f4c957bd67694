\* The chunks of a series: five timestamps, every sample with the same value.
\* Whether a chunk is full and how large it is after an upsert are choices, as for
\* compressed chunks; what uncompressed chunks do (full with two samples, split
\* when they have grown to three) is among them.
SPECIFICATION Spec
CONSTANTS
  MaxTime = 4
  Number = {0, 1}
  NaN = NaN
  NoValue = NoValue
  NoChunk = NoChunk
  GlobalPolicy = "block"
  Compressed = TRUE
  ChunkSizes = {2}
  Retentions = {0, 2}
  Policies = {"none", "last"}
  Inputs = {1}
  Increments = {}
INVARIANTS
  TypeOK
  ChunksOrdered
  KeyIsFirstTimestamp
  EmptyChunkIsOnly
  LastChunkIsLargest
  TotalSamplesCounts
  QueriesComplete
