\* Values and policies: four timestamps, chunks of one sample, NaN and
\* numbers, TS.ALTER of every setting.
SPECIFICATION Spec
CONSTANTS
  MaxTime = 3
  Number = {0, 1, 2}
  NaN = NaN
  NoValue = NoValue
  NoChunk = NoChunk
  GlobalPolicy = "block"
  Compressed = FALSE
  ChunkSizes = {1}
  Retentions = {0, 1}
  Policies = {"none", "last", "max"}
  Inputs = {1, NaN}
  Increments = {1}
INVARIANTS
  LastSampleIsNewest
PROPERTY
  ImplementsStoreStep
