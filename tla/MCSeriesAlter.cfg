\* TS.ALTER CHUNK_SIZE to a smaller size, followed by an upsert.
SPECIFICATION Spec
CONSTANTS
  MaxTime = 2
  Number = {0, 1}
  NaN = NaN
  NoValue = NoValue
  NoChunk = NoChunk
  GlobalPolicy = "block"
  Compressed = FALSE
  ChunkSizes = {3, 4}
  Retentions = {0}
  Policies = {"none"}
  Inputs = {1}
  Increments = {}
PROPERTY
  AlwaysImplementsStoreStep
