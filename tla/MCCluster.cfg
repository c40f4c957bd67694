SPECIFICATION Spec
CONSTANTS
  Shard = {s1, s2}
  Me = s1
  Command = {c1}
  Query <- MCQuery
  Contents <- MCContents
  NoSeries = NoSeries
  NotSeries = NotSeries
  NoReply = NoReply
  Failed = Failed
  ChunkLen = 2
  MaxTime = 4
  MaxWrites = 1
  MaxStops = 1
INVARIANTS
  TypeOK
  RepliesAreSnapshots
  NoUseAfterFree
  PredicatesFreed
PROPERTIES
  ClientsAnswered
CHECK_DEADLOCK FALSE
