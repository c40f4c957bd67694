\* Every series of up to five (with filters: four) samples, in every division
\* into chunks.
SPECIFICATION Spec
CHECK_DEADLOCK FALSE
CONSTANTS
  MaxTime = 5
  AggTime = 4
  FilterTime = 3
  Queries <- MCQueries
  NoScope = NoScope
  Garbage = Garbage
INVARIANTS
  TypeOK
  UnreadIntact
  AnswerExact
  ChunksInDirection
PROPERTY
  QueryEnds
