\* Six timestamps in buckets of 1, 2, 3 and 6, and up to half of Word with durations
\* up to 15; four series to merge.  The largest
\* double is 5, so that two values of 4 overflow.
SPECIFICATION Spec
CONSTANTS
  NaN = NaN
  DBL_MAX = 5
  VECTOR = 2
  Word = 32
  MaxTime = 15
  Queries <- MCQueries
  NoQuery = NoQuery
  RuleTime = 4
  Values <- MCValues
  RuleAggs = {"min", "max", "sum", "avg", "twa", "var.p", "var.s", "count", "first", "last", "range"}
  Duration = 3
  Alignment = 1
  NoRule = NoRule
  Requests <- MCRequests
  Labels <- MCLabels
  NoLabel = NoLabel
  NoRequest = NoRequest
  EndOfSeries = EndOfSeries
INVARIANTS
  TypeOK
  AnswerIsAggregate
  EmptyBucketsExist
  RollupsExact
  LatestExact
  AverageFits
  GroupsExact
CHECK_DEADLOCK FALSE
