SPECIFICATION Spec
CONSTANTS
  MaxTime = 255
  Number <- Numbers
  NaN = NaN
  NoValue = NoValue
  BINW = 8
  BYTE = 1
  CMPR <- Widths
  DOUBLE_LEADING = 2
  DOUBLE_BLOCK_SIZE = 3
  CHUNK_RESIZE_STEP = 32
  SHORT = 65536
  Junk <- MCSample
  Kinds = {"regular", "compressed"}
  ChunkSizes <- MCSizes
  Sample <- MCSample
  Policies = {"block", "min"}
  Ranges <- MCRanges
INVARIANTS
  ReadsBack
  EndsExact
  RangesExact
CHECK_DEADLOCK FALSE
