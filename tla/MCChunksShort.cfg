SPECIFICATION Spec
CONSTANTS
  MaxTime = 255
  Number <- Numbers
  NaN = NaN
  NoValue = NoValue
  BINW = 8
  BYTE = 1
  CMPR <- Widths
  DOUBLE_LEADING = 2
  DOUBLE_BLOCK_SIZE = 3
  CHUNK_RESIZE_STEP = 32
  SHORT = 4
  Junk = {}
  Kinds = {"regular"}
  ChunkSizes <- ShortSizes
  Sample <- MCSample
  Policies = {"block", "min"}
  Ranges <- MCRanges
INVARIANTS
  TimestampsUnique
CHECK_DEADLOCK FALSE
