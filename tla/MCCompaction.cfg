\* Four buckets of two timestamps, the first one cut off by the alignment; a
\* retention window of two buckets.
SPECIFICATION Spec
CONSTANTS
  MaxTime = 5
  Number = {0, 1}
  NaN = NaN
  NoValue = NoValue
  Twice = Twice
  Inputs = {0, 1}
  Retention = 4
  BucketDuration = 2
  Alignment = 1
CONSTRAINT OnCourse
INVARIANTS
  TypeOK
  ClosedBucketsExact
  LatestBucketExact
  CompactedSamplesClosed
