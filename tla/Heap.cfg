CONSTANTS
  nbuckets = 3
  bucket_sizes = {16}
  test_heap = 128
SPECIFICATION RandomSpec
INVARIANT NoOverlap
CHECK_DEADLOCK FALSE
