CONSTANTS
  MemSize = 40000
  subjects = {"machine", "heap", "elements", "lists", "binary"}
  digits = {0, 1, 2, 6, 8, 15}
  longest = 150
  nbuckets = 3
  bucket_sizes = {0, 8, 12, 16}
  test_heap = 128
  MaxElements = 2
  MaxNodes = 3
  values = {1, 2}
  INITIAL_SIZE = 1
  GROWTH_FACTOR = 2
  Element = {0, 1}
  Lists = {l0, l1, l2}
  MaxLen = 3
  MaxArgs = 4
SYMMETRY Symmetric
SPECIFICATION SuiteSpec
INVARIANTS MachinesAgree ResultsRight AllocationsLegal CountsExact KeptInOrder InsideArray
PROPERTY ActsAsSequence
\* The machines halt, tests of the heap and the arguments end, and deleted lists stay deleted.
CHECK_DEADLOCK FALSE
