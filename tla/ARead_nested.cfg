CONSTANTS
  Buffer = {"result"}
  MaxDepth = 2
  num_blocks = 2
SPECIFICATION Spec
INVARIANT SumCorrect
\* Nested handlers may wait for each other, which is not the question of this run.
CHECK_DEADLOCK FALSE
