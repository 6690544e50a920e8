CONSTANTS
  Buffer = {"result", "t0", "t1", "t2"}
  MaxDepth = 1
  num_blocks = 3
  client_names = {"aRead", "sRead", "treasureHunt", "tRead"}
  starting_blocks = {13, 17}
  reader <- Readers
SPECIFICATION SuiteSpec
INVARIANTS LockMasked EntryFound SummedInOrder TreasureFound WakeUpKept
PROPERTY ProgramEnds
\* The programs end; ProgramEnds says that they do not stop before.
CHECK_DEADLOCK FALSE
