CONSTANTS
  Proc = {p1, p2, p3}
  First = p1
  Main = Main
  Worker = {w1, w2}
  NoThread = NoThread
  Detached = Detached
  Yielders = {Main, w1, w2}
  Joiners = {Main, w1, w2}
  Parkers = {Main, w1, w2}
  MaxOps = 3
  Spurious = TRUE
SPECIFICATION MCSpec
ACTION_CONSTRAINT Client
SYMMETRY Symmetry
INVARIANTS TypeOK OneProcessor NoUseAfterFree JoinAfterExit ThreadConserved NoSleepOverWork
\* Threads may block with nobody left to unblock them, and in the end every processor sleeps.
CHECK_DEADLOCK FALSE
