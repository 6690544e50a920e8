CONSTANTS
  Proc = {p1, p2}
  First = p1
  Main = Main
  Worker = {w1, w2}
  NoThread = NoThread
  Detached = Detached
  Yielders = {w1, w2}
  Joiners = {Main}
  Parkers = {}
  MaxOps = 1
  Spurious = FALSE
SPECIFICATION Spec
PROPERTIES JoinReturns Reclaimed
\* In the end all processors but the one of main sleep, and main has returned.
CHECK_DEADLOCK FALSE
