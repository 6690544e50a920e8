CONSTANTS
  Proc = {p1, p2}
  First = p1
  Main = Main
  Worker = {w1}
  NoThread = NoThread
  Detached = Detached
  Yielders = {w1}
  Joiners = {Main}
  Parkers = {w1}
  MaxOps = 2
  Spurious = FALSE
SPECIFICATION Spec
INVARIANT OneProcessor
CHECK_DEADLOCK FALSE
