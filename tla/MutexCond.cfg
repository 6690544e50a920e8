CONSTANTS
  Thread = {t1, t2, t3, t4}
  Cond = {c1, c2}
  NoThread = NoThread
SPECIFICATION Spec
INVARIANTS TypeOK MutualExclusion QueueDiscipline NoLostWakeup
PROPERTY ImplementsMonitor
\* All threads may wait for a condition that nobody is left to signal.
CHECK_DEADLOCK FALSE
