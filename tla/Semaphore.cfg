CONSTANTS
  Thread = {t1, t2, t3, t4, t5}
  InitialValue = 1
  MaxValue = 3
SPECIFICATION Spec
INVARIANTS TypeOK QueueDiscipline NoLostWakeup
PROPERTY ImplementsCounting
\* All threads may end up waiting: a client that signals too little stops.
CHECK_DEADLOCK FALSE
