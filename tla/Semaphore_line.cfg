CONSTANTS
  Thread = {t1, t2}
  InitialValue = 0
  MaxValue = 2
SPECIFICATION Spec
PROPERTY NoLineSkipping
CHECK_DEADLOCK FALSE
