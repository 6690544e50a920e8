CONSTANTS
  Producer = {a1, a2}
  Consumer = {b1, b2}
  MAX_ITEMS = 2
  NUM_ITERATIONS = 3
SPECIFICATION Spec
INVARIANTS ItemsInRange NoLostSignal
PROPERTY Termination
\* The program ends; Termination says that it does not stop before.
CHECK_DEADLOCK FALSE
