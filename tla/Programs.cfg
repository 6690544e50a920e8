CONSTANTS
  Little = {a1, a2, a3}
  Big = {b1, b2}
  MAX_OCCUPANCY = 2
  FAIR_WAITING_COUNT = 2
  MAX_ITEMS = 2
  NUM_ITERATIONS = 2
  SMOKE_ITERATIONS = 3
  Program = {"well", "soln_well", "well_sem", "pc_sem", "smoke", "soln_smoke", "smoke_sem", "ordering"}
SPECIFICATION Spec
INVARIANTS WellRule NobodyStranded OffersSmoked PrintedInOrder PermitsConserved
PROPERTIES TakesTurns Termination
\* The programs end; Termination says that they do not stop before.
CHECK_DEADLOCK FALSE
