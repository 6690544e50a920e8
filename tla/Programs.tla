------------------------------ MODULE Programs ------------------------------
(***************************************************************************)
(* The programs written for uthread_mutex_cond.c, over Monitor, and for     *)
(* uthread_sem.c, over Semaphores, checked in one run: the first state      *)
(* chooses the program, which then runs alone.                              *)
(***************************************************************************)
EXTENDS Integers, FiniteSets

CONSTANTS
  Little, Big,     \* the people of the wells, and the producers and consumers
  MAX_OCCUPANCY, FAIR_WAITING_COUNT, MAX_ITEMS,
  NUM_ITERATIONS,     \* how often each of them comes
  SMOKE_ITERATIONS,   \* the rounds of the smokers
  Program          \* the names of the programs to check

ASSUME PeopleAssumption ==
  IsFiniteSet(Little) /\ IsFiniteSet(Big) /\ Little \cap Big = {}
ASSUME LimitAssumption ==
  /\ {MAX_OCCUPANCY, FAIR_WAITING_COUNT} \subseteq Nat \ {0}
  /\ {MAX_ITEMS, NUM_ITERATIONS, SMOKE_ITERATIONS} \subseteq Nat

VARIABLES program, g, my, pc, sem, writers, readers, lockers, rlockers, waiters

monitor == <<writers, readers, lockers, rlockers, waiters>>
vars == <<program, g, my, pc, sem, monitor>>

W == INSTANCE Well
SW == INSTANCE SolnWell
WS == INSTANCE WellSem
Pool == INSTANCE SemaphorePool WITH Producer <- Little, Consumer <- Big
S == INSTANCE Smoke WITH NUM_ITERATIONS <- SMOKE_ITERATIONS
SS == INSTANCE SolnSmoke WITH NUM_ITERATIONS <- SMOKE_ITERATIONS
SM == INSTANCE SmokeSem WITH NUM_ITERATIONS <- SMOKE_ITERATIONS
O == INSTANCE Ordering

NoSemaphores == sem = <<>>
NoMonitor == writers = {} /\ readers = {} /\ lockers = {} /\ rlockers = {} /\ waiters = <<>>

Init ==
  /\ program \in Program
  /\ CASE program = "well" -> W!Init /\ NoSemaphores
       [] program = "soln_well" -> SW!Init /\ NoSemaphores
       [] program = "smoke" -> S!Init /\ NoSemaphores
       [] program = "soln_smoke" -> SS!Init /\ NoSemaphores
       [] program = "ordering" -> O!Init /\ NoSemaphores
       [] program = "well_sem" -> WS!Init /\ NoMonitor
       [] program = "pc_sem" -> Pool!Init /\ NoMonitor
       [] program = "smoke_sem" -> SM!Init /\ NoMonitor

Is(name) == program = name /\ UNCHANGED program
WithMonitor(name) == Is(name) /\ UNCHANGED sem
WithSemaphores(name) == Is(name) /\ UNCHANGED monitor

Next ==
  \/ WithMonitor("well") /\ W!Next
  \/ WithMonitor("soln_well") /\ SW!Next
  \/ WithMonitor("smoke") /\ S!Next
  \/ WithMonitor("soln_smoke") /\ SS!Next
  \/ WithMonitor("ordering") /\ O!Next
  \/ WithSemaphores("well_sem") /\ WS!Next
  \/ WithSemaphores("pc_sem") /\ Pool!Next
  \/ WithSemaphores("smoke_sem") /\ SM!Next

\* The fairness of each program, collected by the threads that take the steps.
People(p) ==
  \/ WithMonitor("well") /\ W!person(p)
  \/ WithMonitor("soln_well") /\ SW!person(p)
  \/ WithSemaphores("well_sem") /\ WS!Step(p)
  \/ WithSemaphores("pc_sem") /\ Pool!Call(p)

Smokers(t) ==
  \/ WithMonitor("smoke") /\ t \in S!Thread /\ S!Step(t)
  \/ WithMonitor("soln_smoke") /\ t \in SS!Thread /\ SS!Step(t)
  \/ WithSemaphores("smoke_sem") /\ t \in SM!Thread /\ SM!Step(t)

\* A semaphore with a permit serves one of those who wait for it.
Served(side) ==
  \/ WithSemaphores("well_sem") /\ \E p \in side : WS!LetIn(p)
  \/ WithSemaphores("pc_sem") /\ \E p \in side : Pool!Permit(p)

Fairness ==
  /\ \A p \in Little \cup Big : WF_vars(People(p))
  /\ WF_vars(Served(Little)) /\ WF_vars(Served(Big))
  /\ WF_vars(WithSemaphores("pc_sem") /\ \E p \in Little \cup Big : Pool!EnterMutex(p))
  /\ \A t \in S!Thread \cup SS!Thread : WF_vars(Smokers(t))
  /\ \A t \in O!Thread : WF_vars(WithMonitor("ordering") /\ O!Step(t))
  /\ WF_vars(WithMonitor("ordering") /\ O!main)

Spec == Init /\ [][Next]_vars /\ Fairness
-----------------------------------------------------------------------------
\* At every well: those inside are of one kind, not too many, and the ones that it counts.
WellRule ==
  /\ program = "well" => W!WellRule
  /\ program = "soln_well" => SW!WellRule
  /\ program = "well_sem" => WS!WellRule

\* At an empty well whoever waits has been reached: somebody woken, or just come, is about to look
\* at it.  And who waits is counted as waiting where the code decides by these counts whom to
\* wake.  Nothing is said of a well with people inside: leaveWell of well.c may then signal those
\* of the other kind, who cannot enter although there is room for others.
NobodyStranded ==
  /\ program = "well" => W!NobodyStranded /\ W!QueueSizes
  /\ program = "soln_well" => SW!NobodyStranded
  /\ program = "well_sem" => WS!NobodyStranded

\* soln/well_sem.c, the one well that hands the right to enter on: while the other kind waits, it
\* does not let more of the kind inside in.  It has no fair count; well.c and soln/well.c do, and
\* promise less.
TakesTurns == [][program = "well_sem" => WS!TurnsKept]_vars

\* The three smoke programs: at the end of each round every offer was smoked by the one meant.
OffersSmoked ==
  /\ program = "smoke" => S!OffersSmoked
  /\ program = "soln_smoke" => SS!OffersSmoked
  /\ program = "smoke_sem" => SM!OffersSmoked

\* q1.c, q3.c, q4.c and test.c print in order.
PrintedInOrder == program = "ordering" => O!PrintedInOrder

\* The pools of pc_sem.c keep within their limits, and lose no slot and no item.
PermitsConserved == program = "pc_sem" => Pool!ItemsInRange /\ Pool!PermitsConserved

\* main returns, in every program: no thread waits for ever, nor polls for ever what cannot change
\* while it has the mutex, as the agent of smoke.c would.  In soln/smoke.c, where a signal that
\* comes too early is lost, it does if all others wait when the agent starts.
Termination ==
  /\ <>(CASE program = "well" -> W!Finished
          [] program = "soln_well" -> SW!Finished
          [] program = "well_sem" -> WS!Finished
          [] program = "pc_sem" -> Pool!Finished
          [] program = "smoke" -> S!Finished
          [] program = "smoke_sem" -> SM!Finished
          [] program = "ordering" -> O!Finished
          [] program = "soln_smoke" -> TRUE)
  /\ (program = "soln_smoke" /\ SS!Awaited) ~> (program = "soln_smoke" /\ SS!Ended)
=============================================================================
