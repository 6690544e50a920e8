------------------------- MODULE CountingSemaphore -------------------------
(***************************************************************************)
(* What a client of uthread_sem.c relies on, without queues, spinlocks or   *)
(* wake-ups: a counter of permits, and the set of threads that are inside   *)
(* uthread_sem_wait because no permit was left when they came.              *)
(***************************************************************************)
EXTENDS Integers

CONSTANTS Thread, InitialValue

VARIABLES value, waiting

vars == <<value, waiting>>

Init ==
  /\ value = InitialValue
  /\ waiting = {}

Signal ==
  /\ value' = value + 1
  /\ UNCHANGED waiting

\* A thread waits only when there is no permit ...
MustWait(t) ==
  /\ t \notin waiting
  /\ value = 0
  /\ waiting' = waiting \cup {t}
  /\ UNCHANGED value

\* ... and leaves uthread_sem_wait only with one.  Any thread may be the one
\* that takes it: the promise does not order the waiters.
Take(t) ==
  /\ value > 0
  /\ value' = value - 1
  /\ waiting' = waiting \ {t}

Next ==
  \/ Signal
  \/ \E t \in Thread : MustWait(t) \/ Take(t)

\* A permit is not left lying while a thread waits for one.
TakeWaiting == \E t \in waiting : Take(t)

Spec == Init /\ [][Next]_vars /\ WF_vars(TakeWaiting)
=============================================================================
