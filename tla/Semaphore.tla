----------------------------- MODULE Semaphore -----------------------------
(***************************************************************************)
(* One semaphore of uthread_sem.c and the threads that use it.              *)
(*                                                                         *)
(* A section between spinlock_lock and spinlock_unlock is one step.         *)
(* uthread_block and uthread_unblock are the promise of the scheduler: a    *)
(* thread that was unblocked is on the ready queue (`ready'), possibly      *)
(* before it has come to block, and uthread_block returns once it is taken  *)
(* from there.                                                             *)
(***************************************************************************)
EXTENDS Integers, UThreadQueue

CONSTANTS
  Thread,        \* the threads that share the semaphore
  InitialValue,  \* the argument of uthread_sem_create
  MaxValue       \* the largest value of the C type int

ASSUME ThreadAssumption == IsFiniteSet(Thread)
ASSUME ValueAssumption == MaxValue \in Nat /\ InitialValue \in 0 .. MaxValue

VARIABLES
  value, waiter_queue,  \* struct uthread_sem
  pc,                   \* where each thread is with respect to the semaphore
  ready                 \* threads unblocked that have not resumed yet

vars == <<value, waiter_queue, pc, ready>>

\* "user":    outside uthread_sem_wait
\* "blocked": between the spinlock_unlock in the loop and the end of uthread_block
\* "retry":   back from uthread_block, about to test the loop condition again
TypeOK ==
  /\ value \in 0 .. MaxValue
  /\ waiter_queue \in Seq(Thread)
  /\ pc \in [Thread -> {"user", "blocked", "retry"}]
  /\ ready \in SUBSET Thread

Init ==
  /\ value = InitialValue
  /\ waiter_queue = uthread_initqueue
  /\ pc = [t \in Thread |-> "user"]
  /\ ready = {}

\* Mistake: off by one.
NoPermit_OffByOne == value < 0

NoPermit == value < 1

\* One turn of the loop of uthread_sem_wait under the spinlock, from its first
\* spinlock_lock or from the one after uthread_block: queue up and block ...
QueueUp(t) ==
  /\ NoPermit
  /\ waiter_queue' = uthread_enqueue(waiter_queue, t)
  /\ pc' = [pc EXCEPT ![t] = "blocked"]
  /\ UNCHANGED <<value, ready>>

\* ... or leave the loop with a permit.
TakePermit(t) ==
  /\ ~NoPermit
  /\ value' = value - 1
  /\ pc' = [pc EXCEPT ![t] = "user"]
  /\ UNCHANGED <<waiter_queue, ready>>

uthread_sem_wait(t) ==
  /\ pc[t] = "user"
  /\ QueueUp(t) \/ TakePermit(t)

\* uthread_block returns: the scheduler has taken t from the ready queue.
Resume(t) ==
  /\ pc[t] = "blocked"
  /\ t \in ready
  /\ ready' = ready \ {t}
  /\ pc' = [pc EXCEPT ![t] = "retry"]
  /\ UNCHANGED <<value, waiter_queue>>

\* Mistake: `if' instead of `while', the value is not tested again.
Retry_NoTest(t) ==
  /\ pc[t] = "retry"
  /\ value' = value - 1
  /\ pc' = [pc EXCEPT ![t] = "user"]
  /\ UNCHANGED <<waiter_queue, ready>>

Retry(t) ==
  /\ pc[t] = "retry"
  /\ QueueUp(t) \/ TakePermit(t)

\* Mistake: all waiters are unblocked and one is dequeued.
WakeOne_All ==
  /\ ready' = ready \cup Queued(waiter_queue)
  /\ waiter_queue' = Dequeued(waiter_queue)

\* Mistake: a waiter is woken only by the signal that makes the value positive.
WakeOne_First ==
  IF value = 0
  THEN /\ ready' = ready \cup uthread_dequeue(waiter_queue)
       /\ waiter_queue' = Dequeued(waiter_queue)
  ELSE UNCHANGED <<ready, waiter_queue>>

\* uthread_sem_signal unblocks the first waiter, if there is one.
WakeOne ==
  /\ ready' = ready \cup uthread_dequeue(waiter_queue)
  /\ waiter_queue' = Dequeued(waiter_queue)

uthread_sem_signal(t) ==
  /\ pc[t] = "user"
  /\ value < MaxValue
  /\ value' = value + 1
  /\ WakeOne
  /\ UNCHANGED pc

Next ==
  \E t \in Thread :
    uthread_sem_wait(t) \/ Resume(t) \/ Retry(t) \/ uthread_sem_signal(t)

\* The scheduler takes every thread from its FIFO ready queue, and a thread
\* that is running takes its next step.  No thread has to call anything.
Fairness ==
  \A t \in Thread : WF_vars(Resume(t)) /\ WF_vars(Retry(t))

Spec == Init /\ [][Next]_vars /\ Fairness
-----------------------------------------------------------------------------
\* Threads that have been unblocked and have not tested the value again.
Pending == ready \cup {t \in Thread : pc[t] = "retry"}

\* A thread that blocked is in exactly one queue, the semaphore's or the ready
\* queue, once, and no other thread is in either: the "already enqueued!" return
\* of uthread_enqueue drops no thread and no thread is unblocked twice
\* (uthread_sem_wait, uthread_sem_signal).
QueueDiscipline ==
  /\ NoDuplicates(waiter_queue)
  /\ Queued(waiter_queue) \cap ready = {}
  /\ Queued(waiter_queue) \cup ready = {t \in Thread : pc[t] = "blocked"}

\* While threads wait in the queue, every permit is matched by a thread that has
\* been unblocked and is still on its way to test the value: a permit taken by
\* a thread that never waited, or two signals in a row, lose no wake-up
\* (uthread_sem_signal dequeues at every signal, not only when value was 0).
NoLostWakeup ==
  waiter_queue # <<>> => value =< Cardinality(Pending)

\* No permit is left while a thread waits, and nothing but a permit lets a thread
\* out of uthread_sem_wait: the semaphore implements CountingSemaphore.
Counting == INSTANCE CountingSemaphore
  WITH waiting <- {t \in Thread : pc[t] # "user"}

ImplementsCounting == Counting!Spec

\* BONUS.txt: the internal queue of a semaphore keeps the position of the threads,
\* so that nobody skips the line: a thread that comes new does not take a permit
\* while another thread is waiting (uthread_sem_wait).
NoLineSkipping ==
  [][value' < value /\ UNCHANGED pc => \A t \in Thread : pc[t] = "user"]_vars
=============================================================================
