-------------------------- MODULE ProducerConsumer --------------------------
(***************************************************************************)
(* pc.c: producers and consumers count items up and down under a mutex with *)
(* two conditions.  The mutex and the conditions are a Monitor, which       *)
(* MutexCond implements; a step of the program is a step of the Monitor.    *)
(***************************************************************************)
EXTENDS Integers, FiniteSets

CONSTANTS Producer, Consumer, MAX_ITEMS, NUM_ITERATIONS

ASSUME ThreadAssumption ==
  IsFiniteSet(Producer) /\ IsFiniteSet(Consumer) /\ Producer \cap Consumer = {}
ASSUME LimitAssumption == MAX_ITEMS \in Nat \ {0} /\ NUM_ITERATIONS \in Nat

VARIABLES
  items,
  i,     \* the loop counter of each thread
  pc,    \* where it is: outside, between lock and the change of items, before unlock
  writers, readers, lockers, rlockers, waiters

monitor == <<writers, readers, lockers, rlockers, waiters>>
vars == <<items, i, pc, monitor>>

Thread == Producer \cup Consumer
Cond == {"MAX", "MIN"}

mx == INSTANCE Monitor

TypeOK ==
  /\ items \in Int
  /\ i \in [Thread -> 0 .. NUM_ITERATIONS]
  /\ pc \in [Thread -> {"outside", "test", "unlock"}]
  /\ writers \in SUBSET Thread /\ lockers \in SUBSET Thread
  /\ readers = {} /\ rlockers = {}
  /\ waiters \in [Cond -> SUBSET Thread]

Init ==
  /\ items = 0
  /\ i = [t \in Thread |-> 0]
  /\ pc = [t \in Thread |-> "outside"]
  /\ mx!Init

Go(t, place) == pc' = [pc EXCEPT ![t] = place]

Lock(t) ==
  /\ pc[t] = "outside"
  /\ i[t] < NUM_ITERATIONS
  /\ mx!Await(t)
  /\ Go(t, "test")
  /\ UNCHANGED <<items, i>>

\* A thread inside uthread_mutex_lock, or woken in uthread_cond_wait, gets the mutex.
Locked(t) ==
  /\ t \in lockers
  /\ mx!Acquire(t)
  /\ UNCHANGED <<items, i, pc>>

\* Mistake: off by one.
Full_OffByOne == items > MAX_ITEMS

Full == items >= MAX_ITEMS
Empty == items =< 0

\* The while loop of each: the condition is tested with the mutex held.
WaitMax(t) ==
  /\ t \in Producer \cap writers /\ pc[t] = "test"
  /\ Full
  /\ mx!Wait(t, "MAX")
  /\ UNCHANGED <<items, i, pc>>

WaitMin(t) ==
  /\ t \in Consumer \cap writers /\ pc[t] = "test"
  /\ Empty
  /\ mx!Wait(t, "MIN")
  /\ UNCHANGED <<items, i, pc>>

\* Mistake: signals the wrong condition.
Produce_SignalMax(t) ==
  /\ t \in Producer \cap writers /\ pc[t] = "test"
  /\ ~Full
  /\ items' = items + 1
  /\ mx!Signal(t, "MAX")
  /\ Go(t, "unlock")
  /\ UNCHANGED i

Produce(t) ==
  /\ t \in Producer \cap writers /\ pc[t] = "test"
  /\ ~Full
  /\ items' = items + 1
  /\ mx!Signal(t, "MIN")
  /\ Go(t, "unlock")
  /\ UNCHANGED i

\* Mistake: signals only when the list was full.
Consume_SignalFull(t) ==
  /\ t \in Consumer \cap writers /\ pc[t] = "test"
  /\ ~Empty
  /\ items' = items - 1
  /\ IF items = MAX_ITEMS THEN mx!Signal(t, "MAX") ELSE UNCHANGED monitor
  /\ Go(t, "unlock")
  /\ UNCHANGED i

Consume(t) ==
  /\ t \in Consumer \cap writers /\ pc[t] = "test"
  /\ ~Empty
  /\ items' = items - 1
  /\ mx!Signal(t, "MAX")
  /\ Go(t, "unlock")
  /\ UNCHANGED i

Unlock(t) ==
  /\ pc[t] = "unlock"
  /\ mx!Release(t)
  /\ i' = [i EXCEPT ![t] = @ + 1]
  /\ Go(t, "outside")
  /\ UNCHANGED items

Step(t) ==
  Lock(t) \/ WaitMax(t) \/ WaitMin(t) \/ Produce(t) \/ Consume(t) \/ Unlock(t)

Finished == \A t \in Thread : i[t] = NUM_ITERATIONS

Next == \E t \in Thread : Step(t) \/ Locked(t)

\* A running thread takes its next step; the monitor promises that a free mutex is taken,
\* not by whom.
Fairness ==
  (\A t \in Thread : WF_vars(Step(t))) /\ WF_vars(\E t \in Thread : Locked(t))

Spec == Init /\ [][Next]_vars /\ Fairness
-----------------------------------------------------------------------------
\* The assert of producer and consumer, at every moment.
ItemsInRange == items \in 0 .. MAX_ITEMS

\* Threads that are going to test their loop condition.
Coming(threads) == {t \in threads : pc[t] = "test" /\ t \in lockers \cup writers}

\* While producers wait, each free slot is matched by a producer on its way to look at it,
\* and while consumers wait, each item by a consumer: one signal for each change is enough,
\* though late comers take slots and items from the threads that were woken.
NoLostSignal ==
  /\ waiters["MAX"] # {} => MAX_ITEMS - items =< Cardinality(Coming(Producer))
  /\ waiters["MIN"] # {} => items =< Cardinality(Coming(Consumer))

\* main, which joins every thread, returns: with as many producers as consumers, nobody is left waiting.
Termination == <>Finished
=============================================================================
