--------------------------- MODULE SemaphorePool ---------------------------
(***************************************************************************)
(* pc_sem.c and soln/pc_sem.c: producers and consumers with one semaphore   *)
(* for free slots, one for items and one as a mutex.  The programs differ   *)
(* in one place: pc_sem.c signals the change before it releases the mutex,  *)
(* soln/pc_sem.c afterwards.                                                *)
(***************************************************************************)
EXTENDS Integers, FiniteSets

CONSTANTS Producer, Consumer, MAX_ITEMS, NUM_ITERATIONS

VARIABLES
  g,    \* items, and which of the two programs this is (inside: pc_sem.c)
  my,   \* the loop counter of each thread
  pc,   \* the call each thread is in or comes to next
  sem

vars == <<g, my, pc, sem>>

Thread == Producer \cup Consumer

INSTANCE Semaphores

Init ==
  /\ \E inside \in BOOLEAN : g = [items |-> 0, inside |-> inside]
  /\ my = [t \in Thread |-> 0]
  /\ pc = [t \in Thread |-> "permit"]
  /\ sem = [max |-> MAX_ITEMS, count |-> 0, mutex |-> 1]

At(threads, places) == {t \in threads : pc[t] \in places}
Go(t, place) == pc' = [pc EXCEPT ![t] = place]

\* The first uthread_sem_wait of an iteration: on max by a producer, on count by a consumer.
Permit(t) ==
  /\ pc[t] = "permit" /\ my[t] < NUM_ITERATIONS
  /\ P(IF t \in Producer THEN "max" ELSE "count")
  /\ Go(t, "mutex")
  /\ UNCHANGED <<g, my>>

EnterMutex(t) ==
  /\ pc[t] = "mutex"
  /\ P("mutex")
  /\ Go(t, "change")
  /\ UNCHANGED <<g, my>>

Change(t) ==
  /\ pc[t] = "change"
  /\ g' = [g EXCEPT !.items = IF t \in Producer THEN @ + 1 ELSE @ - 1]
  /\ Go(t, IF g.inside THEN "signal_in" ELSE "leave")
  /\ UNCHANGED <<my, sem>>

NextIteration(t) == my' = [my EXCEPT ![t] = @ + 1]

\* Mistake: a consumer returns its permit to the semaphore it took it from.
SignalChange_SameSide(t) ==
  \/ pc[t] = "signal_in" /\ V("count") /\ Go(t, "leave") /\ UNCHANGED <<g, my>>
  \/ pc[t] = "signal_out" /\ V("count") /\ Go(t, "permit") /\ NextIteration(t) /\ UNCHANGED g

\* A producer signals count, a consumer max: inside the mutex or at the end of the iteration.
SignalChange(t) ==
  /\ V(IF t \in Producer THEN "count" ELSE "max")
  /\ \/ pc[t] = "signal_in" /\ Go(t, "leave") /\ UNCHANGED <<g, my>>
     \/ pc[t] = "signal_out" /\ Go(t, "permit") /\ NextIteration(t) /\ UNCHANGED g

LeaveMutex(t) ==
  /\ pc[t] = "leave"
  /\ V("mutex")
  /\ IF g.inside THEN Go(t, "permit") /\ NextIteration(t) ELSE Go(t, "signal_out") /\ UNCHANGED my
  /\ UNCHANGED g

Call(t) == Change(t) \/ SignalChange(t) \/ LeaveMutex(t)

Finished == \A t \in Thread : my[t] = NUM_ITERATIONS

Next == \E t \in Thread : Permit(t) \/ EnterMutex(t) \/ Call(t)

\* A running thread takes its next step, and a semaphore with a permit lets some thread have it.
Fairness ==
  /\ \A t \in Thread : WF_vars(Call(t))
  /\ WF_vars(\E t \in Producer : Permit(t)) /\ WF_vars(\E t \in Consumer : Permit(t))
  /\ WF_vars(\E t \in Thread : EnterMutex(t))

Spec == Init /\ [][Next]_vars /\ Fairness
-----------------------------------------------------------------------------
\* The asserts of producer and consumer hold at every moment, and one thread at a time
\* changes items and the histogram.
ItemsInRange ==
  /\ g.items \in 0 .. MAX_ITEMS
  /\ Cardinality(At(Thread, {"change", "signal_in", "leave"})) =< 1

\* A thread between its wait and its signal accounts for one slot or item.
Slots ==
  sem.max + Cardinality(At(Producer, {"mutex", "change"})) + g.items
          + Cardinality(At(Consumer, IF g.inside THEN {"signal_in"} ELSE {"leave", "signal_out"}))
Items ==
  sem.count + Cardinality(At(Consumer, {"mutex", "change"}))
            + Cardinality(At(Producer, IF g.inside THEN {"signal_in"} ELSE {"leave", "signal_out"}))

\* No slot and no item is lost or handed out twice, wherever the threads are between their
\* calls: what the semaphores count and what the threads hold adds up.
PermitsConserved == Slots = MAX_ITEMS /\ Items = g.items
=============================================================================
