-------------------------- MODULE SemaphoreProofs --------------------------
(***************************************************************************)
(* The invariants of Semaphore for every set of threads, every initial      *)
(* value and every int range.                                              *)
(***************************************************************************)
EXTENDS Semaphore, ProofLemmas, FiniteSetTheorems, TLAPS

(***************************************************************************)
(* Types                                                                   *)
(***************************************************************************)
\* The value never leaves the range of a non-negative int and the queue holds
\* threads only (uthread_sem_wait, uthread_sem_signal).
THEOREM TypeCorrect == Spec => []TypeOK
<1>1. Init => TypeOK
  BY ValueAssumption DEF Init, TypeOK, uthread_initqueue
<1>2. TypeOK /\ [Next]_vars => TypeOK'
  <2> SUFFICES ASSUME TypeOK, [Next]_vars PROVE TypeOK'
    OBVIOUS
  <2> USE ValueAssumption DEF TypeOK
  <2>1. ASSUME NEW t \in Thread, QueueUp(t) PROVE TypeOK'
    BY <2>1, EnqueueType DEF QueueUp
  <2>2. ASSUME NEW t \in Thread, TakePermit(t) PROVE TypeOK'
    BY <2>2 DEF TakePermit, NoPermit
  <2>3. ASSUME NEW t \in Thread, uthread_sem_wait(t) PROVE TypeOK'
    BY <2>1, <2>2, <2>3 DEF uthread_sem_wait
  <2>4. ASSUME NEW t \in Thread, Resume(t) PROVE TypeOK'
    BY <2>4 DEF Resume
  <2>5. ASSUME NEW t \in Thread, Retry(t) PROVE TypeOK'
    BY <2>1, <2>2, <2>5 DEF Retry
  <2>6. ASSUME NEW t \in Thread, uthread_sem_signal(t) PROVE TypeOK'
    BY <2>6, DequeueType DEF uthread_sem_signal, WakeOne
  <2>7. CASE UNCHANGED vars
    BY <2>7 DEF vars
  <2> QED
    BY <2>3, <2>4, <2>5, <2>6, <2>7 DEF Next
<1> QED
  BY <1>1, <1>2, PTL DEF Spec

(***************************************************************************)
(* Every blocked thread is in one queue                                    *)
(***************************************************************************)
\* A thread that blocked is in the waiter queue or the ready queue, once and not
\* in both (uthread_sem_wait, uthread_sem_signal).
THEOREM DisciplineHolds == Spec => []QueueDiscipline
<1>1. Init => QueueDiscipline
  BY DEF Init, QueueDiscipline, uthread_initqueue, NoDuplicates, Queued
<1>2. TypeOK /\ QueueDiscipline /\ [Next]_vars => QueueDiscipline'
  <2> SUFFICES ASSUME TypeOK, QueueDiscipline, [Next]_vars
               PROVE  QueueDiscipline'
    OBVIOUS
  <2>1. ASSUME NEW t \in Thread, pc[t] # "blocked", QueueUp(t)
        PROVE  QueueDiscipline'
    <3>1. t \notin Queued(waiter_queue)
      BY <2>1 DEF QueueDiscipline
    <3>2. /\ Queued(waiter_queue') = Queued(waiter_queue) \cup {t}
          /\ NoDuplicates(waiter_queue')
      BY <2>1, <3>1, EnqueueSet, EnqueueNoDuplicates
      DEF QueueUp, TypeOK, QueueDiscipline
    <3>3. {u \in Thread : pc'[u] = "blocked"}
            = {u \in Thread : pc[u] = "blocked"} \cup {t}
      BY <2>1 DEF QueueUp, TypeOK
    <3> QED
      BY <2>1, <3>2, <3>3 DEF QueueDiscipline, QueueUp
  <2>2. ASSUME NEW t \in Thread, pc[t] # "blocked", TakePermit(t)
        PROVE  QueueDiscipline'
    BY <2>2 DEF TakePermit, TypeOK, QueueDiscipline
  <2>3. ASSUME NEW t \in Thread, uthread_sem_wait(t) PROVE QueueDiscipline'
    BY <2>1, <2>2, <2>3 DEF uthread_sem_wait
  <2>4. ASSUME NEW t \in Thread, Resume(t) PROVE QueueDiscipline'
    <3>1. {u \in Thread : pc'[u] = "blocked"}
            = {u \in Thread : pc[u] = "blocked"} \ {t}
      BY <2>4 DEF Resume, TypeOK
    <3> QED
      BY <2>4, <3>1 DEF Resume, QueueDiscipline
  <2>5. ASSUME NEW t \in Thread, Retry(t) PROVE QueueDiscipline'
    BY <2>1, <2>2, <2>5 DEF Retry
  <2>6. ASSUME NEW t \in Thread, uthread_sem_signal(t) PROVE QueueDiscipline'
    <3>1. /\ NoDuplicates(waiter_queue')
          /\ Queued(waiter_queue') = Queued(waiter_queue) \ uthread_dequeue(waiter_queue)
          /\ uthread_dequeue(waiter_queue) \subseteq Queued(waiter_queue)
      BY <2>6, DequeueSet DEF uthread_sem_signal, WakeOne, TypeOK, QueueDiscipline
    <3> QED
      BY <2>6, <3>1 DEF uthread_sem_signal, WakeOne, QueueDiscipline
  <2>7. CASE UNCHANGED vars
    BY <2>7 DEF vars, QueueDiscipline
  <2> QED
    BY <2>3, <2>4, <2>5, <2>6, <2>7 DEF Next
<1> QED
  BY <1>1, <1>2, TypeCorrect, PTL DEF Spec

(***************************************************************************)
(* No lost wake-up                                                         *)
(***************************************************************************)
\* The types and the queue discipline, together: what the proof needs of every
\* reachable state.
Shape == TypeOK /\ QueueDiscipline

\* While threads are queued there are at least as many woken threads under way as
\* there are permits (uthread_sem_signal wakes one thread for every permit).  With
\* Shape the property is inductive: a permit is added together with a woken thread,
\* and a woken thread that tests the value takes a permit or finds none.
THEOREM NoWakeupLost == Spec => []NoLostWakeup
<1>1. Init => NoLostWakeup
  BY DEF Init, NoLostWakeup, uthread_initqueue
<1>2. Shape /\ Shape' /\ NoLostWakeup /\ [Next]_vars => NoLostWakeup'
  <2> SUFFICES ASSUME Shape, Shape', NoLostWakeup, [Next]_vars
               PROVE  NoLostWakeup'
    OBVIOUS
  <2>0. /\ IsFiniteSet(Pending) /\ IsFiniteSet(Pending')
        /\ Cardinality(Pending) \in Nat /\ Cardinality(Pending') \in Nat
        /\ value \in Nat /\ value' \in Nat
    <3>1. Pending \subseteq Thread /\ Pending' \subseteq Thread
      BY DEF Shape, TypeOK, Pending
    <3>2. IsFiniteSet(Pending) /\ IsFiniteSet(Pending')
      BY <3>1, FS_Subset, ThreadAssumption
    <3>3. Cardinality(Pending) \in Nat /\ Cardinality(Pending') \in Nat
      BY <3>2, FS_CardinalityType
    <3> QED
      BY <3>2, <3>3, ValueAssumption DEF Shape, TypeOK
  <2>1. ASSUME NEW t \in Thread, pc[t] # "blocked", QueueUp(t)
        PROVE  NoLostWakeup'
    BY <2>0, <2>1 DEF QueueUp, NoPermit, NoLostWakeup
  <2>2. ASSUME NEW t \in Thread, uthread_sem_wait(t) PROVE NoLostWakeup'
    <3>1. CASE QueueUp(t)
      BY <2>1, <2>2, <3>1 DEF uthread_sem_wait
    <3>2. CASE TakePermit(t)
      <4>1. Pending' = Pending
        BY <2>2, <3>2 DEF uthread_sem_wait, TakePermit, Pending, Shape, TypeOK
      <4> QED
        BY <2>0, <3>2, <4>1 DEF TakePermit, NoLostWakeup
    <3> QED
      BY <2>2, <3>1, <3>2 DEF uthread_sem_wait
  <2>3. ASSUME NEW t \in Thread, Resume(t) PROVE NoLostWakeup'
    <3>1. Pending' = Pending
      BY <2>3 DEF Resume, Pending, Shape, TypeOK
    <3> QED
      BY <2>3, <3>1 DEF Resume, NoLostWakeup
  <2>4. ASSUME NEW t \in Thread, Retry(t) PROVE NoLostWakeup'
    <3>1. CASE QueueUp(t)
      BY <2>1, <2>4, <3>1 DEF Retry
    <3>2. CASE TakePermit(t)
      <4>1. t \in Pending /\ t \notin ready
        BY <2>4 DEF Retry, Pending, Shape, QueueDiscipline
      <4>2. Pending' = Pending \ {t}
        BY <3>2, <4>1 DEF TakePermit, Pending, Shape, TypeOK
      <4>3. Cardinality(Pending') = Cardinality(Pending) - 1
        BY <2>0, <4>1, <4>2, FS_RemoveElement
      <4> QED
        BY <2>0, <3>2, <4>3 DEF TakePermit, NoLostWakeup
    <3> QED
      BY <2>4, <3>1, <3>2 DEF Retry
  <2>5. ASSUME NEW t \in Thread, uthread_sem_signal(t) PROVE NoLostWakeup'
    <3>1. CASE waiter_queue = <<>>
      BY <2>5, <3>1 DEF uthread_sem_signal, WakeOne, Dequeued, NoLostWakeup
    <3>2. CASE waiter_queue # <<>>
      <4> DEFINE w == Head(waiter_queue)
      <4>1. uthread_dequeue(waiter_queue) = {w} /\ w \in Queued(waiter_queue)
        BY <3>2, DequeueSet DEF uthread_dequeue, Shape, TypeOK, QueueDiscipline
      <4>2. w \notin Pending
        BY <4>1 DEF Pending, Shape, QueueDiscipline
      <4>3. Pending' = Pending \cup {w}
        BY <2>5, <4>1 DEF uthread_sem_signal, WakeOne, Pending
      <4>4. Cardinality(Pending') = Cardinality(Pending) + 1
        BY <2>0, <4>2, <4>3, FS_AddElement
      <4> QED
        BY <2>0, <2>5, <3>2, <4>4 DEF uthread_sem_signal, NoLostWakeup
    <3> QED
      BY <3>1, <3>2
  <2>6. CASE UNCHANGED vars
    BY <2>6 DEF vars, NoLostWakeup, Pending
  <2> QED
    BY <2>2, <2>3, <2>4, <2>5, <2>6 DEF Next
<1>3. Spec => []Shape
  BY TypeCorrect, DisciplineHolds, PTL DEF Shape
<1> QED
  BY <1>1, <1>2, <1>3, PTL DEF Spec

(***************************************************************************)
(* The semaphore implements CountingSemaphore, safety part                 *)
(***************************************************************************)
\* Every step of uthread_sem_wait and uthread_sem_signal is a step of the counting
\* semaphore or changes neither the value nor who waits.
THEOREM ImplementsCountingSafety == Spec => Counting!Init /\ [][Counting!Next]_(Counting!vars)
<1>1. Init => Counting!Init
  BY DEF Init, Counting!Init
<1>2. TypeOK /\ [Next]_vars => [Counting!Next]_(Counting!vars)
  <2> SUFFICES ASSUME TypeOK, [Next]_vars
               PROVE  [Counting!Next]_(Counting!vars)
    OBVIOUS
  <2> DEFINE waiting == {u \in Thread : pc[u] # "user"}
  <2>1. ASSUME NEW t \in Thread, uthread_sem_wait(t)
        PROVE  Counting!MustWait(t) \/ Counting!Take(t)
    <3>1. CASE QueueUp(t)
      <4>1. t \notin waiting /\ waiting' = waiting \cup {t} /\ value = 0
        BY <2>1, <3>1, ValueAssumption DEF uthread_sem_wait, QueueUp, NoPermit, TypeOK
      <4> QED
        BY <3>1, <4>1 DEF QueueUp, Counting!MustWait
    <3>2. CASE TakePermit(t)
      <4>1. waiting' = waiting \ {t} /\ value > 0
        BY <2>1, <3>2, ValueAssumption DEF uthread_sem_wait, TakePermit, NoPermit, TypeOK
      <4> QED
        BY <3>2, <4>1 DEF TakePermit, Counting!Take
    <3> QED
      BY <2>1, <3>1, <3>2 DEF uthread_sem_wait
  <2>2. ASSUME NEW t \in Thread, Resume(t) PROVE UNCHANGED Counting!vars
    <3>1. waiting' = waiting
      BY <2>2 DEF Resume, TypeOK
    <3> QED
      BY <2>2, <3>1 DEF Resume, Counting!vars
  <2>3. ASSUME NEW t \in Thread, Retry(t)
        PROVE  Counting!Take(t) \/ UNCHANGED Counting!vars
    <3>1. CASE QueueUp(t)
      <4>1. waiting' = waiting
        BY <2>3, <3>1 DEF Retry, QueueUp, TypeOK
      <4> QED
        BY <3>1, <4>1 DEF QueueUp, Counting!vars
    <3>2. CASE TakePermit(t)
      <4>1. waiting' = waiting \ {t} /\ value > 0
        BY <3>2, ValueAssumption DEF TakePermit, NoPermit, TypeOK
      <4> QED
        BY <3>2, <4>1 DEF TakePermit, Counting!Take
    <3> QED
      BY <2>3, <3>1, <3>2 DEF Retry
  <2>4. ASSUME NEW t \in Thread, uthread_sem_signal(t) PROVE Counting!Signal
    BY <2>4 DEF uthread_sem_signal, Counting!Signal
  <2>5. CASE UNCHANGED vars
    BY <2>5 DEF vars, Counting!vars
  <2> QED
    BY <2>1, <2>2, <2>3, <2>4, <2>5 DEF Next, Counting!Next
<1> QED
  BY <1>1, <1>2, TypeCorrect, PTL DEF Spec
=============================================================================
