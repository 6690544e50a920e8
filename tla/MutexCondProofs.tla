-------------------------- MODULE MutexCondProofs --------------------------
(***************************************************************************)
(* The invariants of MutexCond for every set of threads and conditions.     *)
(***************************************************************************)
EXTENDS MutexCond, ProofLemmas, FiniteSetTheorems, TLAPS

(***************************************************************************)
(* Where a step leaves the threads                                         *)
(***************************************************************************)
\* A step that moves one thread adds it to, or takes it from, the threads at places.
LEMMA Moved ==
  ASSUME TypeOK, NEW t \in Thread, NEW place \in Place, Go(t, place), NEW places
  PROVE  At(places)' = IF place \in places THEN At(places) \cup {t} ELSE At(places) \ {t}
BY DEF TypeOK, Go, At

\* The threads at some places are finitely many.
LEMMA AtFinite ==
  ASSUME NEW places
  PROVE  IsFiniteSet(At(places)) /\ Cardinality(At(places)) \in Nat
<1>1. At(places) \subseteq Thread
  BY DEF At
<1> QED
  BY <1>1, ThreadAssumption, FS_Subset, FS_CardinalityType

(***************************************************************************)
(* Types and mutual exclusion                                              *)
(***************************************************************************)
\* Neither is inductive alone: reader_count stays a natural number because a thread
\* that unlocks read-only has been counted.
Exclusion == TypeOK /\ MutualExclusion

\* At first the mutex is free and nobody is in a call.
LEMMA ExclusionInit == Init => Exclusion
<1> SUFFICES ASSUME Init PROVE Exclusion
  OBVIOUS
<1>1. TypeOK
  BY DEF Init, TypeOK, Place, uthread_initqueue
<1>2. At({"writing", "cond_unlock"}) = {} /\ At({"reading"}) = {}
  BY DEF Init, At
<1>3. MutualExclusion
  BY <1>2, FS_EmptySet DEF Init, MutualExclusion
<1> QED
  BY <1>1, <1>3 DEF Exclusion

\* The loop of uthread_mutex_lock, entered by a thread that holds nothing.
LEMMA LockExclusion ==
  ASSUME Exclusion, NEW t \in Thread, pc[t] \in {"user", "lock"}, LockLoop(t),
         UNCHANGED <<cond_waiter_queue, ready>>
  PROVE  Exclusion'
<1>1. CASE MustWait
  <2>1. /\ Go(t, "lock_blocked")
        /\ waiter_queue' = uthread_enqueue(waiter_queue, t)
        /\ UNCHANGED <<holder, reader_count, reader_waiter_queue>>
    BY <1>1 DEF LockLoop
  <2>2. TypeOK'
    BY <2>1, EnqueueType DEF Exclusion, TypeOK, Go, Place, Blocked
  <2>3. /\ At({"writing", "cond_unlock"})' = At({"writing", "cond_unlock"})
        /\ At({"reading"})' = At({"reading"})
    BY <2>1 DEF At, Go, Exclusion, TypeOK
  <2> QED
    BY <2>1, <2>2, <2>3 DEF Exclusion, MutualExclusion
<1>2. CASE ~MustWait
  <2>1. /\ Go(t, "writing")
        /\ holder' = t
        /\ UNCHANGED <<reader_count, waiter_queue, reader_waiter_queue>>
        /\ holder = NoThread /\ reader_count = 0
    BY <1>2 DEF LockLoop, MustWait, Exclusion, TypeOK
  <2>2. TypeOK'
    BY <2>1 DEF Exclusion, TypeOK, Go, Place
  <2>3. /\ At({"writing", "cond_unlock"})' = At({"writing", "cond_unlock"}) \cup {t}
        /\ At({"reading"})' = At({"reading"})
    BY <2>1 DEF At, Go, Exclusion, TypeOK
  <2> QED
    BY <2>1, <2>2, <2>3, NoThreadAssumption DEF Exclusion, MutualExclusion
<1> QED
  BY <1>1, <1>2

\* The loop of uthread_mutex_lock_readonly.
LEMMA ReadExclusion ==
  ASSUME Exclusion, NEW t \in Thread, pc[t] \in {"user", "read"}, ReadLoop(t),
         UNCHANGED <<cond_waiter_queue, ready>>
  PROVE  Exclusion'
<1>1. CASE ReaderMustWait
  <2>1. /\ Go(t, "read_blocked")
        /\ reader_waiter_queue' = uthread_enqueue(reader_waiter_queue, t)
        /\ UNCHANGED <<holder, reader_count, waiter_queue>>
    BY <1>1 DEF ReadLoop
  <2>2. TypeOK'
    BY <2>1, EnqueueType DEF Exclusion, TypeOK, Go, Place, Blocked
  <2>3. /\ At({"writing", "cond_unlock"})' = At({"writing", "cond_unlock"})
        /\ At({"reading"})' = At({"reading"})
    BY <2>1 DEF At, Go, Exclusion, TypeOK
  <2> QED
    BY <2>1, <2>2, <2>3 DEF Exclusion, MutualExclusion
<1>2. CASE ~ReaderMustWait
  <2>1. /\ Go(t, "reading")
        /\ reader_count' = reader_count + 1
        /\ UNCHANGED <<holder, waiter_queue, reader_waiter_queue>>
        /\ holder = NoThread
    BY <1>2 DEF ReadLoop, ReaderMustWait
  <2>2. TypeOK'
    BY <2>1 DEF Exclusion, TypeOK, Go, Place
  <2>3. /\ At({"writing", "cond_unlock"})' = At({"writing", "cond_unlock"})
        /\ At({"reading"})' = At({"reading"}) \cup {t}
        /\ t \notin At({"reading"})
    BY <2>1 DEF At, Go, Exclusion, TypeOK
  <2>4. Cardinality(At({"reading"})') = Cardinality(At({"reading"})) + 1
    BY <2>3, AtFinite, FS_AddElement
  <2> QED
    BY <2>1, <2>2, <2>3, <2>4 DEF Exclusion, MutualExclusion
<1> QED
  BY <1>1, <1>2

\* uthread_mutex_unlock, called by a holder or a reader, and from uthread_cond_wait.
LEMMA UnlockExclusion ==
  ASSUME Exclusion, NEW t \in Thread, NEW place \in {"user", "cond_blocked"},
         pc[t] \in {"writing", "reading", "cond_unlock"}, Unlock, Go(t, place),
         UNCHANGED cond_waiter_queue
  PROVE  Exclusion'
<1>1. /\ waiter_queue' \in Seq(Thread)
      /\ reader_waiter_queue' \in Seq(Thread)
      /\ ready' \in SUBSET Thread
  <2>1. CASE ReadersAfterUnlock = 0 /\ waiter_queue = <<>>
    <3>1. Queued(reader_waiter_queue) \subseteq Thread
      BY DEF Queued, Exclusion, TypeOK
    <3> QED
      BY <2>1, <3>1 DEF Unlock, WakeNext, uthread_queue_is_empty, Exclusion, TypeOK
  <2>2. CASE ReadersAfterUnlock = 0 /\ waiter_queue # <<>>
    BY <2>2, DequeueType DEF Unlock, WakeNext, uthread_queue_is_empty, Exclusion, TypeOK
  <2>3. CASE ReadersAfterUnlock # 0
    BY <2>3 DEF Unlock, Exclusion, TypeOK
  <2> QED
    BY <2>1, <2>2, <2>3
<1>2. place \in Place \ {"writing", "reading", "cond_unlock"}
  BY DEF Place, Blocked
<1>3. /\ At({"writing", "cond_unlock"})' = At({"writing", "cond_unlock"}) \ {t}
      /\ At({"reading"})' = At({"reading"}) \ {t}
  BY <1>2, Moved DEF Exclusion
<1>4. CASE pc[t] \in {"writing", "cond_unlock"}
  <2>1. t \in At({"writing", "cond_unlock"}) /\ t \notin At({"reading"})
    BY <1>4 DEF At
  <2>2. holder = t /\ holder # NoThread /\ reader_count = 0
    BY <2>1 DEF Exclusion, MutualExclusion
  <2>3. holder' = NoThread /\ reader_count' = reader_count
    BY <2>2 DEF Unlock, ReadersAfterUnlock
  <2>4. TypeOK'
    BY <1>1, <1>2, <2>3 DEF Exclusion, TypeOK, Go
  <2> QED
    BY <1>3, <2>1, <2>2, <2>3, <2>4 DEF Exclusion, MutualExclusion
<1>5. CASE pc[t] = "reading"
  <2>1. t \in At({"reading"}) /\ t \notin At({"writing", "cond_unlock"})
    BY <1>5 DEF At
  <2>2. /\ Cardinality(At({"reading"})') = reader_count - 1
        /\ reader_count - 1 \in Nat
    <3>1. Cardinality(At({"reading"})') = Cardinality(At({"reading"})) - 1
      BY <1>3, <2>1, AtFinite, FS_RemoveElement
    <3>2. Cardinality(At({"reading"})) # 0
      BY <2>1, AtFinite, FS_EmptySet
    <3> QED
      BY <3>1, <3>2, AtFinite DEF Exclusion, MutualExclusion
  <2>3. holder = NoThread
    BY <2>2 DEF Exclusion, MutualExclusion, TypeOK
  <2>4. holder' = NoThread /\ reader_count' = reader_count - 1
    BY <2>3 DEF Unlock, ReadersAfterUnlock
  <2>5. TypeOK'
    BY <1>1, <1>2, <2>2, <2>4 DEF Exclusion, TypeOK, Go
  <2> QED
    BY <1>3, <2>1, <2>2, <2>3, <2>4, <2>5 DEF Exclusion, MutualExclusion
<1> QED
  BY <1>4, <1>5

\* The steps that neither take nor give back the mutex.
LEMMA OtherExclusion ==
  ASSUME Exclusion, NEW t \in Thread,
         \/ Resume(t)
         \/ \E c \in Cond :
              uthread_cond_wait(t, c) \/ uthread_cond_signal(t, c) \/ uthread_cond_broadcast(t, c)
  PROVE  Exclusion'
<1>1. CASE Resume(t)
  <2>1. TypeOK'
    BY <1>1 DEF Resume, Go, AfterBlock, mutex, Exclusion, TypeOK, Place, Blocked
  <2>2. /\ At({"writing", "cond_unlock"})' = At({"writing", "cond_unlock"})
        /\ At({"reading"})' = At({"reading"})
    BY <1>1 DEF Resume, Go, AfterBlock, At, Exclusion, TypeOK, Blocked
  <2> QED
    BY <1>1, <2>1, <2>2 DEF Resume, mutex, Exclusion, MutualExclusion
<1>2. ASSUME NEW c \in Cond, uthread_cond_wait(t, c) PROVE Exclusion'
  <2>1. TypeOK'
    BY <1>2, EnqueueType DEF uthread_cond_wait, Go, mutex, Exclusion, TypeOK, Place
  <2>2. /\ At({"writing", "cond_unlock"})' = At({"writing", "cond_unlock"})
        /\ At({"reading"})' = At({"reading"})
    BY <1>2 DEF uthread_cond_wait, Go, At, Exclusion, TypeOK
  <2> QED
    BY <1>2, <2>1, <2>2 DEF uthread_cond_wait, mutex, Exclusion, MutualExclusion
<1>3. ASSUME NEW c \in Cond, uthread_cond_signal(t, c) PROVE Exclusion'
  <2>1. TypeOK'
    BY <1>3, DequeueType DEF uthread_cond_signal, mutex, Exclusion, TypeOK
  <2> QED
    BY <1>3, <2>1 DEF uthread_cond_signal, mutex, Exclusion, MutualExclusion, At
<1>4. ASSUME NEW c \in Cond, uthread_cond_broadcast(t, c) PROVE Exclusion'
  <2>1. Queued(cond_waiter_queue[c]) \subseteq Thread
    BY DEF Queued, Exclusion, TypeOK
  <2>2. TypeOK'
    BY <1>4, <2>1 DEF uthread_cond_broadcast, mutex, Exclusion, TypeOK
  <2> QED
    BY <1>4, <2>2 DEF uthread_cond_broadcast, mutex, Exclusion, MutualExclusion, At
<1> QED
  BY <1>1, <1>2, <1>3, <1>4

\* Every step keeps types and exclusion.
LEMMA ExclusionStep == Exclusion /\ [Next]_vars => Exclusion'
<1> SUFFICES ASSUME Exclusion, [Next]_vars PROVE Exclusion'
  OBVIOUS
<1>1. ASSUME NEW t \in Thread, uthread_mutex_lock(t) \/ RetryLock(t) PROVE Exclusion'
  BY <1>1, LockExclusion DEF uthread_mutex_lock, RetryLock
<1>2. ASSUME NEW t \in Thread, uthread_mutex_lock_readonly(t) \/ RetryRead(t) PROVE Exclusion'
  BY <1>2, ReadExclusion DEF uthread_mutex_lock_readonly, RetryRead
<1>3. ASSUME NEW t \in Thread, uthread_mutex_unlock(t) \/ CondUnlock(t) PROVE Exclusion'
  BY <1>3, UnlockExclusion DEF uthread_mutex_unlock, CondUnlock
<1>4. CASE UNCHANGED vars
  BY <1>4 DEF vars, mutex, Exclusion, TypeOK, MutualExclusion, At
<1> QED
  BY <1>1, <1>2, <1>3, <1>4, OtherExclusion DEF Next

\* reader_count is never negative and every queue holds threads only
\* (uthread_mutex_unlock decrements it without looking who calls).
THEOREM TypeCorrect == Spec => []TypeOK
BY ExclusionInit, ExclusionStep, PTL DEF Spec, Exclusion

\* A thread whose uthread_mutex_lock returned is alone; those whose
\* uthread_mutex_lock_readonly returned share the mutex with readers only.
THEOREM Excludes == Spec => []MutualExclusion
BY ExclusionInit, ExclusionStep, PTL DEF Spec, Exclusion

(***************************************************************************)
(* Every blocked thread is in one queue                                    *)
(***************************************************************************)
\* What the queues and the ready queue hold together, for one place or for a
\* condition, is what QueueDiscipline says of each of them.
LEMMA LockDiscipline ==
  ASSUME TypeOK, QueueDiscipline, NEW t \in Thread, pc[t] \in {"user", "lock"},
         LockLoop(t), UNCHANGED <<cond_waiter_queue, ready>>
  PROVE  QueueDiscipline'
<1>1. t \notin ready
  BY DEF QueueDiscipline, At, Blocked
<1>2. CASE MustWait
  <2>1. /\ Go(t, "lock_blocked")
        /\ waiter_queue' = uthread_enqueue(waiter_queue, t)
        /\ UNCHANGED reader_waiter_queue
    BY <1>2 DEF LockLoop
  <2>2. /\ Queued(waiter_queue') = Queued(waiter_queue) \cup {t}
        /\ NoDuplicates(waiter_queue')
    BY <2>1, EnqueueSet, EnqueueNoDuplicates DEF TypeOK, QueueDiscipline
  <2>3. /\ At(Blocked)' = At(Blocked) \cup {t}
        /\ At({"lock_blocked"})' = At({"lock_blocked"}) \cup {t}
        /\ At({"read_blocked"})' = At({"read_blocked"})
        /\ At({"cond_unlock", "cond_blocked"})' = At({"cond_unlock", "cond_blocked"})
    BY <2>1 DEF At, Go, TypeOK, Blocked
  <2> QED
    BY <1>1, <2>1, <2>2, <2>3 DEF QueueDiscipline, CondWaiters
<1>3. CASE ~MustWait
  <2>1. Go(t, "writing") /\ UNCHANGED <<waiter_queue, reader_waiter_queue>>
    BY <1>3 DEF LockLoop
  <2>2. /\ At(Blocked)' = At(Blocked)
        /\ At({"lock_blocked"})' = At({"lock_blocked"})
        /\ At({"read_blocked"})' = At({"read_blocked"})
        /\ At({"cond_unlock", "cond_blocked"})' = At({"cond_unlock", "cond_blocked"})
    BY <2>1 DEF At, Go, TypeOK, Blocked
  <2> QED
    BY <2>1, <2>2 DEF QueueDiscipline, CondWaiters
<1> QED
  BY <1>2, <1>3

\* Reading or queueing to read puts a thread into one queue at most.
LEMMA ReadDiscipline ==
  ASSUME TypeOK, QueueDiscipline, NEW t \in Thread, pc[t] \in {"user", "read"},
         ReadLoop(t), UNCHANGED <<cond_waiter_queue, ready>>
  PROVE  QueueDiscipline'
<1>1. t \notin ready
  BY DEF QueueDiscipline, At, Blocked
<1>2. CASE ReaderMustWait
  <2>1. /\ Go(t, "read_blocked")
        /\ reader_waiter_queue' = uthread_enqueue(reader_waiter_queue, t)
        /\ UNCHANGED waiter_queue
    BY <1>2 DEF ReadLoop
  <2>2. /\ Queued(reader_waiter_queue') = Queued(reader_waiter_queue) \cup {t}
        /\ NoDuplicates(reader_waiter_queue')
    BY <2>1, EnqueueSet, EnqueueNoDuplicates DEF TypeOK, QueueDiscipline
  <2>3. /\ At(Blocked)' = At(Blocked) \cup {t}
        /\ At({"read_blocked"})' = At({"read_blocked"}) \cup {t}
        /\ At({"lock_blocked"})' = At({"lock_blocked"})
        /\ At({"cond_unlock", "cond_blocked"})' = At({"cond_unlock", "cond_blocked"})
    BY <2>1 DEF At, Go, TypeOK, Blocked
  <2> QED
    BY <1>1, <2>1, <2>2, <2>3 DEF QueueDiscipline, CondWaiters
<1>3. CASE ~ReaderMustWait
  <2>1. Go(t, "reading") /\ UNCHANGED <<waiter_queue, reader_waiter_queue>>
    BY <1>3 DEF ReadLoop
  <2>2. /\ At(Blocked)' = At(Blocked)
        /\ At({"lock_blocked"})' = At({"lock_blocked"})
        /\ At({"read_blocked"})' = At({"read_blocked"})
        /\ At({"cond_unlock", "cond_blocked"})' = At({"cond_unlock", "cond_blocked"})
    BY <2>1 DEF At, Go, TypeOK, Blocked
  <2> QED
    BY <2>1, <2>2 DEF QueueDiscipline, CondWaiters
<1> QED
  BY <1>2, <1>3

\* uthread_mutex_unlock moves threads from its two queues to the ready queue.
LEMMA UnlockWakes ==
  ASSUME TypeOK, QueueDiscipline, Unlock
  PROVE  \E woken \in SUBSET (Queued(waiter_queue) \cup Queued(reader_waiter_queue)) :
           /\ ready' = ready \cup woken
           /\ Queued(waiter_queue') = Queued(waiter_queue) \ woken
           /\ Queued(reader_waiter_queue') = Queued(reader_waiter_queue) \ woken
           /\ NoDuplicates(waiter_queue') /\ NoDuplicates(reader_waiter_queue')
<1>0. Queued(waiter_queue) \cap Queued(reader_waiter_queue) = {}
  BY DEF QueueDiscipline, At
<1>1. CASE ReadersAfterUnlock = 0 /\ waiter_queue = <<>>
  <2>1. /\ ready' = ready \cup Queued(reader_waiter_queue)
        /\ reader_waiter_queue' = <<>> /\ waiter_queue' = waiter_queue
    BY <1>1 DEF Unlock, WakeNext, uthread_queue_is_empty
  <2>2. Queued(<<>>) = {} /\ NoDuplicates(<<>>)
    BY DEF Queued, NoDuplicates
  <2> QED
    BY <1>0, <2>1, <2>2 DEF QueueDiscipline
<1>2. CASE ReadersAfterUnlock = 0 /\ waiter_queue # <<>>
  <2>1. /\ ready' = ready \cup uthread_dequeue(waiter_queue)
        /\ waiter_queue' = Dequeued(waiter_queue)
        /\ reader_waiter_queue' = reader_waiter_queue
    BY <1>2 DEF Unlock, WakeNext, uthread_queue_is_empty
  <2>2. /\ NoDuplicates(waiter_queue')
        /\ Queued(waiter_queue') = Queued(waiter_queue) \ uthread_dequeue(waiter_queue)
        /\ uthread_dequeue(waiter_queue) \subseteq Queued(waiter_queue)
    BY <2>1, DequeueSet DEF TypeOK, QueueDiscipline
  <2> QED
    BY <1>0, <2>1, <2>2 DEF QueueDiscipline
<1>3. CASE ReadersAfterUnlock # 0
  <2>1. UNCHANGED <<waiter_queue, reader_waiter_queue, ready>>
    BY <1>3 DEF Unlock
  <2> QED
    BY <2>1 DEF QueueDiscipline
<1> QED
  BY <1>1, <1>2, <1>3

\* Unlocking moves threads from the waiter queues to the ready queue.
LEMMA UnlockDiscipline ==
  ASSUME TypeOK, QueueDiscipline, NEW t \in Thread, NEW place, Unlock, Go(t, place),
         UNCHANGED cond_waiter_queue, t \notin ready,
         \/ pc[t] \in {"writing", "reading"} /\ place = "user"
         \/ pc[t] = "cond_unlock" /\ place = "cond_blocked"
  PROVE  QueueDiscipline'
<1>1. PICK woken \in SUBSET (Queued(waiter_queue) \cup Queued(reader_waiter_queue)) :
        /\ ready' = ready \cup woken
        /\ Queued(waiter_queue') = Queued(waiter_queue) \ woken
        /\ Queued(reader_waiter_queue') = Queued(reader_waiter_queue) \ woken
        /\ NoDuplicates(waiter_queue') /\ NoDuplicates(reader_waiter_queue')
  BY UnlockWakes
<1>2. /\ At({"lock_blocked"})' = At({"lock_blocked"})
      /\ At({"read_blocked"})' = At({"read_blocked"})
      /\ At({"cond_unlock", "cond_blocked"})' = At({"cond_unlock", "cond_blocked"})
      /\ At(Blocked) \subseteq At(Blocked)'
  BY DEF At, Go, TypeOK, Blocked
<1>3. woken \subseteq At({"lock_blocked", "read_blocked"})
  BY DEF QueueDiscipline, At
<1>4. /\ woken \subseteq At(Blocked)
      /\ woken \cap At({"cond_unlock", "cond_blocked"}) = {}
  BY <1>3 DEF At, Blocked
<1>5. ready' \subseteq At(Blocked)'
  BY <1>1, <1>2, <1>4 DEF QueueDiscipline
<1> QED
  BY <1>1, <1>2, <1>4, <1>5 DEF QueueDiscipline, CondWaiters


\* uthread_cond_signal and uthread_cond_broadcast move threads from the queue of
\* the condition to the ready queue.
LEMMA CondWakes ==
  ASSUME TypeOK, QueueDiscipline, NEW t \in Thread, NEW c \in Cond,
         uthread_cond_signal(t, c) \/ uthread_cond_broadcast(t, c)
  PROVE  \E q \in Seq(Thread), woken \in SUBSET Queued(cond_waiter_queue[c]) :
           /\ ready' = ready \cup woken
           /\ cond_waiter_queue' = [cond_waiter_queue EXCEPT ![c] = q]
           /\ Queued(q) = Queued(cond_waiter_queue[c]) \ woken
           /\ NoDuplicates(q)
<1>0. cond_waiter_queue[c] \in Seq(Thread) /\ NoDuplicates(cond_waiter_queue[c])
  BY DEF TypeOK, QueueDiscipline
<1>1. CASE uthread_cond_signal(t, c)
  <2> DEFINE q == Dequeued(cond_waiter_queue[c])
             woken == uthread_dequeue(cond_waiter_queue[c])
  <2>1. /\ q \in Seq(Thread)
        /\ woken \in SUBSET Queued(cond_waiter_queue[c])
        /\ Queued(q) = Queued(cond_waiter_queue[c]) \ woken
        /\ NoDuplicates(q)
    BY <1>0, DequeueSet, DequeueType
  <2>2. /\ ready' = ready \cup woken
        /\ cond_waiter_queue' = [cond_waiter_queue EXCEPT ![c] = q]
    BY <1>1 DEF uthread_cond_signal
  <2> QED
    BY <2>1, <2>2
<1>2. CASE uthread_cond_broadcast(t, c)
  <2>1. Queued(<<>>) = {} /\ NoDuplicates(<<>>) /\ <<>> \in Seq(Thread)
    BY DEF Queued, NoDuplicates
  <2>2. /\ ready' = ready \cup Queued(cond_waiter_queue[c])
        /\ cond_waiter_queue' = [cond_waiter_queue EXCEPT ![c] = <<>>]
    BY <1>2 DEF uthread_cond_broadcast
  <2> QED
    BY <2>1, <2>2
<1> QED
  BY <1>1, <1>2

\* Signals and broadcasts move threads from the queue of a condition to the ready queue.
LEMMA CondWakeDiscipline ==
  ASSUME Exclusion, QueueDiscipline, NEW t \in Thread, NEW c \in Cond,
         uthread_cond_signal(t, c) \/ uthread_cond_broadcast(t, c)
  PROVE  QueueDiscipline'
<1>1. PICK q \in Seq(Thread), woken \in SUBSET Queued(cond_waiter_queue[c]) :
        /\ ready' = ready \cup woken
        /\ cond_waiter_queue' = [cond_waiter_queue EXCEPT ![c] = q]
        /\ Queued(q) = Queued(cond_waiter_queue[c]) \ woken
        /\ NoDuplicates(q)
  BY CondWakes DEF Exclusion
<1>2. UNCHANGED <<pc, waiter_queue, reader_waiter_queue>> /\ pc[t] = "writing"
  BY DEF uthread_cond_signal, uthread_cond_broadcast, mutex
<1>3. woken \subseteq At({"cond_blocked"})
  <2>1. woken \subseteq At({"cond_unlock", "cond_blocked"})
    <3>1. woken \subseteq Thread
      BY DEF Queued, Exclusion, TypeOK
    <3> QED
      BY <3>1 DEF QueueDiscipline, CondWaiters
  <2> QED
    BY <1>2, <2>1 DEF At, Exclusion, MutualExclusion
<1>4. woken \subseteq At(Blocked) /\ woken \cap At({"lock_blocked", "read_blocked"}) = {}
  BY <1>3 DEF At, Blocked
<1>5. \A d \in Cond : cond_waiter_queue'[d] = IF d = c THEN q ELSE cond_waiter_queue[d]
  BY <1>1 DEF Exclusion, TypeOK
<1>6. /\ \A d \in Cond : NoDuplicates(cond_waiter_queue'[d])
      /\ \A d, e \in Cond :
           d # e => Queued(cond_waiter_queue'[d]) \cap Queued(cond_waiter_queue'[e]) = {}
  BY <1>1, <1>5 DEF QueueDiscipline
<1>7. CondWaiters' = CondWaiters \ woken
  <2>1. \A d \in Cond : Queued(cond_waiter_queue'[d]) = Queued(cond_waiter_queue[d]) \ woken
    <3> TAKE d \in Cond
    <3>1. CASE d = c
      BY <1>1, <1>5, <3>1
    <3>2. CASE d # c
      BY <1>5, <3>2 DEF QueueDiscipline
    <3> QED
      BY <3>1, <3>2
  <2> QED
    BY <2>1 DEF CondWaiters
<1>8. /\ Queued(waiter_queue') = At({"lock_blocked"})' \ ready'
      /\ Queued(reader_waiter_queue') = At({"read_blocked"})' \ ready'
      /\ NoDuplicates(waiter_queue') /\ NoDuplicates(reader_waiter_queue')
  BY <1>1, <1>2, <1>4 DEF QueueDiscipline, At
<1>9. CondWaiters' = At({"cond_unlock", "cond_blocked"})' \ ready'
  BY <1>1, <1>2, <1>7 DEF QueueDiscipline, At
<1>10. ready' \subseteq At(Blocked)'
  BY <1>1, <1>2, <1>4 DEF QueueDiscipline, At
<1> QED
  BY <1>6, <1>8, <1>9, <1>10 DEF QueueDiscipline

\* uthread_cond_wait queues a thread that is in no queue, for it holds the mutex.
LEMMA CondWaitDiscipline ==
  ASSUME TypeOK, QueueDiscipline, NEW t \in Thread, NEW c \in Cond, uthread_cond_wait(t, c)
  PROVE  QueueDiscipline'
<1> DEFINE q == uthread_enqueue(cond_waiter_queue[c], t)
<1>1. /\ cond_waiter_queue' = [cond_waiter_queue EXCEPT ![c] = q]
      /\ Go(t, "cond_unlock") /\ pc[t] = "writing"
      /\ UNCHANGED <<waiter_queue, reader_waiter_queue, ready>>
  BY DEF uthread_cond_wait, mutex
<1>2. Queued(q) = Queued(cond_waiter_queue[c]) \cup {t} /\ NoDuplicates(q)
  BY EnqueueSet, EnqueueNoDuplicates DEF TypeOK, QueueDiscipline
<1> HIDE DEF q
<1>3. t \notin ready /\ \A d \in Cond : t \notin Queued(cond_waiter_queue[d])
  <2>1. t \notin At(Blocked) /\ t \notin At({"cond_unlock", "cond_blocked"})
    BY <1>1 DEF At, Blocked
  <2> QED
    BY <2>1 DEF QueueDiscipline, CondWaiters
<1>4. \A d \in Cond : cond_waiter_queue'[d] = IF d = c THEN q ELSE cond_waiter_queue[d]
  BY <1>1 DEF TypeOK
<1>5. /\ \A d \in Cond : NoDuplicates(cond_waiter_queue'[d])
      /\ \A d, e \in Cond :
           d # e => Queued(cond_waiter_queue'[d]) \cap Queued(cond_waiter_queue'[e]) = {}
  BY <1>2, <1>3, <1>4 DEF QueueDiscipline
<1>6. CondWaiters' = CondWaiters \cup {t}
  BY <1>2, <1>4 DEF CondWaiters
<1>7. /\ At(Blocked)' = At(Blocked)
      /\ At({"lock_blocked"})' = At({"lock_blocked"})
      /\ At({"read_blocked"})' = At({"read_blocked"})
      /\ At({"cond_unlock", "cond_blocked"})' = At({"cond_unlock", "cond_blocked"}) \cup {t}
  BY <1>1 DEF At, Go, TypeOK, Blocked
<1> QED
  BY <1>1, <1>3, <1>5, <1>6, <1>7 DEF QueueDiscipline

\* A thread that resumes leaves the ready queue and its place together.
LEMMA ResumeDiscipline ==
  ASSUME TypeOK, QueueDiscipline, NEW t \in Thread, Resume(t)
  PROVE  QueueDiscipline'
<1>1. /\ ready' = ready \ {t} /\ t \in ready /\ Go(t, AfterBlock(pc[t]))
      /\ UNCHANGED <<waiter_queue, reader_waiter_queue, cond_waiter_queue>>
  BY DEF Resume, mutex
<1>2. /\ At(Blocked)' = At(Blocked) \ {t}
      /\ At({"lock_blocked"})' = At({"lock_blocked"}) \ {t}
      /\ At({"read_blocked"})' = At({"read_blocked"}) \ {t}
      /\ At({"cond_unlock", "cond_blocked"})' = At({"cond_unlock", "cond_blocked"}) \ {t}
  BY <1>1 DEF At, Go, AfterBlock, TypeOK, Blocked
<1> QED
  BY <1>1, <1>2 DEF QueueDiscipline, CondWaiters

\* Every step keeps each thread in one queue at most.
LEMMA DisciplineStep == Exclusion /\ QueueDiscipline /\ [Next]_vars => QueueDiscipline'
<1> SUFFICES ASSUME Exclusion, QueueDiscipline, [Next]_vars PROVE QueueDiscipline'
  OBVIOUS
<1>0. TypeOK
  BY DEF Exclusion
<1>1. ASSUME NEW t \in Thread, uthread_mutex_lock(t) \/ RetryLock(t) PROVE QueueDiscipline'
  BY <1>0, <1>1, LockDiscipline DEF uthread_mutex_lock, RetryLock
<1>2. ASSUME NEW t \in Thread, uthread_mutex_lock_readonly(t) \/ RetryRead(t) PROVE QueueDiscipline'
  BY <1>0, <1>2, ReadDiscipline DEF uthread_mutex_lock_readonly, RetryRead
<1>3. ASSUME NEW t \in Thread, uthread_mutex_unlock(t) \/ CondUnlock(t) PROVE QueueDiscipline'
  <2>1. t \notin ready
    BY <1>3 DEF uthread_mutex_unlock, CondUnlock, QueueDiscipline, At, Blocked
  <2> QED
    BY <1>0, <1>3, <2>1, UnlockDiscipline DEF uthread_mutex_unlock, CondUnlock
<1>4. CASE UNCHANGED vars
  BY <1>4 DEF vars, mutex, QueueDiscipline, CondWaiters, At
<1> QED
  BY <1>0, <1>1, <1>2, <1>3, <1>4, ResumeDiscipline, CondWaitDiscipline, CondWakeDiscipline
  DEF Next

\* All queues are empty at first.
LEMMA DisciplineInit == Init => QueueDiscipline
<1> SUFFICES ASSUME Init PROVE QueueDiscipline
  OBVIOUS
<1>1. Queued(<<>>) = {} /\ NoDuplicates(<<>>)
  BY DEF Queued, NoDuplicates
<1>2. /\ At({"lock_blocked"}) = {} /\ At({"read_blocked"}) = {}
      /\ At({"cond_unlock", "cond_blocked"}) = {}
  BY DEF Init, At
<1> QED
  BY <1>1, <1>2 DEF Init, QueueDiscipline, CondWaiters, uthread_initqueue

\* A thread in uthread_block is in the queue of the call it made or on the ready queue,
\* once (uthread_mutex_lock, uthread_mutex_lock_readonly, uthread_cond_wait).
THEOREM DisciplineHolds == Spec => []QueueDiscipline
<1>1. Spec => []Exclusion
  BY ExclusionInit, ExclusionStep, PTL DEF Spec
<1> QED
  BY <1>1, DisciplineInit, DisciplineStep, PTL DEF Spec

(***************************************************************************)
(* No lost wake-up                                                         *)
(***************************************************************************)
\* A lock loop that keeps its thread finds the mutex taken; one that lets it go takes it.
LEMMA LockWakeup ==
  ASSUME TypeOK, NoLostWakeup, NEW t \in Thread, pc[t] \in {"user", "lock"},
         LockLoop(t), UNCHANGED ready
  PROVE  NoLostWakeup'
BY NoThreadAssumption DEF LockLoop, MustWait, NoLostWakeup, TypeOK

\* A woken reader that finds the mutex free but writers queued goes to sleep again; a
\* woken writer is then on its way.
LEMMA ReadWakeup ==
  ASSUME TypeOK, NoLostWakeup, NEW t \in Thread, pc[t] \in {"user", "read"},
         ReadLoop(t), UNCHANGED ready
  PROVE  NoLostWakeup'
<1>1. CASE ReaderMustWait
  <2>1. Go(t, "read_blocked") /\ UNCHANGED <<holder, reader_count, waiter_queue>>
    BY <1>1 DEF ReadLoop
  <2>2. holder = NoThread => waiter_queue # <<>>
    BY <1>1 DEF ReaderMustWait, uthread_queue_is_empty
  <2>3. PendingLock' = PendingLock
    BY <2>1 DEF PendingLock, At, Go, TypeOK
  <2> QED
    BY <2>1, <2>2, <2>3 DEF NoLostWakeup
<1>2. CASE ~ReaderMustWait
  BY <1>2 DEF ReadLoop, NoLostWakeup, TypeOK
<1> QED
  BY <1>1, <1>2

\* An unlock that leaves the mutex free wakes a thread of each kind that waits, writers
\* first.
LEMMA UnlockWakeup ==
  ASSUME TypeOK, QueueDiscipline, Unlock, NEW t \in Thread, t \notin ready,
         NEW place, Go(t, place), pc[t] \in {"writing", "reading", "cond_unlock"}
  PROVE  NoLostWakeup'
<1>1. CASE ReadersAfterUnlock = 0 /\ waiter_queue = <<>>
  <2>1. /\ ready' = ready \cup Queued(reader_waiter_queue)
        /\ reader_waiter_queue' = <<>> /\ waiter_queue' = <<>>
    BY <1>1 DEF Unlock, WakeNext, uthread_queue_is_empty
  <2> QED
    BY <2>1 DEF NoLostWakeup
<1>2. CASE ReadersAfterUnlock = 0 /\ waiter_queue # <<>>
  <2>1. /\ ready' = ready \cup uthread_dequeue(waiter_queue)
        /\ uthread_dequeue(waiter_queue) # {}
        /\ uthread_dequeue(waiter_queue) \subseteq Queued(waiter_queue)
    BY <1>2, DequeueSet
    DEF Unlock, WakeNext, uthread_queue_is_empty, uthread_dequeue, TypeOK, QueueDiscipline
  <2>2. At({"lock_blocked"}) \subseteq At({"lock_blocked", "cond_blocked"})'
    BY DEF At, Go, TypeOK
  <2>3. PendingLock' # {}
    BY <2>1, <2>2 DEF PendingLock, QueueDiscipline
  <2> QED
    BY <2>3 DEF NoLostWakeup
<1>3. CASE ReadersAfterUnlock # 0
  BY <1>3 DEF Unlock, NoLostWakeup
<1> QED
  BY <1>1, <1>2, <1>3

\* The steps inside the monitor, and threads that resume.
LEMMA OtherWakeup ==
  ASSUME Exclusion, NoLostWakeup, NEW t \in Thread,
         \/ Resume(t)
         \/ \E c \in Cond :
              uthread_cond_wait(t, c) \/ uthread_cond_signal(t, c) \/ uthread_cond_broadcast(t, c)
  PROVE  NoLostWakeup'
<1>1. CASE Resume(t)
  <2>1. PendingLock' = PendingLock /\ PendingRead' = PendingRead
    BY <1>1 DEF Resume, Go, AfterBlock, PendingLock, PendingRead, At, Exclusion, TypeOK, Blocked
  <2> QED
    BY <1>1, <2>1 DEF Resume, mutex, NoLostWakeup
<1>2. ASSUME pc[t] = "writing", UNCHANGED mutex PROVE NoLostWakeup'
  <2>1. holder # NoThread
    BY <1>2 DEF Exclusion, MutualExclusion, At
  <2> QED
    BY <1>2, <2>1 DEF mutex, NoLostWakeup
<1> QED
  BY <1>1, <1>2 DEF uthread_cond_wait, uthread_cond_signal, uthread_cond_broadcast

\* A free mutex for which threads are queued has a woken thread on its way that will
\* take it: a writer if writers are queued (uthread_mutex_unlock,
\* uthread_mutex_lock_readonly).
THEOREM NoWakeupLost == Spec => []NoLostWakeup
<1>1. Init => NoLostWakeup
  BY DEF Init, NoLostWakeup, uthread_initqueue
<1>2. Exclusion /\ QueueDiscipline /\ NoLostWakeup /\ [Next]_vars => NoLostWakeup'
  <2> SUFFICES ASSUME Exclusion, QueueDiscipline, NoLostWakeup, [Next]_vars
               PROVE  NoLostWakeup'
    OBVIOUS
  <2>0. TypeOK
    BY DEF Exclusion
  <2>1. ASSUME NEW t \in Thread, uthread_mutex_lock(t) \/ RetryLock(t) PROVE NoLostWakeup'
    BY <2>0, <2>1, LockWakeup DEF uthread_mutex_lock, RetryLock
  <2>2. ASSUME NEW t \in Thread, uthread_mutex_lock_readonly(t) \/ RetryRead(t)
        PROVE  NoLostWakeup'
    BY <2>0, <2>2, ReadWakeup DEF uthread_mutex_lock_readonly, RetryRead
  <2>3. ASSUME NEW t \in Thread, uthread_mutex_unlock(t) \/ CondUnlock(t) PROVE NoLostWakeup'
    <3>1. t \notin ready
      BY <2>3 DEF uthread_mutex_unlock, CondUnlock, QueueDiscipline, At, Blocked
    <3> QED
      BY <2>0, <2>3, <3>1, UnlockWakeup DEF uthread_mutex_unlock, CondUnlock
  <2>4. CASE UNCHANGED vars
    BY <2>4 DEF vars, mutex, NoLostWakeup, PendingLock, PendingRead, At
  <2> QED
    BY <2>1, <2>2, <2>3, <2>4, OtherWakeup DEF Next
<1>3. Spec => [](Exclusion /\ QueueDiscipline)
  BY TypeCorrect, Excludes, DisciplineHolds, PTL DEF Exclusion
<1> QED
  BY <1>1, <1>2, <1>3, PTL DEF Spec

(***************************************************************************)
(* The mutex and its conditions implement Monitor, safety part             *)
(***************************************************************************)
\* The variables of Monitor, as MonitorSpec maps them.
Writers == At({"writing", "cond_unlock"})
Readers == At({"reading"})
Lockers == At({"lock", "lock_blocked"}) \cup (ready \cap At({"cond_blocked"}))
RLockers == At({"read", "read_blocked"})
Waiters == [c \in Cond |-> Queued(cond_waiter_queue[c]) \ At({"cond_unlock"})]
Mapped == <<Writers, Readers, Lockers, RLockers, Waiters>>

\* Where the threads are after one of them has moved.
LEMMA AtMoved ==
  ASSUME TypeOK, NEW t \in Thread, NEW place, Go(t, place)
  PROVE  \A places : At(places)' = IF place \in places THEN At(places) \cup {t} ELSE At(places) \ {t}
BY DEF Go, At, TypeOK

\* The mutex is as free as the fields of the mutex say.
LEMMA FreeWhen ==
  ASSUME Exclusion
  PROVE  /\ holder = NoThread <=> Writers = {}
         /\ reader_count = 0 <=> Readers = {}
<1>1. IsFiniteSet(Readers)
  BY AtFinite DEF Readers
<1>2. reader_count = 0 <=> Readers = {}
  BY <1>1, FS_EmptySet DEF Exclusion, MutualExclusion, Readers
<1> QED
  BY <1>2 DEF Exclusion, MutualExclusion, Writers, TypeOK

\* A turn of the loop of uthread_mutex_lock keeps the thread inside the call, or gives it the
\* free mutex.
LEMMA LockMapped ==
  ASSUME Exclusion, NEW t \in Thread, uthread_mutex_lock(t) \/ RetryLock(t)
  PROVE  MonitorSpec!Await(t) \/ MonitorSpec!Acquire(t)
<1>1. TypeOK /\ pc[t] \in {"user", "lock"} /\ LockLoop(t) /\ UNCHANGED <<cond_waiter_queue, ready>>
  BY DEF Exclusion, uthread_mutex_lock, RetryLock
<1>2. CASE MustWait
  <2>1. Go(t, "lock_blocked")
    BY <1>1, <1>2 DEF LockLoop
  <2>2. \A places : At(places)' = IF "lock_blocked" \in places THEN At(places) \cup {t} ELSE At(places) \ {t}
    BY <1>1, <2>1, AtMoved
  <2>3. t \notin At({"writing", "cond_unlock"}) /\ t \notin At({"reading"}) /\ t \notin At({"cond_blocked"})
        /\ t \notin At({"read", "read_blocked"}) /\ t \notin At({"cond_unlock"})
    BY <1>1 DEF At
  <2>4. /\ Writers' = Writers /\ Readers' = Readers /\ RLockers' = RLockers /\ Waiters' = Waiters
        /\ Lockers' = Lockers \cup {t}
    BY <1>1, <2>2, <2>3 DEF Writers, Readers, RLockers, Lockers, Waiters
  <2> QED
    BY <2>4 DEF Writers, Readers, RLockers, Lockers, Waiters, MonitorSpec!Await
<1>3. CASE ~MustWait
  <2>1. Go(t, "writing") /\ holder = NoThread /\ reader_count = 0
    BY <1>1, <1>3 DEF LockLoop, MustWait, TypeOK
  <2>2. \A places : At(places)' = IF "writing" \in places THEN At(places) \cup {t} ELSE At(places) \ {t}
    BY <1>1, <2>1, AtMoved
  <2>3. t \notin At({"cond_blocked"}) /\ t \notin At({"read", "read_blocked"}) /\ t \notin At({"cond_unlock"})
    BY <1>1 DEF At
  <2>4. Writers = {} /\ Readers = {}
    BY <2>1, FreeWhen
  <2>5. /\ Writers' = {t} /\ Readers' = Readers /\ RLockers' = RLockers /\ Waiters' = Waiters
        /\ Lockers' = Lockers \ {t}
    BY <1>1, <2>2, <2>3, <2>4 DEF Writers, Readers, RLockers, Lockers, Waiters
  <2> QED
    BY <2>4, <2>5 DEF Writers, Readers, RLockers, Lockers, Waiters, MonitorSpec!Acquire, MonitorSpec!Free
<1> QED
  BY <1>2, <1>3

\* So does one of uthread_mutex_lock_readonly, when nobody writes.
LEMMA ReadMapped ==
  ASSUME Exclusion, NEW t \in Thread, uthread_mutex_lock_readonly(t) \/ RetryRead(t)
  PROVE  MonitorSpec!AwaitRead(t) \/ MonitorSpec!AcquireRead(t)
<1>1. TypeOK /\ pc[t] \in {"user", "read"} /\ ReadLoop(t) /\ UNCHANGED <<cond_waiter_queue, ready>>
  BY DEF Exclusion, uthread_mutex_lock_readonly, RetryRead
<1>2. CASE ReaderMustWait
  <2>1. Go(t, "read_blocked")
    BY <1>1, <1>2 DEF ReadLoop
  <2>2. \A places : At(places)' = IF "read_blocked" \in places THEN At(places) \cup {t} ELSE At(places) \ {t}
    BY <1>1, <2>1, AtMoved
  <2>3. t \notin At({"writing", "cond_unlock"}) /\ t \notin At({"reading"}) /\ t \notin At({"cond_blocked"})
        /\ t \notin At({"lock", "lock_blocked"}) /\ t \notin At({"cond_unlock"})
    BY <1>1 DEF At
  <2>4. /\ Writers' = Writers /\ Readers' = Readers /\ Lockers' = Lockers /\ Waiters' = Waiters
        /\ RLockers' = RLockers \cup {t}
    BY <1>1, <2>2, <2>3 DEF Writers, Readers, RLockers, Lockers, Waiters
  <2> QED
    BY <2>4 DEF Writers, Readers, RLockers, Lockers, Waiters, MonitorSpec!AwaitRead
<1>3. CASE ~ReaderMustWait
  <2>1. Go(t, "reading") /\ holder = NoThread
    BY <1>1, <1>3 DEF ReadLoop, ReaderMustWait
  <2>2. \A places : At(places)' = IF "reading" \in places THEN At(places) \cup {t} ELSE At(places) \ {t}
    BY <1>1, <2>1, AtMoved
  <2>3. t \notin At({"writing", "cond_unlock"}) /\ t \notin At({"cond_blocked"})
        /\ t \notin At({"lock", "lock_blocked"}) /\ t \notin At({"cond_unlock"})
    BY <1>1 DEF At
  <2>4. Writers = {}
    BY <2>1, FreeWhen
  <2>5. /\ Writers' = Writers /\ Readers' = Readers \cup {t} /\ Lockers' = Lockers /\ Waiters' = Waiters
        /\ RLockers' = RLockers \ {t}
    BY <1>1, <2>2, <2>3 DEF Writers, Readers, RLockers, Lockers, Waiters
  <2> QED
    BY <2>4, <2>5 DEF Writers, Readers, RLockers, Lockers, Waiters, MonitorSpec!AcquireRead
<1> QED
  BY <1>2, <1>3

\* What an unlock wakes waits for the mutex, not for a condition.
LEMMA UnlockReady ==
  ASSUME TypeOK, QueueDiscipline, Unlock
  PROVE  /\ ready \subseteq ready'
         /\ \A u \in ready' \ ready : pc[u] \in {"lock_blocked", "read_blocked"}
<1>1. Queued(waiter_queue) \cup Queued(reader_waiter_queue) \subseteq At({"lock_blocked"}) \cup At({"read_blocked"})
  BY DEF QueueDiscipline
<1>2. uthread_dequeue(waiter_queue) \subseteq Queued(waiter_queue)
  BY DequeueSet DEF TypeOK, QueueDiscipline
<1>3. ready' \in {ready, ready \cup uthread_dequeue(waiter_queue), ready \cup Queued(reader_waiter_queue)}
  BY DEF Unlock, WakeNext
<1> QED
  BY <1>1, <1>2, <1>3 DEF At

\* uthread_mutex_unlock gives the mutex up.
LEMMA UnlockMapped ==
  ASSUME Exclusion, QueueDiscipline, NEW t \in Thread, uthread_mutex_unlock(t)
  PROVE  MonitorSpec!Release(t)
<1>1. /\ TypeOK /\ pc[t] \in {"writing", "reading"} /\ Unlock /\ Go(t, "user")
      /\ UNCHANGED cond_waiter_queue
  BY DEF Exclusion, uthread_mutex_unlock
<1>2. \A places : At(places)' = IF "user" \in places THEN At(places) \cup {t} ELSE At(places) \ {t}
  BY <1>1, AtMoved
<1>3. /\ t \notin At({"cond_blocked"}) /\ t \notin At({"cond_unlock"})
      /\ t \notin At({"lock", "lock_blocked"}) /\ t \notin At({"read", "read_blocked"})
      /\ t \in Writers \cup Readers
  BY <1>1 DEF At, Writers, Readers
<1>4. ready' \cap At({"cond_blocked"}) = ready \cap At({"cond_blocked"})
  BY <1>1, UnlockReady DEF At
<1>5. /\ Writers' = Writers \ {t} /\ Readers' = Readers \ {t} /\ Lockers' = Lockers /\ Waiters' = Waiters
      /\ RLockers' = RLockers
  BY <1>1, <1>2, <1>3, <1>4 DEF Writers, Readers, RLockers, Lockers, Waiters
<1> QED
  BY <1>3, <1>5 DEF Writers, Readers, RLockers, Lockers, Waiters, MonitorSpec!Release

\* uthread_cond_wait gives it up when it unlocks, and the thread waits from then on.
LEMMA CondUnlockMapped ==
  ASSUME Exclusion, QueueDiscipline, NEW t \in Thread, CondUnlock(t)
  PROVE  \E c \in Cond : MonitorSpec!Wait(t, c)
<1>1. /\ TypeOK /\ pc[t] = "cond_unlock" /\ Unlock /\ Go(t, "cond_blocked")
      /\ UNCHANGED cond_waiter_queue
  BY DEF Exclusion, CondUnlock
<1>2. \A places : At(places)' = IF "cond_blocked" \in places THEN At(places) \cup {t} ELSE At(places) \ {t}
  BY <1>1, AtMoved
<1>3. /\ t \notin At({"cond_blocked"}) /\ t \in At({"cond_unlock"}) /\ t \notin At({"reading"})
      /\ t \notin At({"lock", "lock_blocked"}) /\ t \notin At({"read", "read_blocked"})
      /\ t \in Writers /\ t \notin ready /\ t \notin ready'
  <2>1. t \notin ready
    BY <1>1 DEF QueueDiscipline, At, Blocked
  <2>2. t \notin ready'
    BY <1>1, <2>1, UnlockReady
  <2> QED
    BY <1>1, <2>1, <2>2 DEF At, Writers
<1>4. ready' \cap At({"cond_blocked"}) = ready \cap At({"cond_blocked"})
  BY <1>1, UnlockReady DEF At
<1>5. PICK c \in Cond : t \in Queued(cond_waiter_queue[c])
  <2>1. t \in At({"cond_unlock", "cond_blocked"})
    BY <1>1 DEF At
  <2> QED
    BY <1>3, <2>1 DEF QueueDiscipline, CondWaiters
<1>6. \A d \in Cond : d # c => t \notin Queued(cond_waiter_queue[d])
  BY <1>5 DEF QueueDiscipline
<1>7. Waiters' = [Waiters EXCEPT ![c] = @ \cup {t}]
  BY <1>1, <1>2, <1>3, <1>5, <1>6 DEF Waiters
<1>8. /\ Writers' = Writers \ {t} /\ Readers' = Readers /\ Lockers' = Lockers /\ RLockers' = RLockers
  BY <1>1, <1>2, <1>3, <1>4 DEF Writers, Readers, RLockers, Lockers
<1> QED
  BY <1>3, <1>7, <1>8 DEF Writers, Readers, RLockers, Lockers, Waiters, MonitorSpec!Wait

\* A thread that resumes goes on waiting for the mutex.
LEMMA ResumeMapped ==
  ASSUME Exclusion, NEW t \in Thread, Resume(t)
  PROVE  UNCHANGED Mapped
<1>1. TypeOK /\ pc[t] \in Blocked /\ t \in ready /\ ready' = ready \ {t} /\ UNCHANGED cond_waiter_queue
  BY DEF Exclusion, Resume
<1>2. CASE pc[t] = "read_blocked"
  <2>1. \A places : At(places)' = IF "read" \in places THEN At(places) \cup {t} ELSE At(places) \ {t}
    BY <1>1, <1>2, AtMoved DEF Resume, AfterBlock
  <2>2. /\ t \notin At({"writing", "cond_unlock"}) /\ t \notin At({"reading"}) /\ t \notin At({"cond_blocked"})
        /\ t \notin At({"lock", "lock_blocked"}) /\ t \notin At({"cond_unlock"}) /\ t \in At({"read", "read_blocked"})
    BY <1>2 DEF At
  <2> QED
    BY <1>1, <2>1, <2>2 DEF Mapped, Writers, Readers, RLockers, Lockers, Waiters
<1>3. CASE pc[t] # "read_blocked"
  <2>1. \A places : At(places)' = IF "lock" \in places THEN At(places) \cup {t} ELSE At(places) \ {t}
    BY <1>1, <1>3, AtMoved DEF Resume, AfterBlock
  <2>2. /\ t \notin At({"writing", "cond_unlock"}) /\ t \notin At({"reading"})
        /\ t \notin At({"read", "read_blocked"}) /\ t \notin At({"cond_unlock"})
        /\ t \in At({"lock", "lock_blocked"}) \/ t \in At({"cond_blocked"})
    BY <1>1, <1>3 DEF At, Blocked
  <2>3. Lockers' = Lockers
    BY <1>1, <2>1, <2>2 DEF Lockers
  <2> QED
    BY <1>1, <2>1, <2>2, <2>3 DEF Mapped, Writers, Readers, RLockers, Waiters
<1> QED
  BY <1>2, <1>3

\* A thread that has queued for a condition still has the mutex.
LEMMA CondWaitMapped ==
  ASSUME Exclusion, QueueDiscipline, NEW t \in Thread, NEW c \in Cond, uthread_cond_wait(t, c)
  PROVE  UNCHANGED Mapped
<1>1. /\ TypeOK /\ pc[t] = "writing" /\ Go(t, "cond_unlock") /\ UNCHANGED ready
      /\ cond_waiter_queue' = [cond_waiter_queue EXCEPT ![c] = uthread_enqueue(@, t)]
  BY DEF Exclusion, uthread_cond_wait
<1>2. \A places : At(places)' = IF "cond_unlock" \in places THEN At(places) \cup {t} ELSE At(places) \ {t}
  BY <1>1, AtMoved
<1>3. /\ t \in At({"writing", "cond_unlock"}) /\ t \notin At({"reading"}) /\ t \notin At({"cond_blocked"})
      /\ t \notin At({"lock", "lock_blocked"}) /\ t \notin At({"read", "read_blocked"})
      /\ t \notin At({"cond_unlock", "cond_blocked"})
  BY <1>1 DEF At
<1>4. \A d \in Cond : t \notin Queued(cond_waiter_queue[d])
  BY <1>3 DEF QueueDiscipline, CondWaiters
<1>5. \A d \in Cond : Queued(cond_waiter_queue'[d]) = Queued(cond_waiter_queue[d]) \cup (IF d = c THEN {t} ELSE {})
  BY <1>1, EnqueueSet DEF TypeOK
<1>6. Waiters' = Waiters
  <2>1. \A d \in Cond : Queued(cond_waiter_queue'[d]) \ At({"cond_unlock"})' = Queued(cond_waiter_queue[d]) \ At({"cond_unlock"})
    BY <1>2, <1>4, <1>5
  <2> QED
    BY <2>1 DEF Waiters
<1> QED
  BY <1>1, <1>2, <1>3, <1>6 DEF Mapped, Writers, Readers, RLockers, Lockers

\* Signal and broadcast move threads from a condition to the mutex.
LEMMA CondWakeMapped ==
  ASSUME Exclusion, QueueDiscipline, NEW t \in Thread, NEW c \in Cond,
         NEW woken, woken \subseteq Queued(cond_waiter_queue[c]), pc[t] = "writing", ready' = ready \cup woken,
         \A d \in Cond : Queued(cond_waiter_queue'[d]) = Queued(cond_waiter_queue[d]) \ (IF d = c THEN woken ELSE {}),
         UNCHANGED <<mutex, pc>>
  PROVE  /\ t \in Writers /\ Waiters[c] = Queued(cond_waiter_queue[c])
         /\ MonitorSpec!Wake(c, woken)
<1>1. At({"cond_unlock"}) = {} /\ t \in Writers
  <2>1. t \in Writers
    BY DEF At, Writers
  <2>2. \A u \in Writers : u = t
    BY <2>1 DEF Exclusion, MutualExclusion, Writers
  <2> QED
    BY <2>1, <2>2 DEF At, Writers
<1>2. Waiters[c] = Queued(cond_waiter_queue[c])
  BY <1>1 DEF Waiters
<1>3. woken \subseteq At({"cond_blocked"})
  <2>1. woken \subseteq At({"cond_unlock", "cond_blocked"})
    <3>1. cond_waiter_queue[c] \in Seq(Thread)
      BY DEF Exclusion, TypeOK
    <3>2. woken \subseteq CondWaiters
      BY <3>1 DEF CondWaiters, Queued
    <3> QED
      BY <3>2 DEF QueueDiscipline
  <2> QED
    BY <1>1, <2>1 DEF At
<1>4. \A places : At(places)' = At(places)
  BY DEF At
<1>5. Writers' = Writers /\ Readers' = Readers /\ RLockers' = RLockers /\ Lockers' = Lockers \cup woken
  BY <1>3, <1>4 DEF Writers, Readers, RLockers, Lockers
<1>6. Waiters' = [Waiters EXCEPT ![c] = @ \ woken]
  <2>1. \A d \in Cond : Queued(cond_waiter_queue'[d]) \ At({"cond_unlock"})'
                          = IF d = c THEN (Queued(cond_waiter_queue[d]) \ At({"cond_unlock"})) \ woken
                                     ELSE Queued(cond_waiter_queue[d]) \ At({"cond_unlock"})
    BY <1>4
  <2> QED
    BY <2>1 DEF Waiters
<1> QED
  BY <1>1, <1>2, <1>5, <1>6 DEF Writers, Readers, RLockers, Lockers, Waiters, MonitorSpec!Wake

\* uthread_cond_signal wakes one waiter, if there is one.
LEMMA SignalMapped ==
  ASSUME Exclusion, QueueDiscipline, NEW t \in Thread, NEW c \in Cond, uthread_cond_signal(t, c)
  PROVE  MonitorSpec!Signal(t, c)
<1> DEFINE woken == uthread_dequeue(cond_waiter_queue[c])
<1>1. cond_waiter_queue \in [Cond -> Seq(Thread)] /\ NoDuplicates(cond_waiter_queue[c])
  BY DEF Exclusion, TypeOK, QueueDiscipline
<1>2. /\ woken \subseteq Queued(cond_waiter_queue[c]) /\ ready' = ready \cup woken
      /\ Queued(Dequeued(cond_waiter_queue[c])) = Queued(cond_waiter_queue[c]) \ woken
      /\ cond_waiter_queue[c] \in Seq(Thread)
  BY <1>1, DequeueSet DEF uthread_cond_signal
<1>3. \A d \in Cond : Queued(cond_waiter_queue'[d]) = Queued(cond_waiter_queue[d]) \ (IF d = c THEN woken ELSE {})
  BY <1>1, <1>2 DEF uthread_cond_signal
<1>4. t \in Writers /\ Waiters[c] = Queued(cond_waiter_queue[c]) /\ MonitorSpec!Wake(c, woken)
  BY <1>2, <1>3, CondWakeMapped DEF uthread_cond_signal
<1>5. CASE cond_waiter_queue[c] = <<>>
  <2>1. Waiters[c] = {} /\ woken = {}
    BY <1>4, <1>5 DEF Queued, uthread_dequeue
  <2>2. UNCHANGED Mapped
    BY <2>1, <1>3 DEF uthread_cond_signal, mutex, Mapped, Writers, Readers, RLockers, Lockers, Waiters, At
  <2> QED
    BY <1>4, <2>1, <2>2 DEF Mapped, Writers, Readers, RLockers, Lockers, Waiters, MonitorSpec!Signal, MonitorSpec!vars
<1>6. CASE cond_waiter_queue[c] # <<>>
  <2>1. PICK s : woken = {s}
    BY <1>6 DEF uthread_dequeue
  <2>2. s \in Waiters[c] /\ MonitorSpec!Wake(c, {s})
    BY <1>2, <1>4, <2>1
  <2> QED
    BY <1>4, <2>2 DEF Writers, Waiters, MonitorSpec!Signal
<1> QED
  BY <1>5, <1>6

\* uthread_cond_broadcast wakes all.
LEMMA BroadcastMapped ==
  ASSUME Exclusion, QueueDiscipline, NEW t \in Thread, NEW c \in Cond, uthread_cond_broadcast(t, c)
  PROVE  MonitorSpec!Broadcast(t, c)
<1> DEFINE woken == Queued(cond_waiter_queue[c])
<1>1. cond_waiter_queue \in [Cond -> Seq(Thread)]
  BY DEF Exclusion, TypeOK
<1>2. Queued(<<>>) = {}
  BY DEF Queued
<1>3. \A d \in Cond : Queued(cond_waiter_queue'[d]) = Queued(cond_waiter_queue[d]) \ (IF d = c THEN woken ELSE {})
  BY <1>1, <1>2 DEF uthread_cond_broadcast
<1>4. t \in Writers /\ Waiters[c] = Queued(cond_waiter_queue[c]) /\ MonitorSpec!Wake(c, woken)
  BY <1>3, CondWakeMapped DEF uthread_cond_broadcast
<1> QED
  BY <1>4 DEF Writers, Waiters, MonitorSpec!Broadcast

\* Every step of the mutex and its conditions is a step of the monitor, or changes nothing that
\* its clients see.
THEOREM ImplementsMonitorSafety == Spec => MonitorSpec!Init /\ [][MonitorSpec!Next]_(MonitorSpec!vars)
<1>1. Init => MonitorSpec!Init
  <2> SUFFICES ASSUME Init PROVE MonitorSpec!Init
    OBVIOUS
  <2>1. \A places : "user" \notin places => At(places) = {}
    BY DEF Init, At
  <2>2. \A c \in Cond : Queued(cond_waiter_queue[c]) = {}
    BY DEF Init, Queued, uthread_initqueue
  <2> QED
    BY <2>1, <2>2 DEF MonitorSpec!Init
<1>2. Exclusion /\ QueueDiscipline /\ [Next]_vars => [MonitorSpec!Next]_(MonitorSpec!vars)
  <2> SUFFICES ASSUME Exclusion, QueueDiscipline, [Next]_vars
               PROVE  MonitorSpec!Next \/ UNCHANGED Mapped
    BY DEF Mapped, Writers, Readers, RLockers, Lockers, Waiters, MonitorSpec!vars
  <2>1. CASE UNCHANGED vars
    BY <2>1 DEF vars, mutex, Mapped, Writers, Readers, RLockers, Lockers, Waiters, At
  <2>2. CASE Next
    <3>1. PICK t \in Thread :
            \/ uthread_mutex_lock(t) \/ RetryLock(t)
            \/ uthread_mutex_lock_readonly(t) \/ RetryRead(t)
            \/ uthread_mutex_unlock(t)
            \/ CondUnlock(t) \/ Resume(t)
            \/ \E c \in Cond :
                 uthread_cond_wait(t, c) \/ uthread_cond_signal(t, c) \/ uthread_cond_broadcast(t, c)
      BY <2>2 DEF Next
    <3>2. \/ MonitorSpec!Await(t) \/ MonitorSpec!Acquire(t) \/ MonitorSpec!AwaitRead(t)
          \/ MonitorSpec!AcquireRead(t) \/ MonitorSpec!Release(t)
          \/ \E c \in Cond : MonitorSpec!Wait(t, c) \/ MonitorSpec!Signal(t, c) \/ MonitorSpec!Broadcast(t, c)
          \/ UNCHANGED Mapped
      BY <3>1, LockMapped, ReadMapped, UnlockMapped, CondUnlockMapped, ResumeMapped, CondWaitMapped,
         SignalMapped, BroadcastMapped
    <3> QED
      BY <3>2 DEF MonitorSpec!Next
  <2> QED
    BY <2>1, <2>2
<1>3. Spec => []Exclusion
  BY ExclusionInit, ExclusionStep, PTL DEF Spec
<1> QED
  BY <1>1, <1>2, <1>3, DisciplineHolds, PTL DEF Spec
=============================================================================
