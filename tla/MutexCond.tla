----------------------------- MODULE MutexCond -----------------------------
(***************************************************************************)
(* One mutex of uthread_mutex_cond.c, the condition variables made for it   *)
(* (uthread_cond_create(mutex)) and the threads that use them.              *)
(*                                                                         *)
(* A section between spinlock_lock and spinlock_unlock is one step.         *)
(* uthread_block and uthread_unblock are as in Semaphore: `ready' holds the *)
(* threads that were unblocked and have not returned from uthread_block.    *)
(*                                                                         *)
(* The client is any program that gives back what it holds with one         *)
(* uthread_mutex_unlock and waits, signals and broadcasts holding the mutex *)
(* for writing.  Its knowledge is `pc': a thread unlocks because its lock   *)
(* call returned, not because the mutex says that it is the holder.         *)
(***************************************************************************)
EXTENDS Integers, UThreadQueue

CONSTANTS Thread, Cond, NoThread

ASSUME ThreadAssumption == IsFiniteSet(Thread)
ASSUME NoThreadAssumption == NoThread \notin Thread

VARIABLES
  holder, reader_count, waiter_queue, reader_waiter_queue,  \* struct uthread_mutex
  cond_waiter_queue,   \* struct uthread_cond, one queue for each condition
  pc,                  \* where each thread is
  ready                \* threads unblocked that have not resumed yet

mutex == <<holder, reader_count, waiter_queue, reader_waiter_queue>>
vars == <<mutex, cond_waiter_queue, pc, ready>>

\* "user":         holds nothing and is in no call
\* "writing":      holds the mutex        "reading": holds it read-only
\* "lock_blocked", "read_blocked", "cond_blocked": queued, in uthread_block
\* "lock", "read": back from uthread_block, about to test the loop condition
\* "cond_unlock":  in uthread_cond_wait, queued and still holding the mutex
Blocked == {"lock_blocked", "read_blocked", "cond_blocked"}
Place == Blocked \cup {"user", "writing", "reading", "lock", "read", "cond_unlock"}

At(places) == {t \in Thread : pc[t] \in places}

TypeOK ==
  /\ holder \in Thread \cup {NoThread}
  /\ reader_count \in Nat
  /\ waiter_queue \in Seq(Thread)
  /\ reader_waiter_queue \in Seq(Thread)
  /\ cond_waiter_queue \in [Cond -> Seq(Thread)]
  /\ pc \in [Thread -> Place]
  /\ ready \in SUBSET Thread

Init ==
  /\ holder = NoThread
  /\ reader_count = 0
  /\ waiter_queue = uthread_initqueue
  /\ reader_waiter_queue = uthread_initqueue
  /\ cond_waiter_queue = [c \in Cond |-> uthread_initqueue]
  /\ pc = [t \in Thread |-> "user"]
  /\ ready = {}

Go(t, place) == pc' = [pc EXCEPT ![t] = place]

(***************************************************************************)
(* uthread_mutex_lock                                                      *)
(***************************************************************************)
\* Mistake: readers are forgotten.
MustWait_HolderOnly == holder # NoThread

MustWait == holder # NoThread \/ reader_count > 0

\* One turn of the loop under the spinlock.
LockLoop(t) ==
  \/ /\ MustWait
     /\ waiter_queue' = uthread_enqueue(waiter_queue, t)
     /\ Go(t, "lock_blocked")
     /\ UNCHANGED <<holder, reader_count, reader_waiter_queue>>
  \/ /\ ~MustWait
     /\ holder' = t
     /\ Go(t, "writing")
     /\ UNCHANGED <<reader_count, waiter_queue, reader_waiter_queue>>

uthread_mutex_lock(t) ==
  /\ pc[t] = "user"
  /\ LockLoop(t)
  /\ UNCHANGED <<cond_waiter_queue, ready>>

RetryLock(t) ==
  /\ pc[t] = "lock"
  /\ LockLoop(t)
  /\ UNCHANGED <<cond_waiter_queue, ready>>

(***************************************************************************)
(* uthread_mutex_lock_readonly                                             *)
(***************************************************************************)
ReaderMustWait == holder # NoThread \/ ~uthread_queue_is_empty(waiter_queue)

ReadLoop(t) ==
  \/ /\ ReaderMustWait
     /\ reader_waiter_queue' = uthread_enqueue(reader_waiter_queue, t)
     /\ Go(t, "read_blocked")
     /\ UNCHANGED <<holder, reader_count, waiter_queue>>
  \/ /\ ~ReaderMustWait
     /\ reader_count' = reader_count + 1
     /\ Go(t, "reading")
     /\ UNCHANGED <<holder, waiter_queue, reader_waiter_queue>>

uthread_mutex_lock_readonly(t) ==
  /\ pc[t] = "user"
  /\ ReadLoop(t)
  /\ UNCHANGED <<cond_waiter_queue, ready>>

RetryRead(t) ==
  /\ pc[t] = "read"
  /\ ReadLoop(t)
  /\ UNCHANGED <<cond_waiter_queue, ready>>

(***************************************************************************)
(* uthread_mutex_unlock                                                    *)
(***************************************************************************)
\* Mistake: counts down whoever unlocks.
ReadersAfterUnlock_Always == reader_count - 1

ReadersAfterUnlock == IF holder # NoThread THEN reader_count ELSE reader_count - 1

\* Mistake: readers before writers.
WakeNext_ReadersFirst ==
  IF uthread_queue_is_empty(reader_waiter_queue)
  THEN /\ ready' = ready \cup uthread_dequeue(waiter_queue)
       /\ waiter_queue' = Dequeued(waiter_queue)
       /\ UNCHANGED reader_waiter_queue
  ELSE /\ ready' = ready \cup Queued(reader_waiter_queue)
       /\ reader_waiter_queue' = <<>>
       /\ UNCHANGED waiter_queue

\* With no reader left: one writer, or else all the readers that wait.
WakeNext ==
  IF uthread_queue_is_empty(waiter_queue)
  THEN /\ ready' = ready \cup Queued(reader_waiter_queue)
       /\ reader_waiter_queue' = <<>>
       /\ UNCHANGED waiter_queue
  ELSE /\ ready' = ready \cup uthread_dequeue(waiter_queue)
       /\ waiter_queue' = Dequeued(waiter_queue)
       /\ UNCHANGED reader_waiter_queue

Unlock ==
  /\ holder' = NoThread
  /\ reader_count' = ReadersAfterUnlock
  /\ IF ReadersAfterUnlock = 0
     THEN WakeNext
     ELSE UNCHANGED <<waiter_queue, reader_waiter_queue, ready>>

uthread_mutex_unlock(t) ==
  /\ pc[t] \in {"writing", "reading"}
  /\ Unlock
  /\ Go(t, "user")
  /\ UNCHANGED cond_waiter_queue

(***************************************************************************)
(* Condition variables                                                     *)
(***************************************************************************)
\* uthread_cond_wait queues the thread without a spinlock (it has the mutex) ...
uthread_cond_wait(t, c) ==
  /\ pc[t] = "writing"
  /\ cond_waiter_queue' = [cond_waiter_queue EXCEPT ![c] = uthread_enqueue(@, t)]
  /\ Go(t, "cond_unlock")
  /\ UNCHANGED <<mutex, ready>>

\* ... and then releases the mutex and blocks.
CondUnlock(t) ==
  /\ pc[t] = "cond_unlock"
  /\ Unlock
  /\ Go(t, "cond_blocked")
  /\ UNCHANGED cond_waiter_queue

uthread_cond_signal(t, c) ==
  /\ pc[t] = "writing"
  /\ ready' = ready \cup uthread_dequeue(cond_waiter_queue[c])
  /\ cond_waiter_queue' = [cond_waiter_queue EXCEPT ![c] = Dequeued(@)]
  /\ UNCHANGED <<mutex, pc>>

uthread_cond_broadcast(t, c) ==
  /\ pc[t] = "writing"
  /\ ready' = ready \cup Queued(cond_waiter_queue[c])
  /\ cond_waiter_queue' = [cond_waiter_queue EXCEPT ![c] = <<>>]
  /\ UNCHANGED <<mutex, pc>>

(***************************************************************************)
(* uthread_block returns                                                   *)
(***************************************************************************)
\* Mistake: uthread_cond_wait returns without locking the mutex again.
AfterBlock_NoLock(place) ==
  CASE place = "read_blocked" -> "read"
    [] place = "cond_blocked" -> "writing"
    [] OTHER -> "lock"

\* uthread_cond_wait goes on with uthread_mutex_lock.
AfterBlock(place) == IF place = "read_blocked" THEN "read" ELSE "lock"

Resume(t) ==
  /\ pc[t] \in Blocked
  /\ t \in ready
  /\ ready' = ready \ {t}
  /\ Go(t, AfterBlock(pc[t]))
  /\ UNCHANGED <<mutex, cond_waiter_queue>>

Next ==
  \E t \in Thread :
    \/ uthread_mutex_lock(t) \/ RetryLock(t)
    \/ uthread_mutex_lock_readonly(t) \/ RetryRead(t)
    \/ uthread_mutex_unlock(t)
    \/ CondUnlock(t) \/ Resume(t)
    \/ \E c \in Cond :
         uthread_cond_wait(t, c) \/ uthread_cond_signal(t, c) \/ uthread_cond_broadcast(t, c)

\* The scheduler takes every thread from its FIFO ready queue and a thread inside
\* a call of the library takes its next step.  No thread has to release the mutex.
Fairness ==
  \A t \in Thread :
    WF_vars(Resume(t)) /\ WF_vars(RetryLock(t)) /\ WF_vars(RetryRead(t)) /\ WF_vars(CondUnlock(t))

Spec == Init /\ [][Next]_vars /\ Fairness
-----------------------------------------------------------------------------
\* What lock calls returned agrees with the fields of the mutex.  So the asserts of
\* uthread_mutex_unlock and of the condition operations hold, and a thread that has
\* the mutex excludes all others, while those that have it read-only exclude writers.
MutualExclusion ==
  /\ At({"writing", "cond_unlock"}) = {holder} \ {NoThread}
  /\ reader_count = Cardinality(At({"reading"}))
  /\ holder # NoThread => reader_count = 0

CondWaiters == {t \in Thread : \E c \in Cond : t \in Queued(cond_waiter_queue[c])}

\* Each thread that is in uthread_block waits in the queue of the call that it made,
\* once, or is on the ready queue: no queue drops a thread and no thread is
\* unblocked twice, whatever mix of unlock, signal and broadcast wakes it.
QueueDiscipline ==
  /\ NoDuplicates(waiter_queue) /\ NoDuplicates(reader_waiter_queue)
  /\ \A c \in Cond : NoDuplicates(cond_waiter_queue[c])
  /\ \A c, d \in Cond :
       c # d => Queued(cond_waiter_queue[c]) \cap Queued(cond_waiter_queue[d]) = {}
  /\ ready \subseteq At(Blocked)
  /\ Queued(waiter_queue) = At({"lock_blocked"}) \ ready
  /\ Queued(reader_waiter_queue) = At({"read_blocked"}) \ ready
  /\ CondWaiters = At({"cond_unlock", "cond_blocked"}) \ ready

\* Threads on their way to test a loop condition: for the mutex, or read-only.
PendingLock == At({"lock"}) \cup (ready \cap At({"lock_blocked", "cond_blocked"}))
PendingRead == At({"read"}) \cup (ready \cap At({"read_blocked"}))

\* When the mutex is free and threads are queued for it, a woken thread is on its
\* way that will find it free: a writer when writers are queued (a woken reader
\* would queue up again behind them and nobody would be left to unlock), any
\* thread when only readers are queued (uthread_mutex_unlock).
NoLostWakeup ==
  holder = NoThread /\ reader_count = 0 =>
    /\ waiter_queue # <<>> => PendingLock # {}
    /\ reader_waiter_queue # <<>> => PendingLock \cup PendingRead # {}

\* The mutex and its condition variables implement Monitor: exclusion, no spurious
\* and no lost signal, and a free mutex is taken while a thread wants it.
MonitorSpec == INSTANCE Monitor WITH
  writers  <- At({"writing", "cond_unlock"}),
  readers  <- At({"reading"}),
  lockers  <- At({"lock", "lock_blocked"}) \cup (ready \cap At({"cond_blocked"})),
  rlockers <- At({"read", "read_blocked"}),
  waiters  <- [c \in Cond |-> Queued(cond_waiter_queue[c]) \ At({"cond_unlock"})]

ImplementsMonitor == MonitorSpec!Spec
=============================================================================
