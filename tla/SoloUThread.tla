---------------------------- MODULE SoloUThread ----------------------------
(***************************************************************************)
(* a9/uthread.c on one processor, as uthread_init(1) starts it: no thread   *)
(* is preempted, uthread_switch goes straight from one to the next, and an  *)
(* idle processor runs the thread of pthread_base, which yields for ever.   *)
(* (a11/uthreads/uthread.c, on several processors, is UThread.)             *)
(***************************************************************************)
EXTENDS Sequences, SequencesExt

CONSTANTS base_thread, pthread_base, Created   \* main, the idle loop, and the other threads

Thread == {base_thread, pthread_base} \cup Created

VARIABLES ready_queue, self, state, joiner

SoloInit ==
  /\ ready_queue = <<pthread_base>> /\ self = base_thread
  /\ state = [t \in Thread |-> IF t = base_thread THEN "RUNNING" ELSE "NASCENT"]
  /\ joiner = [t \in Thread |-> "none"]

\* Mistake: a thread that still runs is not queued.
ready_queue_enqueue_Stopped(t) ==
  ready_queue' = IF state[t] = "RUNNING" THEN ready_queue ELSE Append(ready_queue, t)

\* uthread_enqueue does nothing for a thread that is in the queue.
ready_queue_enqueue(t) ==
  ready_queue' = IF Contains(ready_queue, t) THEN ready_queue ELSE Append(ready_queue, t)

\* uthread_stop: the next thread is taken from the queue, which is never empty (the loop of
\* ready_queue_dequeue would spin), and switched to; it finds what the old one left behind.
uthread_stop(stopping) ==
  /\ ready_queue # <<>>
  /\ ready_queue' = Tail(ready_queue)
  /\ self' = Head(ready_queue)
  /\ state' = [state EXCEPT ![self] = IF stopping = "DYING" THEN "DEAD" ELSE stopping,
                            ![Head(ready_queue)] = "RUNNING"]
  /\ UNCHANGED joiner

uthread_create(t) == ready_queue_enqueue(t) /\ UNCHANGED <<self, state, joiner>>
uthread_unblock(t) == ready_queue_enqueue(t) /\ UNCHANGED <<self, state, joiner>>

\* The first half of uthread_yield; the other is uthread_stop("RUNABLE").
yield == ready_queue_enqueue(self) /\ UNCHANGED <<self, state, joiner>>

\* The start procedure has returned: the joiner is started; uthread_stop("DYING") follows.
exit ==
  /\ state' = [state EXCEPT ![self] = "DYING"]
  /\ IF joiner[self] = "none" THEN UNCHANGED ready_queue ELSE ready_queue_enqueue(joiner[self])
  /\ UNCHANGED <<self, joiner>>

\* uthread_join, before uthread_stop("BLOCKED") if it must wait, and at the end.
MustJoin(t) == state[t] \notin {"DYING", "DEAD"}
BeJoiner(t) == joiner' = [joiner EXCEPT ![t] = self] /\ UNCHANGED <<ready_queue, self, state>>
uthread_free(t) == state' = [state EXCEPT ![t] = "FREED"] /\ UNCHANGED <<ready_queue, self, joiner>>
=============================================================================
