---------------------------- MODULE UThreadQueue ----------------------------
(***************************************************************************)
(* The thread queues of uthread.c (uthread_queue_t) as sequences.  In the   *)
(* code a queue is a linked list threaded through the TCB field `next', so  *)
(* a thread can be in one queue only; the modules that use these operators  *)
(* check that discipline of every queue they keep.                          *)
(***************************************************************************)
EXTENDS Naturals, Sequences, FiniteSets

Queued(queue) == {queue[i] : i \in DOMAIN queue}

uthread_initqueue == <<>>

\* A thread whose `next' is set, or that is the tail, is in the queue already
\* and the call returns without doing anything.
uthread_enqueue(queue, thread) ==
  IF thread \in Queued(queue) THEN queue ELSE Append(queue, thread)

\* What uthread_dequeue returns, as a set: empty when it returns 0.
uthread_dequeue(queue) == IF queue = <<>> THEN {} ELSE {Head(queue)}

\* Mistake: the head is returned but stays in the queue.
Dequeued_Kept(queue) == queue

\* What it leaves in the queue.
Dequeued(queue) == IF queue = <<>> THEN queue ELSE Tail(queue)

uthread_queue_is_empty(queue) == queue = <<>>

NoDuplicates(queue) ==
  \A i, j \in DOMAIN queue : queue[i] = queue[j] => i = j
=============================================================================
