------------------------------ MODULE ReadQueue ------------------------------
(***************************************************************************)
(* queue.c as treasureHunt.c and tRead.c use it: the program says for each   *)
(* read what is to be done when it completes, and the interrupt service     *)
(* routine takes the oldest entry.                                          *)
(***************************************************************************)
EXTENDS Disk

VARIABLES pending_read_queue, q_mutex

QueueInit == pending_read_queue = <<>> /\ q_mutex = FALSE

\* By the program, with the signal blocked.
queue_enqueue(val) ==
  /\ ~Interrupted /\ ~q_mutex
  /\ pending_read_queue' = Append(pending_read_queue, val)
  /\ MaskAfterUnlock
  /\ UNCHANGED <<disk, isInterrupt, frames, q_mutex>>

LockQueue ==
  /\ HandlerAt("isr") /\ ~q_mutex
  /\ q_mutex' = TRUE
  /\ MaskForLock
  /\ GoTo("dequeue")
  /\ UNCHANGED <<disk, isInterrupt, pending_read_queue>>

\* The routine goes on with the entry, a null pointer if there is none: then there is no next step.
queue_dequeue ==
  /\ HandlerAt("dequeue")
  /\ pending_read_queue # <<>>
  /\ pending_read_queue' = Tail(pending_read_queue)
  /\ q_mutex' = FALSE
  /\ MaskAfterUnlock
  /\ frames' = [frames EXCEPT ![Len(frames)].pc = "callback",
                              ![Len(frames)].val = Head(pending_read_queue)]
  /\ UNCHANGED <<disk, isInterrupt>>
-----------------------------------------------------------------------------
\* An entry for each read under way; unread says that the program has queued one and not yet
\* scheduled its read.
EntryForRead(unread) ==
  Len(pending_read_queue) =
    Len(prq) + unread
      + Cardinality({n \in DOMAIN frames : frames[n].pc \in {"deliver", "isr", "dequeue"}})
=============================================================================
