-------------------------------- MODULE Disk --------------------------------
(***************************************************************************)
(* disk.c: a queue of pending reads and the handler of the timer signal,    *)
(* which completes the reads whose time has come and calls the client's     *)
(* interrupt service routine for each.                                      *)
(*                                                                         *)
(* There is one processor.  The handler runs on the stack of the program it *)
(* interrupts, which goes on when the handler has returned.  The system     *)
(* blocks SIGALRM while the handler runs, but spinlock_unlock unblocks it    *)
(* unless isInterrupt is set, so a handler can be interrupted by another:   *)
(* frames are the handlers that have not returned, the innermost last.      *)
(*                                                                         *)
(* A client takes a handler from the place "isr" to "delivered", and does   *)
(* its own steps while there is no frame.                                   *)
(***************************************************************************)
EXTENDS Integers, SequencesExt

CONSTANTS
  Buffer,     \* where reads are copied to
  MaxDepth    \* how many handlers may be active; 1: the timer is slower than the handler

ASSUME DepthAssumption == MaxDepth \in Nat \ {0}

VARIABLES
  buf,
  prq,          \* the pending reads, the oldest first
  taken,        \* how many reads left prq
  clock,        \* how many reads, in the order of the queue, have reached their completeTime
  prq_mutex,
  masked,       \* SIGALRM is blocked
  isInterrupt,
  frames

disk == <<buf, prq, taken, clock, prq_mutex>>
signals == <<masked, isInterrupt, frames>>

story == <<20,21,11,9,5,29,13,18,27,10,26,23,25,4,2,8,19,0,16,3,1,22,14,28,12,24,15,7,17,6>>
StoryAt(blockno) == story[1 + (blockno % Len(story))]

\* What the first blocks add up to.
Total[blocks \in Nat] == IF blocks = 0 THEN 0 ELSE Total[blocks - 1] + StoryAt(blocks - 1)

DiskPlace == {"prq_lock", "prq", "deliver", "isr", "delivered", "return"}

DiskTypeOK(Place) ==
  /\ buf \in [Buffer -> Int]
  /\ prq \in Seq([buf : Buffer, blockNo : Nat])
  /\ taken \in Nat /\ clock \in taken .. taken + Len(prq)
  /\ prq_mutex \in BOOLEAN /\ masked \in BOOLEAN /\ isInterrupt \in BOOLEAN
  /\ Len(frames) =< MaxDepth
  /\ \A n \in DOMAIN frames : frames[n].pc \in DiskPlace \cup Place /\ frames[n].now =< clock

DiskInit ==
  /\ buf = [b \in Buffer |-> 0]
  /\ prq = <<>> /\ taken = 0 /\ clock = 0
  /\ prq_mutex = FALSE
  /\ masked = FALSE /\ isInterrupt = FALSE
  /\ frames = <<>>

Interrupted == frames # <<>>
HandlerAt(place) == Interrupted /\ Last(frames).pc = place
GoTo(place) == frames' = [frames EXCEPT ![Len(frames)].pc = place]

\* Mistake: the signal is not blocked.
MaskForLock_Never == masked' = masked

\* The signal mask after spinlock_lock and after spinlock_unlock.
MaskForLock == masked' = (masked \/ ~isInterrupt)
MaskAfterUnlock == masked' = (masked /\ isInterrupt)

\* By the program: a section with the mutex, in which no handler can come.
disk_schedule_read(resultBuf, blockNo) ==
  /\ ~Interrupted
  /\ prq' = Append(prq, [buf |-> resultBuf, blockNo |-> blockNo])
  /\ MaskAfterUnlock
  /\ UNCHANGED <<buf, taken, clock, prq_mutex, isInterrupt, frames>>

\* The completeTime of the next read passes.
Tick ==
  /\ clock < taken + Len(prq)
  /\ clock' = clock + 1
  /\ UNCHANGED <<buf, prq, taken, prq_mutex, signals>>

\* The timer expires, every millisecond; the handler first looks at the time.
Interrupt ==
  /\ ~masked /\ Len(frames) < MaxDepth
  /\ frames' = Append(frames, [pc |-> "prq_lock", now |-> clock, val |-> 0])
  /\ masked' = TRUE
  /\ UNCHANGED <<disk, isInterrupt>>

LockPrq ==
  /\ HandlerAt("prq_lock")
  /\ ~prq_mutex
  /\ prq_mutex' = TRUE
  /\ MaskForLock
  /\ GoTo("prq")
  /\ UNCHANGED <<buf, prq, taken, clock, isInterrupt>>

Due == prq # <<>> /\ taken < Last(frames).now

\* Mistake: the newest read is completed.
CompleteRead_Newest ==
  /\ HandlerAt("prq") /\ Due
  /\ buf' = [buf EXCEPT ![Last(prq).buf] = StoryAt(Last(prq).blockNo)]
  /\ prq' = Front(prq)
  /\ taken' = taken + 1
  /\ prq_mutex' = FALSE
  /\ MaskAfterUnlock
  /\ GoTo("deliver")
  /\ UNCHANGED <<clock, isInterrupt>>

\* performDMA and prq_dequeue_lock_held, then the mutex is released for the delivery.
CompleteRead ==
  /\ HandlerAt("prq") /\ Due
  /\ buf' = [buf EXCEPT ![Head(prq).buf] = StoryAt(Head(prq).blockNo)]
  /\ prq' = Tail(prq)
  /\ taken' = taken + 1
  /\ prq_mutex' = FALSE
  /\ MaskAfterUnlock
  /\ GoTo("deliver")
  /\ UNCHANGED <<clock, isInterrupt>>

NoneDue ==
  /\ HandlerAt("prq") /\ ~Due
  /\ prq_mutex' = FALSE
  /\ MaskAfterUnlock
  /\ GoTo("return")
  /\ UNCHANGED <<buf, prq, taken, clock, isInterrupt>>

\* The system restores the mask of the interrupted program, which did not block the signal.
Return ==
  /\ HandlerAt("return")
  /\ frames' = Front(frames)
  /\ masked' = FALSE
  /\ UNCHANGED <<disk, isInterrupt>>

\* deliverInterrupt, before and after the interrupt service routine.
deliverInterrupt ==
  \/ HandlerAt("deliver") /\ isInterrupt' = TRUE /\ GoTo("isr") /\ UNCHANGED <<disk, masked>>
  \/ HandlerAt("delivered") /\ isInterrupt' = FALSE /\ GoTo("prq_lock") /\ UNCHANGED <<disk, masked>>

handleTimerInterrupt == LockPrq \/ CompleteRead \/ NoneDue \/ Return \/ deliverInterrupt

DiskNext == Tick \/ Interrupt \/ handleTimerInterrupt
-----------------------------------------------------------------------------
\* The handler cannot spin for prq_mutex: who holds it cannot be interrupted.  It holds at any
\* depth, because isInterrupt is cleared or the system blocks the signal wherever the lock is taken.
LockMasked == prq_mutex => masked
=============================================================================
