------------------------------- MODULE ARead -------------------------------
(***************************************************************************)
(* aRead.c on Disk: the program queues a callback and schedules a read for   *)
(* each block, then polls counter.  The interrupt service routine takes a   *)
(* callback from the queue, whose spinlock it needs, and calls it.          *)
(***************************************************************************)
EXTENDS Disk, FiniteSetsExt

CONSTANT num_blocks

ASSUME BlocksAssumption == num_blocks \in Nat

result == "result"   \* &result, the same for every block

ASSUME ResultAssumption == result \in Buffer

VARIABLES
  pending_read_queue,  \* the val of each element; the callback is always handle_read
  q_mutex,
  sum, counter,
  blockno, pc          \* the loop of main

program == <<blockno, pc>>
totals == <<sum, counter>>
callbacks == <<pending_read_queue, q_mutex>>
vars == <<disk, signals, callbacks, totals, program>>

IsrPlace == {"dequeue", "callback", "add", "count"}

TypeOK ==
  /\ DiskTypeOK(IsrPlace)
  /\ pending_read_queue \in Seq(Buffer) /\ q_mutex \in BOOLEAN
  /\ sum \in Nat /\ counter \in 0 .. num_blocks
  /\ blockno \in 0 .. num_blocks /\ pc \in {"enqueue", "schedule", "poll", "end"}

Init ==
  /\ DiskInit
  /\ pending_read_queue = <<>> /\ q_mutex = FALSE
  /\ sum = 0 /\ counter = 0
  /\ blockno = 0 /\ pc = "enqueue"

\* Mistake: the read is scheduled before its callback is queued.
IssueRead_ReadFirst ==
  /\ blockno < num_blocks
  /\ \/ /\ pc = "schedule" /\ ~Interrupted /\ ~q_mutex
        /\ pending_read_queue' = Append(pending_read_queue, result)
        /\ MaskAfterUnlock
        /\ pc' = "enqueue" /\ blockno' = blockno + 1
        /\ UNCHANGED <<disk, isInterrupt, frames>>
     \/ /\ pc = "enqueue" /\ disk_schedule_read(result, blockno)
        /\ pc' = "schedule"
        /\ UNCHANGED <<pending_read_queue, blockno>>
  /\ UNCHANGED <<q_mutex, totals>>

\* queue_enqueue, with the signal blocked, then disk_schedule_read.
IssueRead ==
  /\ blockno < num_blocks
  /\ \/ /\ pc = "enqueue" /\ ~Interrupted /\ ~q_mutex
        /\ pending_read_queue' = Append(pending_read_queue, result)
        /\ MaskAfterUnlock
        /\ pc' = "schedule"
        /\ UNCHANGED <<disk, isInterrupt, frames, blockno>>
     \/ /\ pc = "schedule" /\ disk_schedule_read(result, blockno)
        /\ pc' = "enqueue" /\ blockno' = blockno + 1
        /\ UNCHANGED pending_read_queue
  /\ UNCHANGED <<q_mutex, totals>>

\* while (counter != num_blocks), then the sum is printed.
Poll ==
  /\ ~Interrupted
  /\ \/ pc = "enqueue" /\ blockno = num_blocks /\ pc' = "poll"
     \/ pc = "poll" /\ counter = num_blocks /\ pc' = "end"
  /\ UNCHANGED <<disk, signals, callbacks, totals, blockno>>

main == IssueRead \/ Poll

LockQueue ==
  /\ HandlerAt("isr") /\ ~q_mutex
  /\ q_mutex' = TRUE
  /\ MaskForLock
  /\ GoTo("dequeue")
  /\ UNCHANGED <<disk, isInterrupt, pending_read_queue, totals, program>>

\* Without a callback in the queue the routine calls a null pointer: there is no next step.
queue_dequeue ==
  /\ HandlerAt("dequeue")
  /\ pending_read_queue # <<>>
  /\ pending_read_queue' = Tail(pending_read_queue)
  /\ q_mutex' = FALSE
  /\ MaskAfterUnlock
  /\ GoTo("callback")
  /\ UNCHANGED <<disk, isInterrupt, totals, program>>

\* sum += *(int*)resultv is a load of sum and of the buffer, and a store; then counter++.
handle_read ==
  /\ \/ /\ HandlerAt("callback")
        /\ frames' = [frames EXCEPT ![Len(frames)].pc = "add", ![Len(frames)].val = sum + buf[result]]
        /\ UNCHANGED totals
     \/ /\ HandlerAt("add")
        /\ sum' = Last(frames).val
        /\ GoTo("count")
        /\ UNCHANGED counter
     \/ /\ HandlerAt("count")
        /\ counter' = counter + 1
        /\ GoTo("delivered")
        /\ UNCHANGED sum
  /\ UNCHANGED <<disk, masked, isInterrupt, callbacks, program>>

interrupt_service_routine == LockQueue \/ queue_dequeue \/ handle_read

Handle ==
  \/ handleTimerInterrupt /\ UNCHANGED <<callbacks, totals, program>>
  \/ interrupt_service_routine

Time == Tick /\ UNCHANGED <<callbacks, totals, program>>
Signal == Interrupt /\ UNCHANGED <<callbacks, totals, program>>

Next == Time \/ Signal \/ Handle \/ main

\* Time passes and the timer expires again and again; a handler is carried on, and as it takes
\* less than a period of the timer the program gets the processor in between.
Fairness == WF_vars(Time) /\ SF_vars(Signal) /\ WF_vars(Handle) /\ SF_vars(main)

Spec == Init /\ [][Next]_vars /\ Fairness
-----------------------------------------------------------------------------
Handlers(places) == {n \in DOMAIN frames : frames[n].pc \in places}

\* Each pending read has its callback in the queue, however the program and handlers are
\* interleaved: the routine never finds the queue empty.
CallbackForRead ==
  Len(pending_read_queue) =
    Len(prq) + Cardinality(Handlers({"deliver", "isr", "dequeue"}))
             + (IF pc = "schedule" THEN 1 ELSE 0)

\* The printed sum is that of the blocks, each counted once.
SumCorrect == pc = "end" => sum = Total[num_blocks]

\* Reads are delivered in the order in which they were requested: the sum of those counted is
\* the sum of the first blocks.
InRequestOrder == ~Interrupted => sum = Total[counter]

\* All reads are delivered and the program ends.
Termination == <>(pc = "end")
=============================================================================
