---------------------------- MODULE TreasureHunt ----------------------------
(***************************************************************************)
(* treasureHunt.c on Disk: the first block says how many reads are to       *)
(* follow, and each block is the number of the next one.                    *)
(***************************************************************************)
EXTENDS ReadQueue

CONSTANT result

VARIABLES
  starting_block_number,   \* the argument of the program
  num_reads, counter, i, pc

own == <<starting_block_number, num_reads, counter, i, pc>>
queue == <<pending_read_queue, q_mutex>>

Init(arg) ==
  /\ starting_block_number = arg
  /\ DiskInit /\ QueueInit
  /\ num_reads = 0 /\ counter = 0
  /\ i = 0 /\ pc = "first"

\* The entry for the first read, then the read.
ReadFirst ==
  /\ \/ pc = "first" /\ queue_enqueue("handleFirstRead") /\ pc' = "first_read"
     \/ /\ pc = "first_read" /\ disk_schedule_read(result, starting_block_number)
        /\ pc' = "count" /\ UNCHANGED queue
  /\ UNCHANGED <<starting_block_number, num_reads, counter, i>>

\* The entry for another read, then the read of the block whose number is in the buffer.
ReadOther ==
  /\ i < num_reads
  /\ \/ pc = "hunt" /\ queue_enqueue("handleOtherReads") /\ pc' = "schedule"
     \/ /\ pc = "schedule" /\ disk_schedule_read(result, buf[result])
        /\ pc' = "wait" /\ UNCHANGED queue
  /\ UNCHANGED <<starting_block_number, num_reads, counter, i>>

\* Mistake: the loop does not wait for the last reads.
Arrived_BehindOne == counter >= i

\* The loops that poll: num_reads is 0 for ever if that is what the first block holds.
Arrived == counter # i

Poll ==
  /\ ~Interrupted
  /\ \/ pc = "count" /\ num_reads # 0 /\ pc' = "hunt" /\ UNCHANGED i
     \/ pc = "wait" /\ Arrived /\ i' = i + 1 /\ pc' = "hunt"
     \/ pc = "hunt" /\ i >= num_reads /\ pc' = "end" /\ UNCHANGED i
  /\ UNCHANGED <<disk, signals, queue, starting_block_number, num_reads, counter>>

main == ReadFirst \/ ReadOther \/ Poll

callback ==
  /\ HandlerAt("callback")
  /\ \/ /\ Last(frames).val = "handleFirstRead"
        /\ num_reads' = buf[result] /\ UNCHANGED counter
     \/ /\ Last(frames).val = "handleOtherReads"
        /\ counter' = counter + 1 /\ UNCHANGED num_reads
  /\ GoTo("delivered")
  /\ UNCHANGED <<disk, masked, isInterrupt, queue, starting_block_number, i, pc>>

Handle ==
  \/ callback
  \/ (LockQueue \/ queue_dequeue) /\ UNCHANGED own
  \/ handleTimerInterrupt /\ UNCHANGED <<queue, own>>

Next == main \/ Handle \/ ((Tick \/ Interrupt) /\ UNCHANGED <<queue, own>>)
-----------------------------------------------------------------------------
CallbackForRead == EntryForRead(IF pc \in {"first_read", "schedule"} THEN 1 ELSE 0)

\* The number in the first block, and the block after so many steps from there.
Steps == StoryAt(starting_block_number)
Trail[n \in 0 .. Steps] == IF n = 0 THEN Steps ELSE StoryAt(Trail[n - 1])

\* What is printed at the end is found by following the numbers, none skipped or repeated.
Found == pc = "end" => Steps > 0 /\ buf[result] = Trail[Steps] /\ counter = Steps
=============================================================================
