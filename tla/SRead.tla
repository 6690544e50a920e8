------------------------------- MODULE SRead -------------------------------
(***************************************************************************)
(* sRead.c on Disk: one read at a time, awaited by polling a flag that the  *)
(* interrupt service routine clears.                                        *)
(***************************************************************************)
EXTENDS Disk

CONSTANTS num_blocks, result

VARIABLES is_read_pending, sum, blockno, pc

own == <<is_read_pending, sum, blockno, pc>>

Init ==
  /\ DiskInit
  /\ is_read_pending = 0 /\ sum = 0
  /\ blockno = 0 /\ pc = "flag"

\* Mistake: the read is scheduled before the flag is set.
ReadBlock_FlagLast ==
  /\ blockno < num_blocks
  /\ \/ /\ pc = "flag" /\ disk_schedule_read(result, blockno)
        /\ pc' = "schedule" /\ UNCHANGED is_read_pending
     \/ /\ pc = "schedule" /\ ~Interrupted
        /\ is_read_pending' = 1 /\ pc' = "wait"
        /\ UNCHANGED <<disk, signals>>
  /\ UNCHANGED <<sum, blockno>>

\* The flag is set, then the read is scheduled.
ReadBlock ==
  /\ blockno < num_blocks
  /\ \/ /\ pc = "flag" /\ ~Interrupted
        /\ is_read_pending' = 1 /\ pc' = "schedule"
        /\ UNCHANGED <<disk, signals>>
     \/ /\ pc = "schedule" /\ disk_schedule_read(result, blockno)
        /\ pc' = "wait" /\ UNCHANGED is_read_pending
  /\ UNCHANGED <<sum, blockno>>

\* while (is_read_pending), then the result is added.
AddBlock ==
  /\ pc = "wait" /\ ~Interrupted /\ is_read_pending = 0
  /\ sum' = sum + buf[result]
  /\ blockno' = blockno + 1
  /\ pc' = "flag"
  /\ UNCHANGED <<disk, signals, is_read_pending>>

Finish ==
  /\ pc = "flag" /\ ~Interrupted /\ blockno = num_blocks
  /\ pc' = "end"
  /\ UNCHANGED <<disk, signals, is_read_pending, sum, blockno>>

main == ReadBlock \/ AddBlock \/ Finish

interrupt_service_routine ==
  /\ HandlerAt("isr")
  /\ is_read_pending' = 0
  /\ GoTo("delivered")
  /\ UNCHANGED <<disk, masked, isInterrupt, sum, blockno, pc>>

Handle == interrupt_service_routine \/ (handleTimerInterrupt /\ UNCHANGED own)
Next == main \/ Handle \/ ((Tick \/ Interrupt) /\ UNCHANGED own)
-----------------------------------------------------------------------------
\* While the program does not wait, no read is under way: the block it adds is the one it asked for.
NoReadLeft == pc = "flag" => prq = <<>> /\ sum = Total[blockno]
=============================================================================
