---------------------------- MODULE DiskPrograms ----------------------------
(***************************************************************************)
(* The programs written for disk.c, checked in one run: the first state     *)
(* chooses the program.  aRead is the module extended; the others share its *)
(* variables, and tRead has those of the threads besides.                   *)
(***************************************************************************)
EXTENDS ARead

CONSTANTS
  client_names,     \* the programs to check
  starting_blocks,  \* where hunts start
  reader            \* the threads of tRead: a sequence, one for each of its blocks

ASSUME ClientsAssumption == client_names \subseteq {"aRead", "sRead", "treasureHunt", "tRead"}
ASSUME HuntsAssumption == starting_blocks \subseteq Nat

\* uthread_create gives each block a thread of its own, with a result of its own; none is the
\* thread of main or the idle loop, nor the null pointer of joiner.
ASSUME ReaderAssumption ==
  /\ reader \in Seq(Buffer \ {"main", "base", "none"})
  /\ \A j, k \in DOMAIN reader : reader[j] = reader[k] => j = k

VARIABLES
  client,
  arg,   \* the first block of a hunt; the loop variable of tRead
  ready_queue, self, state, joiner, place

threads == <<ready_queue, self, state, joiner, arg, place>>
all == <<client, threads, vars>>

S == INSTANCE SRead WITH is_read_pending <- counter
H == INSTANCE TreasureHunt WITH starting_block_number <- arg, num_reads <- sum, i <- blockno
T == INSTANCE TRead WITH i <- arg

NoThreads == ready_queue = <<>> /\ self = "main" /\ state = <<>> /\ joiner = <<>> /\ place = <<>>
NoQueue == pending_read_queue = <<>> /\ q_mutex = FALSE

SuiteInit ==
  /\ client \in client_names
  /\ CASE client = "aRead" -> Init /\ NoThreads /\ arg = 0
       [] client = "sRead" -> S!Init /\ NoQueue /\ NoThreads /\ arg = 0
       [] client = "treasureHunt" -> NoThreads /\ \E block \in starting_blocks : H!Init(block)
       [] client = "tRead" -> T!Init /\ counter = 0 /\ blockno = 0 /\ pc = "tRead"

Is(name) == client = name /\ UNCHANGED client
Alone(name) == Is(name) /\ UNCHANGED threads

RunProgram ==
  \/ Alone("aRead") /\ main
  \/ Alone("sRead") /\ S!main /\ UNCHANGED callbacks
  \/ Alone("treasureHunt") /\ H!main
  \/ Is("tRead") /\ T!program /\ UNCHANGED <<counter, program>>

RunHandler ==
  \/ Alone("aRead") /\ Handle
  \/ Alone("sRead") /\ S!Handle /\ UNCHANGED callbacks
  \/ Alone("treasureHunt") /\ H!Handle
  \/ Is("tRead") /\ T!Handle /\ UNCHANGED <<counter, program>>

PassTime == Time /\ UNCHANGED <<client, threads>>
SendSignal == Signal /\ UNCHANGED <<client, threads>>

SuiteNext == RunProgram \/ RunHandler \/ PassTime \/ SendSignal

\* As for ARead; in tRead the threads are run in turn, and that is the scheduler's doing.
SuiteSpec ==
  /\ SuiteInit /\ [][SuiteNext]_all
  /\ WF_all(PassTime) /\ SF_all(SendSignal) /\ WF_all(RunHandler) /\ SF_all(RunProgram)
-----------------------------------------------------------------------------
\* aRead, treasureHunt, tRead: the service routine finds an entry for each read it is called for.
EntryFound ==
  /\ client = "aRead" => CallbackForRead
  /\ client = "treasureHunt" => H!CallbackForRead
  /\ client = "tRead" => T!CallbackForRead

\* The sums: that of aRead is always the sum of the first blocks, as many as were counted; that of
\* sRead too, which has no read under way while it does not wait; tRead prints that of all blocks.
SummedInOrder ==
  /\ client = "aRead" => InRequestOrder
  /\ client = "sRead" => S!NoReadLeft
  /\ client = "tRead" /\ place["main"] = "end" => sum = Total[Len(reader)]

\* treasureHunt: the number that is printed ends the trail, and a trail of no steps never ends.
TreasureFound == client = "treasureHunt" => H!Found

\* tRead: a thread is unblocked by its own read, before or after it blocks.
WakeUpKept == client = "tRead" => T!WakeUpKept

\* Every program ends, but for the hunt that starts at a block that holds 0 and polls for ever.
ProgramEnds ==
  \/ client = "treasureHunt" /\ H!Steps = 0
  \/ <>(IF client = "tRead" THEN place["main"] = "end" ELSE pc = "end")
=============================================================================
