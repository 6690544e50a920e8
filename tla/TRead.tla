------------------------------- MODULE TRead -------------------------------
(***************************************************************************)
(* tRead.c on Disk and on the threads of a9/uthread.c: a thread for each    *)
(* block queues itself, schedules its read and blocks; the interrupt        *)
(* service routine unblocks the thread that has waited longest.  Handlers   *)
(* of the signal are not nested here.  Each step of a thread is a section   *)
(* with the signal blocked, or between two of them.                         *)
(***************************************************************************)
EXTENDS ReadQueue

CONSTANT reader   \* the thread of each block: a sequence

VARIABLES ready_queue, self, state, joiner, sum, i, place

T == INSTANCE SoloUThread WITH
  base_thread <- "main", pthread_base <- "base", Created <- Range(reader)

blocks == Len(reader)
queue == <<pending_read_queue, q_mutex>>
sched == <<ready_queue, self, state, joiner>>
own == <<sum, i, place>>

Init ==
  /\ DiskInit /\ QueueInit /\ T!SoloInit
  /\ sum = 0 /\ i = 0
  /\ place = [t \in T!Thread |->
               IF t = "main" THEN "create" ELSE IF t = "base" THEN "loop" ELSE "queue"]

\* The running thread, while main has not returned and no handler runs.
At(t, where) == self = t /\ place[t] = where /\ ~Interrupted /\ place["main"] # "end"
Leave(where) == place' = [place EXCEPT ![self] = where]

\* Steps of the program that only touch the scheduler: its spinlocks unblock the signal.
OnlyThreads == MaskAfterUnlock /\ UNCHANGED <<disk, isInterrupt, frames, queue>>

\* uthread_stop at the places where threads stop, and where they go on.
Stop(t) ==
  /\ \/ At(t, "yielding") /\ T!uthread_stop("RUNABLE") /\ Leave("loop")
     \/ At(t, "block") /\ T!uthread_stop("BLOCKED") /\ Leave("add")
     \/ At(t, "joining") /\ T!uthread_stop("BLOCKED") /\ Leave("collect")
     \/ At(t, "dying") /\ T!uthread_stop("DYING") /\ Leave("gone")
  /\ OnlyThreads /\ UNCHANGED <<sum, i>>

read_block(t) ==
  \/ At(t, "queue") /\ queue_enqueue(t) /\ Leave("schedule") /\ UNCHANGED <<sched, sum, i>>
  \/ /\ At(t, "schedule") /\ \E n \in DOMAIN reader : reader[n] = t /\ disk_schedule_read(t, n - 1)
     /\ Leave("block") /\ UNCHANGED <<queue, sched, sum, i>>
  \/ At(t, "add") /\ sum' = sum + buf[t] /\ T!exit /\ Leave("dying") /\ OnlyThreads /\ UNCHANGED i

\* uthread_join up to where it waits.
Join ==
  /\ At("main", "join") /\ i < blocks
  /\ T!MustJoin(reader[i + 1]) /\ T!BeJoiner(reader[i + 1]) /\ Leave("joining") /\ UNCHANGED i
  /\ OnlyThreads /\ UNCHANGED sum

\* The end of uthread_join: the dead thread is freed with its spinlock held, and the signal
\* stays blocked until another spinlock is released.
Collect ==
  /\ At("main", "collect") \/ (At("main", "join") /\ i < blocks /\ ~T!MustJoin(reader[i + 1]))
  /\ T!uthread_free(reader[i + 1])
  /\ masked' = TRUE
  /\ Leave("join") /\ i' = i + 1
  /\ UNCHANGED <<disk, isInterrupt, frames, queue, sum>>

main ==
  \/ /\ At("main", "create")
     /\ IF i < blocks THEN T!uthread_create(reader[i + 1]) /\ i' = i + 1 /\ UNCHANGED place
                          ELSE i' = 0 /\ Leave("join") /\ UNCHANGED sched
     /\ OnlyThreads /\ UNCHANGED sum
  \/ Join \/ Collect
  \/ /\ At("main", "join") /\ i = blocks /\ Leave("end")
     /\ UNCHANGED <<disk, signals, queue, sched, sum, i>>

base == At("base", "loop") /\ T!yield /\ Leave("yielding") /\ OnlyThreads /\ UNCHANGED <<sum, i>>

program == main \/ base \/ \E t \in T!Thread : Stop(t) \/ read_block(t)

unblock ==
  /\ HandlerAt("callback")
  /\ T!uthread_unblock(Last(frames).val)
  /\ GoTo("delivered")
  /\ UNCHANGED <<disk, masked, isInterrupt, queue, own>>

Handle ==
  \/ unblock
  \/ (LockQueue \/ queue_dequeue) /\ UNCHANGED <<sched, own>>
  \/ handleTimerInterrupt /\ UNCHANGED <<queue, sched, own>>

Next == program \/ Handle \/ ((Tick \/ Interrupt) /\ UNCHANGED <<queue, sched, own>>)
-----------------------------------------------------------------------------
CallbackForRead == EntryForRead(IF self \in Range(reader) /\ place[self] = "schedule" THEN 1 ELSE 0)

\* A thread that is blocked, or about to block, is in the queue of those who wait for a read, or
\* with a handler that is about to unblock it, or ready: a wake-up that comes early is not lost.
WakeUpKept ==
  \A n \in DOMAIN reader : LET t == reader[n] IN
    (place[t] = "block" \/ (place[t] = "add" /\ self # t)) =>
      \/ Contains(pending_read_queue, t) \/ Contains(ready_queue, t)
      \/ HandlerAt("callback") /\ Last(frames).val = t
=============================================================================
