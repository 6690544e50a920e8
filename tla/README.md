# A verification project for cs213-assignments

The repository holds the programs of a course on computer systems: a simulator
of a small machine in Java and in C, exercises in C on memory, an asynchronous disk, and a user
level thread library with the programs that use it. This directory holds TLA+
modules that model all of these, the configurations that model-check
them with TLC, and theorems whose proofs TLAPS checks.

## The system

| Component | Source | State | Operations | Hard because |
|---|---|---|---|---|
| Scheduler | `a11/uthreads/uthread.c` (same in `a10`) | TCBs (`state`, `joiner`, `join_spinlock`, `next`), ready queue, sleeping pthreads | create, yield, block, unblock, join, detach, switch, idle sleep | several pthreads change stacks concurrently; a thread is unblocked before it has stopped |
| Mutex, conditions | `a11/uthreads/uthread_mutex_cond.c` | holder, reader count, two waiter queues, one queue per condition | lock, lock read-only, unlock, wait, signal, broadcast | windows between queueing, unlocking and blocking; readers and writers woken together |
| Semaphore | `a11/uthreads/uthread_sem.c` | value, waiter queue | wait, signal | the same windows; late comers take permits |
| Disk | `a9/disk.c`, `a9/queue.c` | queue of pending reads, queue of what to do then, signal mask | schedule read, timer interrupt, deliver, callbacks | handler against main program, nested handlers |
| a9 threads | `a9/uthread.c` | ready queue, states, joiners | create, yield, block, unblock, join, exit | a thread is unblocked by a handler while it runs |
| Disk clients | `a9/sRead.c`, `tRead.c`, `aRead.c`, `treasureHunt.c` | flags, counters, buffers | busy wait, block, callback | interrupt before the wait |
| Producer/consumer | `a10/pc.c`, `pc1.c`, `a11/pc_sem.c`, `a11/soln/pc_sem.c` | items, histogram | produce, consume | wake-ups shared by several threads |
| Ordering | `a10/q1.c` to `q4.c`, `a11/test.c` | a counter or a flag | print | signals before the wait |
| Well | `a11/well.c`, `a11/soln/well.c`, `well_sem.c` | occupancy, side, lines | enter, leave | fairness policies, baton passing |
| Smokers | `a11/smoke.c`, `a11/soln/smoke.c`, `smoke_sem.c` | resources on the table, counters of a round | offer, match, smoke | lost signals, polling with the mutex held |
| SM213 machine | `a2`, `a6` (`CPU.java`, `MainMemory.java`), `a8/q3/sm.c`, `sm-jt.c`, `a1/Endianness.java` | registers, pc, memory | fetch, execute, load | widths, signs, alignment, holes in jump tables |
| Allocator | `a5/q2/mymalloc.c`, `main.c` | free list in a byte array | mymalloc, myfree | links kept from earlier calls; headers at the end of the heap |
| Reference counts | `a5/q3`, `a7/q3`, `refcount.c` | counts, list, tree | keep and free references, add, delete | who lets go last; two kinds of elements in one order |
| Higher-order list | `a8/q1/list.c` | growing array | append, insert, remove, map, filter | the end of the array; output lists that are not empty |
| Binary tree | `a4/BinaryTree.c`, `.java` | tree | insert, print | |

The synchronisation modules sit on `uthread_block` and `uthread_unblock` of the
scheduler; the programs of a10 and a11 sit on the synchronisation modules; the disk runs its
handler in the middle of whatever thread is executing. The other components are
sequential and stand alone; the simple machines execute the same programs.

What makes each of them correct, in one line: the scheduler runs each thread on
one processor and loses none; the mutex excludes, and nobody waits for something
that is there already; the semaphore hands out as many permits as it was given;
the disk delivers each read once and in order; the programs keep their limits
and end; the four machines agree; the allocator's blocks are disjoint and inside the heap; counts equal
the number of references; list functions equal their definitions; the trees of a5 and a7 are search trees, and that of a4 prints in order.

## The modules

| Module | Models |
|---|---|
| `UThreadQueue` | the queue operations of `uthread.c`, on sequences |
| `CountingSemaphore` | the promise of a semaphore: a set of threads that wait, a number of permits |
| `Semaphore` | `uthread_sem.c` |
| `Monitor` | the promise of a mutex with readers and conditions |
| `MutexCond` | `uthread_mutex_cond.c` |
| `UThread`, `MCUThread` | the scheduler in `uthread.c`, with processors as actors; the clients of its main run |
| `ProducerConsumer` | `a10/pc.c`, on `Monitor` |
| `Semaphores` | semaphores by name, for programs that have several |
| `SemaphorePool` | `a11/pc_sem.c` and `a11/soln/pc_sem.c`, on `Semaphores` |
| `Ordering` | `a10/q1.c`, `q3.c`, `q4.c`, `a11/test.c`, on `Monitor` |
| `Well`, `SolnWell`, `WellSem` | `a11/well.c`, `a11/soln/well.c` (on `Monitor`), `a11/soln/well_sem.c` (on `Semaphores`) |
| `Smoke`, `SolnSmoke`, `SmokeSem` | `a11/smoke.c`, `a11/soln/smoke.c` (on `Monitor`), `a11/soln/smoke_sem.c` (on `Semaphores`) |
| `Programs` | the suite of these, for one run |
| `Disk` | `a9/disk.c` and the signal mask of `a9/uthread.c` |
| `ReadQueue` | `a9/queue.c` on `Disk`, as `treasureHunt.c` and `tRead.c` use it |
| `ARead`, `SRead`, `TreasureHunt`, `TRead` | the four programs of a9, on `Disk` |
| `SoloUThread` | the threads of `a9/uthread.c` on one processor, for `TRead` |
| `DiskPrograms`, `MCDiskPrograms` | the suite of the four; the threads of `tRead` in its run |
| `Word` | the `int` of C and Java, 32 bits, and `a1/Endianness.java` |
| `SM213` | four simple machines in step: `sm.c`, `sm-jt.c`, the `CPU.java` of a6 and of a2 |
| `MachinePrograms` | `max.s` and `a2-test.s` of `a8/q3`, assembled, and single instructions |
| `Heap` | `a5/q2/mymalloc.c` under the tests of `main.c` |
| `PathTree` | binary trees as functions from paths |
| `ElementList` | lists and trees of counted elements, of a5 and of a7, on `PathTree` |
| `SequenceList`, `ArrayList` | the promise of `a8/q1/list.h`, and `list.c` |
| `BinaryTree` | `a4/BinaryTree.c` and `.java`, on `PathTree` |
| `DataStructures` | the suite of `Heap`, `ElementList`, `ArrayList` and `BinaryTree` |
| `Sequential` | that suite and the simple machines, for one run |
| `ProofLemmas` | lemmas on queues, on counting threads and on numbers, which the proofs cite |
| `SemaphoreProofs`, `MutexCondProofs`, `ProducerConsumerProofs`, `UThreadProofs`, `ProgramsProofs`, `DiskProofs`, `SequentialProofs` | theorems |

`Semaphore` and `MutexCond` are checked to implement `CountingSemaphore` and `Monitor`,
and the programs are modelled on these two: one step of a program is one step of
the abstract object, whatever happens inside the call. `ArrayList` is checked to implement `SequenceList`.

A *suite* composes programs that do not interact, so that one run checks them all: its first
state chooses one, its next-state relation is that of the chosen one, and each property begins
with the name of the program it is about.

Comments that begin with *Mistake:* introduce a plausible wrong version of the
definition that follows. It is used nowhere in a specification: each shows which
property would notice if the code were like that.

### Queues

A queue of `uthread.c` is a list linked through the field `next` of the TCB. A
thread with `next` set, or that is the tail, is taken to be queued already and
`uthread_enqueue` returns at once. The modules use sequences, and
`uthread_enqueue` ignores a thread that is in *this* queue. That is the same as
long as no thread is enqueued while it is in *another* queue, which is what
`QueueDiscipline` and `ThreadConserved` say.

### Semaphore, mutex and conditions

A section between `spinlock_lock` and `spinlock_unlock` is one action: inside it
the code touches only what that lock protects, and `uthread_unblock`, which is
called after or inside, is the insertion into `ready`. Every point where the code
gives up the lock and another thread may come in between is a place of `pc`:

* `QueueUp` leaves the thread `"blocked"`, which stands for everything from the
  `spinlock_unlock` in the loop to the end of `uthread_block`; `Resume` is that
  end and needs the thread to be in `ready`; it may have been put there before
  the thread had stopped.
* `uthread_cond_wait` is two actions, queueing (`uthread_cond_wait`) and
  unlocking (`CondUnlock`), then a blocked place; it goes on with `uthread_mutex_lock`.

The clients of `MutexCond` know only which of their calls returned: a thread
unlocks because it locked, not because `holder` names it. `MutualExclusion` says
that this knowledge and the fields agree, so the `assert`s of the library hold.

`value < MaxValue` in `uthread_sem_signal` keeps the counter an `int`.

### Scheduler

The actor is a processor (pthread), `run[p]` the thread whose stack it executes
on. A thread changes stacks only in `uthread_switch`; so all that must be
remembered of a thread that is not executing is `ret`, where it goes on when
`uthread_stop` returns. The actions follow the code between two points where
another processor can interfere:

* `Enqueue`, `SignalIdle`: `ready_queue_enqueue`, with `ready_queue_spinlock`
  held from one to the other and `pthread_mutex` needed by the second.
* `Dequeue` (`TakeNext`, `TakeBase`, `StartIdle`), `LockIdle`, `Sleep`, `WakeUp`:
  `ready_queue_dequeue`.
* `SaveFrom`, `SwitchTo`: the assembly: state of the thread that is left, spin
  until the other is not running, change of stacks. `CheckFrom`, `Requeue`,
  `Reap`: what is done for the thread that was left, on the stack of the new one. `CheckFrom` is one read of a state that the code
  reads twice, which has the same outcomes, as the module explains.
  `Enter`, `Exit`, `WakeJoiner`, `StopDying`: start, return and death.
* `Claim`, `JoinWait`, `JoinReturn`, `DetachReturn`: `uthread_join` and `uthread_detach`.

`pthread_cond_signal` wakes one sleeping processor if there is one.
`SpuriousWakeup` is the spurious return POSIX allows, only where
`Spurious` is TRUE. A processor that `uthread_init` was not asked for is `"absent"`. The client, which is any program, is described by three sets
of threads that yield, join and block. It joins or detaches each thread once and
never joins itself.

Not in the scheduler model: `value_ptr` and `return_val`, how `uthread_self` finds
the TCB from the stack address, and the start of the pthreads in `uthread_init`,
after which the model begins.

### Programs on mutexes, conditions and semaphores

`ProducerConsumer`: `Lock` is the call of `uthread_mutex_lock`, `Locked` its return and also
the return from `uthread_cond_wait` with the mutex; a thread whose `pc` is `"test"` is
about to look at `items`, or waits for the mutex to do so. The change of `items`, the `assert`
and the signal are one action, because the mutex is held. The histogram is left out.

The later modules go one step further and take everything between two points where a thread
gives the mutex up as one action, `Section` of `Monitor` (lock to unlock) or `SectionWait` (lock to
`uthread_cond_wait`). A signal that such a section gives moves a waiter to `lockers`. This is sound
because their data are read and written only with the mutex held, and because in `Monitor` neither
asking for the mutex nor holding it makes a difference to anybody who does not have it. Where a program breaks that rule the
reading is an action of its own: `q3.c` polls its counter without the mutex, and the agent of `smoke.c`, that
polls `done` *with* the mutex, is sent to a place `"spin"` that keeps it.
Statements under a semaphore that is used as a mutex are one action for the same reason,
but in `SemaphorePool`, whose question is in which order permits and mutex are given back.

* `Well`: `enterWell` is a loop of waits. `StayOut` is one turn of it, `enterWell` its end; a person in line is woken when
  it is in `lockers`. `entryTicker` and `lineStart` are kept as their difference, up to
  `FAIR_WAITING_COUNT`. `SolnWell` and `WellSem` likewise; in `WellSem` whoever leaves counts others in and hands them
  permits (`Turn`, `Admit`), and `LetIn` is the return of `uthread_sem_wait`.
* `Smoke`: `my` counts rounds; a manager that finds its resource goes through the rest of its
  iteration in one section, and so does a smoker. The variables of the file are the fields of `g`.
  `SolnSmoke` and `SmokeSem` have the pushers and smokers of the solution; they never end, as in the code, only the agent does.
* `Ordering`: four programs behind one variable, `g.program`, which print numbers instead of words.

The body of `createSmoker` in `smoke.c` has no `return`; the build without optimisation leaves the
pointer in the register that holds results, and the model begins after it. Stalls and histograms are left out.

### Disk and its clients

`uthread_init (1)` gives the programs of a9 one processor, so the program makes steps only
while no handler is active. `frames` is the stack of handlers, each with its place in
`handleTimerInterrupt` or in the service routine, the time it read (`now`) and one saved
value. Time is counted in reads: `clock` of them have reached their `completeTime`, `taken` of
them have left the queue, which is in order of time since all have the same latency.

The signal mask follows the code: the system blocks SIGALRM on entry of the handler and
unblocks it on return; `spinlock_lock` blocks and `spinlock_unlock` unblocks it unless
`isInterrupt` is set (`MaskForLock`, `MaskAfterUnlock`). The unlock before
`deliverInterrupt` therefore unblocks the signal inside the handler. A section of the program
under a spinlock is one action, as no handler can come; in the handler, taking `prq_mutex` and
`q_mutex` and releasing them are separate. `handle_read` is a load, a store and the increment of `counter`.

`MaxDepth` bounds the nesting. With 1 no signal comes while a handler is active: a handler takes
microseconds and the timer a millisecond, so this is what the programs mostly meet.

The other programs: `SRead` polls `is_read_pending`; `TreasureHunt` queues a callback, schedules a read
and polls a counter; in `TRead` each block has a thread, and a step of a thread is what it does with
the signal blocked, or between two such sections. `SoloUThread` is `a9/uthread.c` on one processor, where
`uthread_switch` goes straight from one thread to the next and the idle loop of `pthread_base` yields for ever.
`uthread_join` frees the dead thread with its spinlock still held; the signal stays blocked until another
spinlock is released, which `Collect` keeps.

### The simple machines

`SM213` runs four machines in step on the same program, each with its own registers, pc and memory, and the properties
compare them after each instruction. What all do alike is written once (`Effect`); what makes them
four is kept apart: the switch and the tables with their tests (`Switch`, `JumpTable`), the cases that exist
(`Cases`, `Cases2`), illegal instructions, addresses and alignment (`exec` passes over or is undefined,
`execute` throws), `sys` and the indirect jump. The bits of a word are taken apart in arithmetic (`AndHalf`, `TwoTo`), which the provers know. Words are two halves of 16 bits, so that
overflow is that of the code. C leaves signed overflow and large shifts undefined;
the build has no optimisation and the instructions of the processor wrap around and take the count modulo 32.
For `sys`, the standard input is at its end, no other file is open, and `exec` is not allowed.

### Allocator, counts, lists and trees

`Heap`: addresses are offsets. A Node that is not in the list keeps its `next`, as in the code, since that is
what the finding is about. The list is not followed by recursion but by the function `Free`, which
is as long as there are Nodes; `ListEnds` says that it has an end, else the search does not return. The heap is
fresh memory, as a process that runs one test gets it; what is not written is 0.

`ElementList` has both editions. In a5 the list takes the reference of its caller over and the string is counted too; in
a7 the list keeps its own reference and a finalizer frees the string. The client is any that gives up each
reference once. Nodes of the list are numbers in the order of creation, 0 is `NULL`; `FirstOf`, `LastOf` and `Linked` of the
properties look at them. A tree is a function from paths. `Places` are the places where a node could be
inserted, and `Place` is the one that the comparisons on the way down lead to. `SearchTree` is what the insertions of a5 and a7 must keep; their `tree_ordered_print` goes depth-first, each
node before its children, and does not ascend, so it has no part in a property. `InOrder` of `BinaryTree` is the traversal that a4 prints, as a recursive function on `Places`.

`ArrayList` keeps the array apart from the length: `Written` puts an element at an index, in the array or behind it.
`SequenceList` says what the comments of `list.c` promise. The client passes the functions of `test.c`, positions that are in
the list, and maps into empty lists: `list_map1` and `list_map2` write at the index of the input, so into a list that is not empty they
do not append, as the comment in line 113 has it.

## The runs

| Run | Checks | Instance |
|---|---|---|
| `Semaphore` | `TypeOK`, `QueueDiscipline`, `NoLostWakeup`, `ImplementsCounting` | 5 threads, 1 permit at first, at most 3 |
| `Semaphore_line` | `NoLineSkipping`, violated | 2 threads |
| `MutexCond` | `TypeOK`, `MutualExclusion`, `QueueDiscipline`, `NoLostWakeup`, `ImplementsMonitor` | 4 threads, 2 conditions |
| `UThread` | `TypeOK`, `OneProcessor`, `NoUseAfterFree`, `JoinAfterExit`, `ThreadConserved`, `NoSleepOverWork` | main and 2 workers; any client on one processor; on two, main blocks once, joins and detaches, or a worker yields once; on three, main blocks once and joins; spurious wake-ups |
| `UThread_live` | `JoinReturns`, `Reclaimed` | 2 processors; workers yield, main joins |
| `UThread_restart` | `OneProcessor`, violated | 2 processors, a worker that blocks and yields |
| `ProducerConsumer` | `ItemsInRange`, `NoLostSignal`, `Termination` | 2 producers, 2 consumers, limit 2, 3 iterations |
| `Programs` | `WellRule`, `NobodyStranded`, `TakesTurns`, `OffersSmoked`, `PrintedInOrder`, `PermitsConserved`, `Termination` | 3 and 2 people, room for 2, 2 iterations, fair count 2; smokers 3 rounds |
| `DiskPrograms` | `LockMasked`, `EntryFound`, `SummedInOrder`, `TreasureFound`, `WakeUpKept`, `ProgramEnds` | 3 blocks, 3 threads of `tRead`, handlers do not nest; hunts from a block that holds 4 and one that holds 0 |
| `ARead_nested` | `SumCorrect`, violated | 2 blocks, a handler inside another |
| `Sequential` | `MachinesAgree`, `ResultsRight`, `AllocationsLegal`, `CountsExact`, `KeptInOrder`, `ActsAsSequence`, `InsideArray` | see below |
| `Heap` | `NoOverlap`, violated | 3 buckets of 16 bytes, heap of 128 |

Bounds. `MaxOps` (yields and blocks of all threads together), `MaxValue`
(permits), `MaxDepth` (handlers), `MaxElements`, `MaxNodes` and `MaxLen` are bounds of the models; `MAX_ITEMS`,
`MAX_OCCUPANCY`, `NUM_ITERATIONS`, `FAIR_WAITING_COUNT`, `INITIAL_SIZE`, `nbuckets`, sizes
and `num_blocks` are constants of the programs, smaller here. Four threads on a mutex
let a holder, a queued writer, a queued reader and a barging thread meet; five on
a semaphore let two waiters, two woken threads and a newcomer meet. In the
scheduler, two workers are enough for one to be dequeued while another is being
left, and three processors for two to sleep while one enqueues. `MaxOps` 2 or 3
lets one thread stop, be resumed elsewhere and stop again. Two producers and two
consumers with a limit of 2 reach a full and an empty pool with several threads waiting
on each side; the third iteration lets a thread come back after it was waited for. Three
blocks let one handler deliver two reads while the third is not scheduled yet. With three people of one kind
and two of the other, a well for two is full while both kinds are in line, and with a fair count of 2 people get impatient.
Each round of the smokers begins as the first did, with all at their waits, so two show what the second inherits; the third is for
`SmokeSem`, where nothing makes the others wait for the end of a round.

`Sequential`: each of the 16 opcodes with each of 16 values of its first operand, and 6 values for the other two (`digits`: both ends, and the
registers with addresses), on two sets of registers that hold the edges of words and of the memory; then 11 tests
and a program of about 150 steps (`longest`). Three buckets of the sizes 0, 8, 12, 16, in any combination, let a block fit exactly,
be too small and be rounded up. Two elements shared three times each by a list and a tree; three lists of up to three elements
that start with room for one, so that each grows twice; up to 4 arguments. The names of lists are symmetric, as those of workers and of other processors in `UThread`.

Deadlock is not checked: the programs end, and `Termination`, `ProgramEnds` say that they do not stop before; a client of a library
may always wait for a signal that nobody is left to give; in the end every processor sleeps.

Fairness. In `Semaphore` and `MutexCond`, a thread that was unblocked resumes and a
thread inside a library call takes its next step; no thread is obliged to call
or to unlock. The scheduler promises the first with its FIFO ready queue. In
`UThread` each processor takes its next step, which the operating system promises
for pthreads; spinning is a disabled step, so nothing is assumed about it.
In the programs each running thread takes its next step, by weak fairness; who gets a free mutex or permit is
not assumed, only that some thread does, as `Monitor` and `CountingSemaphore` promise. `Programs` collects the
fairness of its programs by thread, since only one of them runs. In
`DiskPrograms` time passes and the timer expires again and again (strong fairness, since every
handler blocks it for a while), and the interrupted program gets the processor between two
handlers (strong fairness of `RunProgram`): a handler is shorter than the period of the timer.

What the less obvious properties say: `NobodyStranded`, that whoever waits at an *empty* well has somebody, woken or just come, who is about to look
at it, and that the cached sizes by which `leaveWell` chooses agree with the threads that wait (it says nothing of a well with people inside, where
`leaveWell` of `well.c` may signal people who cannot enter while others could);
`TakesTurns`, that the well of `soln/well_sem.c` lets in no more of the kind inside while the other waits (the other two wells count turns and promise less);
`LockMasked`, that the holder of `prq_mutex` has the timer signal blocked (of that lock only, not of the spinlocks of the scheduler); `WakeUpKept`, that an interrupt that
unblocks a thread of `tRead.c` before it has blocked is not lost; `AllocationsLegal`, that blocks in use are disjoint and
that they never take more room than one for each bucket, so what is freed is used again; `KeptInOrder`, that lists are linked in the order of insertion and
trees of elements are search trees after every insertion and removal, and that `BinaryTree` prints what it read in ascending order. `MachinesAgree`: the two machines in C always agree, C and Java agree
as long as neither leaves what it defines, but for `sys` and for jumps with
an offset of 0x80 or more, whose sign C extends. `ResultsRight`: the bytes of words, the maximum
and the tests of the list of instructions come out as their comments say.

`Termination` asks of `soln/smoke.c` only that it ends if all others had come to their waits before the agent began: if they
had not, a signal is lost and it may stop for ever. Of `smoke.c` it asks the end of all rounds, so the agent never polls in vain.

### What the violated runs show

* `Semaphore_line`. `uthread_sem_signal` increments the value and unblocks the first
  waiter. Until that waiter runs, a thread that calls `uthread_sem_wait` takes the
  permit and the waiter queues up again at the end. `a11/BONUS.txt` says that
  semaphores do away with such line skipping.
* `UThread_restart`. A thread saves its registers
  and its state, and the processor tests `from_thread->state` again after the
  change of stacks (`uthread.c:544` and `:553`). If the thread was blocked and has been
  unblocked in the meantime, another processor may have run it up to a
  `uthread_yield` or to its end, and both processors queue it, or dispose of it.
  It cannot happen with one processor, nor when no thread that blocks also yields
  or exits: these are the clients of the run `UThread`, for which the properties hold. The
  programs in a10 and a11 start 2 to 7 processors with threads that block and exit.
* `ARead_nested`. The first handler copies block 0 into `result`, releases `prq_mutex` and so
  unblocks the signal. A second handler copies block 1 into the same `result` and
  calls the callback, which adds it. The first handler goes on and adds it again: the program
  prints 42 for 20 + 21. `a9/Q1.txt` and `a9/Q2.txt` record the two sums of 1000 blocks, 14518 for
  `sRead` and 14511 for `aRead`.
* `Heap`. Blocks *a* and *b* are freed, so that the list is *b*, *a*; both are taken again, and *b* still has
  its link to *a*. Now *b* is freed into the empty list: `myfree` (`mymalloc.c:137`) sets the link only if the list is not empty, so *a*, in use, is in the list again
  and the next call but one returns it. The tests that use the buckets in turn do not get there, as `Sequential` shows; `test_random`, which
  chooses any bucket, does, and `main.c:38` prints "mymalloc returned an overlapping pointer".

## The theorems

TLC checks instances; the theorems hold for every finite set of threads, every set of
conditions and every value of the numeric constants.

* `ProofLemmas`: what enqueueing and dequeueing do to the type of a queue, to its
  set of members and to its freedom from repetitions, and how the number of threads at some places changes
  when one thread moves. All other proofs cite these. `Induction` is induction over a *set* of natural numbers, from the
  axioms of arithmetic; `Recursion` follows: the function that a first value and a step for each number define exists. With it
  `DiskProofs` says what `Total` and `Trail` compute, and `SequentialProofs` what the loops of `list.c` and the traversals of trees do.
* `SemaphoreProofs`: `TypeCorrect`, `DisciplineHolds`, `NoWakeupLost`. `QueueDiscipline`
  is inductive once types are known. `NoLostWakeup` is inductive on top of it: a signal
  adds a permit and, when somebody is queued, a pending thread, which discipline says
  is a new one. `ImplementsCountingSafety` maps every step to a step of
  `CountingSemaphore` or to a stutter, for its safety part.
* `MutexCondProofs`: `TypeCorrect`, `Excludes`, `DisciplineHolds`, `NoWakeupLost`, each
  resting on those before it. `reader_count` stays a natural number only because it
  equals the number of threads that read, so type and exclusion are proved together.
  `ImplementsMonitorSafety` maps every step to a step of `Monitor` or to a stutter. It needs more than the types: that no thread holds the mutex whenever `Free` says that
  none does (from `holder` and `reader_count`), and the discipline of the queues, so that a thread in `uthread_cond_wait` is in the queue of
  exactly one condition and who is taken from a queue by a signal is somebody who waits.
* `ProducerConsumerProofs`: `Bounded`, that `items` stays within its limits, because only the
  holder of the mutex changes it and has tested it since it got the mutex; `NoSignalLost`,
  by counting: a change adds one slot or item, and its signal one thread on its way, while
  threads that come late add to those on their way before they take something.
* `DiskProofs`, at any depth: `HandlersNeverSpin` and `EntriesFound`, for any number of blocks and of threads of `tRead`, any starting block and any `MaxDepth`: whoever holds
  `prq_mutex` has the signal blocked, so no handler spins for it, and the service routine finds an entry for each read. The invariant says who may have set
  `isInterrupt` (the innermost handler, or one interrupted by a handler that keeps the signal blocked), and counts: entries are as many as the
  reads in `prq`, the handlers between `prq` and the queue, and the read that is yet to be scheduled.
* `DiskProofs`, when handlers are not nested: `SumsInOrder`, `TreasuresFound` and `NoWakeUpLost`, for any number of blocks, any sequence `reader` of threads of
  `tRead`, one for each block, and any starting block. They assume `MaxDepth = 1`, that a handler returns before the next period of the timer; the run `ARead_nested` shows that the
  sums need it. `DepthInv` follows each read through `prq`, the only handler and its callback (`Phase` and `Kept` say where the handler is and
  what it keeps). For `aRead`: the reads in `prq` are for the next blocks in order, and `sum` is `Total` of those counted. For
  `treasureHunt`: what is in the buffer is `Trail` at `counter`. For `tRead`: entries are in the order of the reads (`Aligned`), who has not queued an entry is woken
  only by its creation and others only when their block is in the buffer (`Woken`), main goes on only when the thread that it joins has exited (`Joined`), `sum` is
  that of the blocks of those who have (`Added`). `NoWakeUpLost` is inductive only together with these.

* `UThreadProofs`, processors: `TypesKept` and `NobodySleepsOverWork`, for any number of processors and threads and
  *any* client. The invariant `Inv` adds to the types who holds the two locks (`LockInv`: one processor at most, from
  an enqueue to its signal or from the decision to sleep until the sleep), that `pthread_num_sleeping` counts who sleeps or
  has been woken (`IdleInv`), and `NoSleepOverWork` from the decision to sleep on (`WorkInv`): without the places between that decision and the sleep,
  a thread enqueued in between could be missed, and only the locks exclude it.
* `UThreadProofs`, threads: `StacksAreNotShared`, `FreedThreadsAreLeftAlone`, `JoinWaitsForExit`, `ThreadsAreConserved`, for any number of
  processors and threads, under `QuietBlockers`: there is one processor, or no thread but main blocks or joins and main does not yield. These are
  the clients of the run `UThread`, and the run `UThread_restart` shows that some such hypothesis is needed. None of the four properties is inductive.
  `ThreadInv` says who is responsible for each thread (`OwnerInv`: the processor that executes it, the one that goes to it, the one that has left it and must queue or reap it,
  the thread that it waits for in `uthread_join`, the queue, or the client; exactly one of them for a thread that lives, none
  before and after), that its state says so (`StateInv`), that a thread that blocked has not yielded or died when the processor that left it reads its
  state (`LateInv`, the one part that needs `QuietBlockers`), and that a thread is claimed by one joiner, which waits or goes on only when the other is dying
  (`ClaimInv`, `WaitInv`, `ResumeInv`, `RetInv`). TLC found `ThreadInv` to hold with one processor and any client, with two and with three before it was proved.
* `ProgramsProofs`: `WellsKeepTheirRule`, `NobodyIsStranded`, `WellTakesTurns`, `PoolConservesPermits`, `PrintsInOrder` and `OffersAreSmoked`, for any number of people, threads,
  rounds and any limits. The invariants count: `occupancy` and the sizes of lines are numbers of threads at places, so the step of one thread
  changes both by one (`CountMove` of `ProofLemmas`). In the wells with a mutex, only its holder is inside a section;
  in `WellSem` and `SemaphorePool` the semaphore used as a mutex and the permits of the others add up with the threads that have just got one.
  The smokers' invariants say what a round goes through, and which resource `r` it is about. In `SmokeSem` a unit of each resource offered is in
  `offer`, in its semaphore, with its pusher or in `have`, until the pusher that finds two makes them one turn of the smoker of `r`, and he one permit of
  the agent (`SemOffered`, `SemCalled`, `SemSmoked`). In `SolnSmoke` the counts and the two pushers say how far the round
  is, also when a signal found nobody and nobody goes on (`SolnRest`, `SolnOffered`, `SolnCalled`, `SolnSmoked`). In `Smoke` the phases are `Gathering`, `Offered(r)`,
  `Smoked(r)` and `AllDone`, with the fields of `g` (`mans`, `smoks`, `done`, `sig`) as numbers of managers and smokers who are
  told, done or still to come. TLC checked the three on the states that are reached and as inductive, from every state that satisfies them, before they were proved.

* `SequentialProofs`, counted elements: `CountsAreExact`, for any number of elements and nodes, both editions and any client that gives each reference up once.
  `ElemInv` says which nodes are linked (`LinkInv`), that a count is the cardinality of the set of references from the list, the tree and the
  client (`CountInv`), and that a string is referred to as long as its element lives (`StringInv`). A count can only be decremented where it is
  positive because that set contains the reference given up, so the parts are proved together.
* `SequentialProofs`, lists and trees: `ListsAndTreesInOrder`, for any integers as values. For the list, `LinkInv` suffices: a node is linked to
  the nearest one on either side that is still in the list. For the trees, `TreeInv` has two parts: parents of nodes are nodes, and at each node all of the left subtree comes
  before it, and none of the right. An insertion keeps both since every comparison on the way to the place says on which side of an ancestor it is.
  `InOrder` ascends by induction on the depth. `RootInv` adds for `BinaryTree` how often each argument is in the tree.
* `SequentialProofs`, arrays: `ListsInsideArrays` and `ListsActAsSequences`, for any initial size, growth factor, length and functions of the test. The
  former is an invariant of `len` and `size`. The latter is the refinement of `SequenceList`: each call is the step that `list.h` promises
  or a stutter. A loop of `list.c` is a recursive function of its counter, and `Recursion` says what it is at its end.
* `SequentialProofs`, machines: `MachinesAlwaysAgree` and `WordsAlwaysKept`, for any size of memory, any set of operands
  and any number of steps. `AgreeInv` adds to the property that registers and `pc` hold words and the memory bytes. That is what
  keeps an opcode below 16, so that the switch and the tables have an entry for each, and what makes the two jumps through a register
  add the same words. An illegal instruction, an address outside the memory and one that is not aligned are where Java
  throws; after that, or after C has left its arrays, nothing is claimed. `SuiteUsesData` carries the theorems about the data structures over to the suite that the run checks.

The theorems assume what the `ASSUME`s of the modules say: sets of threads are finite, `NoThread` is not a
thread, numbers are in range, `result` is a buffer, the values in trees are integers, an array starts with room for an element and grows,
operands have four bits. TLC checks these assumptions on each run.

Left to TLC:

* the fairness part of the two refinements and all liveness properties (ENABLED and liveness are out of the prover's reach);
* `AllocationsLegal`: that a block is not handed out twice rests on the order in which the tests go through their buckets. A block in use
  keeps the link it had when it was free, and `myfree` does not always overwrite it (see *Heap* above), so whether a stale link can become part of the list depends on
  the addresses and sizes of all buckets and on the round. No invariant shorter than the list of these states was found. Its bound on `top` is a fold over a function besides,
  about which nothing can be proved: the theorems on folds take an operator as a parameter, which the installed provers cannot instantiate;
* `MaxFound` and `TestsPass` of `ResultsRight`, which are runs of given programs from given memory: to prove them is to execute them. Its third
  part, `WordsKept`, is proved.

## Not modelled

* `a11/well_sem.c`, `well_sem1.c` and `a10/pc1.c`: unfinished attempts that stop for lack of an unlock, or assign where they mean to
  compare; `a10/q2.c`, a counter under a mutex, which shows no more than `MutualExclusion` does.
* `a9/uthread_mutex_cond.c` with `uthread_cond_naked_signal`: no program uses it. `queue_destroy`: nobody calls it. The free lists of `queue.c` and `disk.c`.
* The queue of threads as the linked list it is (`next`, head, tail), see *Queues*.
* The last header of a heap that is too small (`mymalloc.c:114`): the tests have heaps that suffice.
* The functions of `list.c` that only read, `trunc.c`, `sortmain.c`, printing, reading of arguments, histograms and random stalls.
* The assembly exercises and lecture examples, which keep no state between calls, and the exercise on an unsafe
  program. `pthread` and `malloc` are external.
