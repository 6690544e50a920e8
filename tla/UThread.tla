------------------------------ MODULE UThread ------------------------------
(***************************************************************************)
(* The scheduler of uthread.c: user threads multiplexed over pthreads       *)
(* (processors) with a shared ready queue.                                  *)
(*                                                                         *)
(* The actors are the processors.  A processor executes on the stack of the *)
(* thread run[p] and changes stacks only in uthread_switch, so a thread     *)
(* that is not executing is always at the same point, just after the        *)
(* switch, and ret says where it goes on when uthread_stop returns.         *)
(*                                                                         *)
(* What the threads do between library calls is the client: any thread may  *)
(* unblock or create, those in Yielders yield, those in Joiners join or     *)
(* detach, those in Parkers register somewhere and block, as every wait     *)
(* loop of the synchronisation modules does.                               *)
(***************************************************************************)
EXTENDS Integers, UThreadQueue

CONSTANTS
  Proc,       \* the processors; p also names the base thread of processor p
  First,      \* the processor that calls uthread_init
  Main,       \* base_thread, the thread of main()
  Worker,     \* the threads that uthread_create makes
  NoThread,   \* the null pointer
  Detached,   \* (uthread_t) -1
  Yielders, Joiners, Parkers,
  MaxOps,     \* how often the threads yield or block, together
  Spurious    \* whether pthread_cond_wait may return without a signal

Thread == Proc \cup Worker \cup {Main}

ASSUME ProcAssumption == First \in Proc /\ IsFiniteSet(Proc)
ASSUME WorkerAssumption == IsFiniteSet(Worker) /\ Proc \cap Worker = {} /\ Main \notin Proc \cup Worker
ASSUME PointerAssumption == NoThread \notin Thread /\ Detached \notin Thread /\ NoThread # Detached
ASSUME ClientAssumption == Yielders \cup Joiners \cup Parkers \subseteq Worker \cup {Main}
ASSUME BoundAssumption == MaxOps \in Nat /\ Spurious \in BOOLEAN

VARIABLES
  state, joiner, join_spinlock,     \* struct uthread_TCB
  ready_queue, ready_queue_spinlock,
  pthread_mutex, pthread_num_sleeping,
  pc,      \* where each processor is
  run,     \* the thread whose stack it executes on
  from, to,  \* from_thread and to_thread of uthread_switch
  stop,    \* the argument of uthread_stop
  after,   \* where it goes on after ready_queue_enqueue
  ret,     \* where each thread goes on after uthread_stop
  target,  \* the argument of uthread_join or uthread_detach
  claimed, joined,  \* workers somebody joins or detaches; workers whose join returned
  parked,  \* threads that registered to be unblocked
  ops      \* yields and blocks so far

tcb == <<state, joiner, join_spinlock>>
queue == <<ready_queue, ready_queue_spinlock>>
idle == <<pthread_mutex, pthread_num_sleeping>>
switch == <<run, from, to>>
client == <<target, claimed, joined, parked, ops>>
vars == <<tcb, queue, idle, pc, switch, stop, after, ret, client>>

TState == {"NASCENT", "RUNNING", "RUNABLE", "BLOCKED", "DYING", "DEAD"}
Finished == {"DYING", "DEAD", "FREED"}

Place == {"absent", "run", "signal", "dequeue", "idle1", "idle2", "asleep", "woken",
          "switch", "spin", "arrived", "reap", "requeue", "enter",
          "exit", "exited", "join", "rejoin", "detach"}

TypeOK ==
  /\ state \in [Thread -> TState \cup {"UNUSED", "FREED"}]
  /\ joiner \in [Thread -> Thread \cup {NoThread, Detached}]
  /\ join_spinlock \in [Thread -> BOOLEAN]
  /\ ready_queue \in Seq(Thread)
  /\ ready_queue_spinlock \in BOOLEAN
  /\ pthread_mutex \in BOOLEAN
  /\ pthread_num_sleeping \in 0 .. Cardinality(Proc)
  /\ pc \in [Proc -> Place]
  /\ run \in [Proc -> Thread] /\ from \in [Proc -> Thread] /\ to \in [Proc -> Thread]
  /\ stop \in [Proc -> {"RUNABLE", "BLOCKED", "DYING"}]
  /\ after \in [Proc -> {"run", "enter", "exited"}]
  /\ ret \in [Thread -> {"run", "rejoin"}]
  /\ target \in [Thread -> Worker \cup {NoThread}]
  /\ claimed \in SUBSET Worker /\ joined \in SUBSET Worker
  /\ parked \in SUBSET Thread
  /\ ops \in 0 .. MaxOps

\* After uthread_init: main runs on First, whose own base thread has not run yet;
\* every other processor that was started runs its base thread, in pthread_base.
InitWith(started) ==
  /\ state = [t \in Thread |->
       CASE t \in Worker -> "UNUSED" [] t = First -> "NASCENT" [] OTHER -> "RUNNING"]
  /\ joiner = [t \in Thread |-> NoThread]
  /\ join_spinlock = [t \in Thread |-> FALSE]
  /\ ready_queue = uthread_initqueue
  /\ ready_queue_spinlock = FALSE
  /\ pthread_mutex = FALSE
  /\ pthread_num_sleeping = 0
  /\ pc = [p \in Proc |-> IF p \in started THEN "run" ELSE "absent"]
  /\ run = [p \in Proc |-> IF p = First THEN Main ELSE p]
  /\ from = run /\ to = run
  /\ stop = [p \in Proc |-> "BLOCKED"]
  /\ after = [p \in Proc |-> "run"]
  /\ ret = [t \in Thread |-> "run"]
  /\ target = [t \in Thread |-> NoThread]
  /\ claimed = {} /\ joined = {} /\ parked = {}
  /\ ops = 0

Init == InitWith(Proc)

At(place) == {p \in Proc : pc[p] = place}
Go(p, place) == pc' = [pc EXCEPT ![p] = place]

(***************************************************************************)
(* ready_queue_enqueue                                                     *)
(***************************************************************************)
\* Take the spinlock and queue the thread; `next' is where p goes on afterwards.
Enqueue(p, thread, next) ==
  /\ ~ready_queue_spinlock
  /\ ready_queue_spinlock' = TRUE
  /\ ready_queue' = uthread_enqueue(ready_queue, thread)
  /\ after' = [after EXCEPT ![p] = next]
  /\ Go(p, "signal")
  /\ UNCHANGED <<idle, switch, stop, ret>>

\* Mistake: a processor is signalled only when the queue was empty.
MustSignal_First ==
  pthread_num_sleeping > 0 /\ At("asleep") # {} /\ Len(ready_queue) = 1

\* pthread_cond_signal does something only when a processor sleeps.
MustSignal == pthread_num_sleeping > 0 /\ At("asleep") # {}

\* Under pthread_mutex, signal one sleeping processor, if there is one; unlock both.
SignalIdle(p) ==
  /\ pc[p] = "signal"
  /\ ~pthread_mutex
  /\ ready_queue_spinlock' = FALSE
  /\ IF MustSignal
     THEN \E q \in At("asleep") : pc' = [pc EXCEPT ![p] = after[p], ![q] = "woken"]
     ELSE Go(p, after[p])
  /\ UNCHANGED <<tcb, ready_queue, idle, switch, stop, after, ret, client>>

(***************************************************************************)
(* ready_queue_dequeue                                                     *)
(***************************************************************************)
TakeNext(p) ==
  /\ ready_queue # <<>>
  /\ to' = [to EXCEPT ![p] = Head(ready_queue)]
  /\ ready_queue' = Dequeued(ready_queue)
  /\ Go(p, "switch")
  /\ UNCHANGED ready_queue_spinlock

\* Nothing is ready: the base thread of the processor is next ...
TakeBase(p) ==
  /\ ready_queue = <<>> /\ run[p] # p
  /\ to' = [to EXCEPT ![p] = p]
  /\ Go(p, "switch")
  /\ UNCHANGED queue

\* ... or, when it is the base thread that asks, the pthread goes to sleep.
StartIdle(p) ==
  /\ ready_queue = <<>> /\ run[p] = p
  /\ ready_queue_spinlock' = TRUE
  /\ Go(p, "idle1")
  /\ UNCHANGED <<to, ready_queue>>

Dequeue(p) ==
  /\ pc[p] = "dequeue"
  /\ ~ready_queue_spinlock
  /\ TakeNext(p) \/ TakeBase(p) \/ StartIdle(p)
  /\ UNCHANGED <<tcb, idle, run, from, stop, after, ret, client>>

\* pthread_mutex is taken before the spinlock is released ...
LockIdle(p) ==
  /\ pc[p] = "idle1"
  /\ ~pthread_mutex
  /\ pthread_mutex' = TRUE
  /\ ready_queue_spinlock' = FALSE
  /\ Go(p, "idle2")
  /\ UNCHANGED <<tcb, ready_queue, pthread_num_sleeping, switch, stop, after, ret, client>>

\* ... and released by pthread_cond_wait.
Sleep(p) ==
  /\ pc[p] = "idle2"
  /\ pthread_num_sleeping' = pthread_num_sleeping + 1
  /\ pthread_mutex' = FALSE
  /\ Go(p, "asleep")
  /\ UNCHANGED <<tcb, queue, switch, stop, after, ret, client>>

SpuriousWakeup(p) ==
  /\ Spurious
  /\ pc[p] = "asleep"
  /\ Go(p, "woken")
  /\ UNCHANGED <<tcb, queue, idle, switch, stop, after, ret, client>>

\* Mistake: the processor goes on being counted as asleep.
WakeUp_StillCounted(p) ==
  /\ pc[p] = "woken"
  /\ ~pthread_mutex
  /\ Go(p, "dequeue")
  /\ UNCHANGED <<tcb, queue, idle, switch, stop, after, ret, client>>

WakeUp(p) ==
  /\ pc[p] = "woken"
  /\ ~pthread_mutex
  /\ pthread_num_sleeping' = pthread_num_sleeping - 1
  /\ Go(p, "dequeue")
  /\ UNCHANGED <<tcb, queue, pthread_mutex, switch, stop, after, ret, client>>

(***************************************************************************)
(* uthread_stop, uthread_switch                                            *)
(***************************************************************************)
\* uthread_stop(s) called by the thread of p, which goes on at `place'.
Stop(p, s, place) ==
  /\ stop' = [stop EXCEPT ![p] = s]
  /\ ret' = [ret EXCEPT ![run[p]] = place]
  /\ Go(p, "dequeue")
  /\ UNCHANGED <<queue, idle, switch, after>>

\* Save the registers of from_thread and set its state ...
SaveFrom(p) ==
  /\ pc[p] = "switch"
  /\ state' = [state EXCEPT ![run[p]] = stop[p]]
  /\ Go(p, "spin")
  /\ UNCHANGED <<joiner, join_spinlock, queue, idle, switch, stop, after, ret, client>>

\* Mistake: does not wait.
SwitchTo_NoWait(p) ==
  /\ pc[p] = "spin"
  /\ from' = [from EXCEPT ![p] = run[p]]
  /\ run' = [run EXCEPT ![p] = to[p]]
  /\ Go(p, "arrived")
  /\ UNCHANGED <<tcb, queue, idle, to, stop, after, ret, client>>

\* ... wait until to_thread has stopped too, and change to its stack.
SwitchTo(p) ==
  /\ pc[p] = "spin"
  /\ state[to[p]] # "RUNNING"
  /\ from' = [from EXCEPT ![p] = run[p]]
  /\ run' = [run EXCEPT ![p] = to[p]]
  /\ Go(p, "arrived")
  /\ UNCHANGED <<tcb, queue, idle, to, stop, after, ret, client>>

\* Mistake: a thread that yields is not queued again.
AfterSwitch_NoRequeue(s) == IF s = "DYING" THEN "reap" ELSE "enter"

\* On the new stack: what is to be done for from_thread depends on its state now.  The code tests
\* the state for DYING and then for RUNABLE, in two reads that change nothing; one read at some
\* time between them has each outcome of the two.  It reaps by the first, requeues by the second;
\* if it does neither, the state was a third one at the first or at the second read, or has come
\* from RUNABLE to DYING between them, and so through RUNNING.
AfterSwitch(s) ==
  CASE s = "DYING" -> "reap" [] s = "RUNABLE" -> "requeue" [] OTHER -> "enter"

CheckFrom(p) ==
  /\ pc[p] = "arrived"
  /\ Go(p, AfterSwitch(state[from[p]]))
  /\ UNCHANGED <<tcb, queue, idle, switch, stop, after, ret, client>>

Requeue(p) ==
  /\ pc[p] = "requeue"
  /\ Enqueue(p, from[p], "enter")
  /\ UNCHANGED <<tcb, client>>

\* Mistake: freed even if somebody is going to join it.
Reaped_Always(t) == "FREED"

\* A dead thread is freed here when it is detached (or already joined), otherwise by
\* uthread_join or uthread_detach.
Reaped(t) == IF joiner[t] = Detached THEN "FREED" ELSE "DEAD"

Reap(p) ==
  /\ pc[p] = "reap"
  /\ ~join_spinlock[from[p]]
  /\ state' = [state EXCEPT ![from[p]] = Reaped(from[p])]
  /\ Go(p, "enter")
  /\ UNCHANGED <<joiner, join_spinlock, queue, idle, switch, stop, after, ret, client>>

\* A new thread calls start_proc, any other returns from uthread_stop.
Enter(p) ==
  /\ pc[p] = "enter"
  /\ state' = [state EXCEPT ![run[p]] = "RUNNING"]
  /\ Go(p, IF state[run[p]] = "NASCENT" THEN "run" ELSE ret[run[p]])
  /\ UNCHANGED <<joiner, join_spinlock, queue, idle, switch, stop, after, ret, client>>

\* start_proc has returned.
Exit(p) ==
  /\ pc[p] = "run"
  /\ run[p] \in Worker
  /\ ~join_spinlock[run[p]]
  /\ join_spinlock' = [join_spinlock EXCEPT ![run[p]] = TRUE]
  /\ state' = [state EXCEPT ![run[p]] = "DYING"]
  /\ Go(p, "exit")
  /\ UNCHANGED <<joiner, queue, idle, switch, stop, after, ret, client>>

WakeJoiner(p) ==
  /\ pc[p] = "exit"
  /\ joiner[run[p]] \notin {NoThread, Detached}
  /\ Enqueue(p, joiner[run[p]], "exited")
  /\ UNCHANGED <<tcb, client>>

\* Mistake: the join spinlock is not released.
StopDying_KeepsLock(p) ==
  /\ \/ pc[p] = "exited"
     \/ pc[p] = "exit" /\ joiner[run[p]] \in {NoThread, Detached}
  /\ Stop(p, "DYING", "run")
  /\ UNCHANGED <<tcb, client>>

StopDying(p) ==
  /\ \/ pc[p] = "exited"
     \/ pc[p] = "exit" /\ joiner[run[p]] \in {NoThread, Detached}
  /\ join_spinlock' = [join_spinlock EXCEPT ![run[p]] = FALSE]
  /\ Stop(p, "DYING", "run")
  /\ UNCHANGED <<state, joiner, client>>

\* pthread_base never does anything but stop.
BaseLoop(p) ==
  /\ pc[p] = "run"
  /\ run[p] \in Proc
  /\ Stop(p, "BLOCKED", "run")
  /\ UNCHANGED <<tcb, client>>

(***************************************************************************)
(* The public interface, called by a client thread                         *)
(***************************************************************************)
InClient(p, threads) == pc[p] = "run" /\ run[p] \in threads

uthread_create(p, w) ==
  /\ InClient(p, Worker \cup {Main})
  /\ state[w] = "UNUSED"
  /\ state' = [state EXCEPT ![w] = "NASCENT"]
  /\ Enqueue(p, w, "run")
  /\ UNCHANGED <<joiner, join_spinlock, client>>

uthread_yield(p) ==
  /\ InClient(p, Yielders)
  /\ ops < MaxOps
  /\ ops' = ops + 1
  /\ Stop(p, "RUNABLE", "run")
  /\ UNCHANGED <<tcb, target, claimed, joined, parked>>

\* The thread has entered itself in some queue and calls uthread_block.
uthread_block(p) ==
  /\ InClient(p, Parkers)
  /\ ops < MaxOps
  /\ ops' = ops + 1
  /\ parked' = parked \cup {run[p]}
  /\ Stop(p, "BLOCKED", "run")
  /\ UNCHANGED <<tcb, target, claimed, joined>>

\* Another thread has removed it from there and unblocks it, possibly before it stops.
uthread_unblock(p, t) ==
  /\ InClient(p, Worker \cup {Main})
  /\ t \in parked
  /\ parked' = parked \ {t}
  /\ Enqueue(p, t, "run")
  /\ UNCHANGED <<tcb, target, claimed, joined, ops>>

\* The unlocked test of thread->joiner with which uthread_join and uthread_detach
\* begin.  A client joins or detaches a thread once, and never itself.
Claim(p, w, place) ==
  /\ InClient(p, Joiners)
  /\ w \notin claimed \cup {run[p]}
  /\ state[w] # "UNUSED"
  /\ claimed' = claimed \cup {w}
  /\ target' = [target EXCEPT ![run[p]] = w]
  /\ Go(p, IF joiner[w] = NoThread THEN place ELSE "run")
  /\ UNCHANGED <<tcb, queue, idle, switch, stop, after, ret, joined, parked, ops>>

uthread_join(p, w) == Claim(p, w, "join")
uthread_detach(p, w) == Claim(p, w, "detach")

Target(p) == target[run[p]]

\* Mistake: the joiner stays runnable.
JoinWait_Yields(p) ==
  /\ pc[p] = "join"
  /\ ~join_spinlock[Target(p)]
  /\ state[Target(p)] \notin {"DYING", "DEAD"}
  /\ joiner' = [joiner EXCEPT ![Target(p)] = run[p]]
  /\ Stop(p, "RUNABLE", "rejoin")
  /\ UNCHANGED <<state, join_spinlock, client>>

\* With the join spinlock: wait for a thread that is not dying yet ...
JoinWait(p) ==
  /\ pc[p] = "join"
  /\ ~join_spinlock[Target(p)]
  /\ state[Target(p)] \notin {"DYING", "DEAD"}
  /\ joiner' = [joiner EXCEPT ![Target(p)] = run[p]]
  /\ Stop(p, "BLOCKED", "rejoin")
  /\ UNCHANGED <<state, join_spinlock, client>>

\* Mistake: never frees, not even a thread that is dead already.
Release_Never(w) == joiner' = [joiner EXCEPT ![w] = Detached] /\ UNCHANGED state

\* ... and then free it if it is dead, or leave that to the processor it dies on.
Release(w) ==
  IF state[w] = "DEAD"
  THEN state' = [state EXCEPT ![w] = "FREED"] /\ UNCHANGED joiner
  ELSE joiner' = [joiner EXCEPT ![w] = Detached] /\ UNCHANGED state

JoinReturn(p) ==
  /\ \/ pc[p] = "rejoin"
     \/ pc[p] = "join" /\ state[Target(p)] \in {"DYING", "DEAD"}
  /\ ~join_spinlock[Target(p)]
  /\ Release(Target(p))
  /\ joined' = joined \cup {Target(p)}
  /\ Go(p, "run")
  /\ UNCHANGED <<join_spinlock, queue, idle, switch, stop, after, ret, target, claimed, parked, ops>>

DetachReturn(p) ==
  /\ pc[p] = "detach"
  /\ ~join_spinlock[Target(p)]
  /\ Release(Target(p))
  /\ Go(p, "run")
  /\ UNCHANGED <<join_spinlock, queue, idle, switch, stop, after, ret, client>>

Step(p) ==
  \/ SignalIdle(p) \/ Dequeue(p) \/ LockIdle(p) \/ Sleep(p) \/ WakeUp(p)
  \/ SaveFrom(p) \/ SwitchTo(p) \/ CheckFrom(p) \/ Requeue(p) \/ Reap(p) \/ Enter(p)
  \/ Exit(p) \/ WakeJoiner(p) \/ StopDying(p) \/ BaseLoop(p)
  \/ uthread_yield(p) \/ uthread_block(p)
  \/ \E w \in Worker : uthread_create(p, w) \/ uthread_join(p, w) \/ uthread_detach(p, w)
  \/ \E t \in Thread : uthread_unblock(p, t)
  \/ JoinWait(p) \/ JoinReturn(p) \/ DetachReturn(p)

Next == \E p \in Proc : Step(p) \/ SpuriousWakeup(p)

\* The pthreads are scheduled by the operating system: each takes its next step.
Spec == Init /\ [][Next]_vars /\ \A p \in Proc : WF_vars(Step(p))
-----------------------------------------------------------------------------
\* Two processors never execute on one stack: "Thread switch will wait for it to stop
\* before re-starting it" (uthread_start, uthread_switch).  A processor that spins has
\* saved its registers and uses no stack.
OneProcessor ==
  \A p, q \in Proc : p # q /\ run[p] = run[q] => "spin" \in {pc[p], pc[q]}

\* No processor executes on a freed stack, and none reads a freed TCB, be it as the
\* thread it left, the thread it goes to, or the thread it joins or detaches.
Touched(p) ==
  (IF pc[p] = "spin" THEN {to[p]} ELSE {run[p]})
    \cup (IF pc[p] \in {"arrived", "reap", "requeue"} THEN {from[p]} ELSE {})
    \cup (IF pc[p] \in {"join", "rejoin", "detach"} THEN {Target(p)} ELSE {})

NoUseAfterFree ==
  \A t \in Queued(ready_queue) \cup UNION {Touched(p) : p \in Proc} : state[t] # "FREED"

\* uthread_join returns only after start_proc of its target has returned, though it does
\* not look again at the state when it resumes.
JoinAfterExit == \A w \in joined : state[w] \in Finished

\* Where a thread that was created and has not exited can be.
Executing(t) ==
  \E p \in Proc :
    /\ run[p] = t
    /\ pc[p] \notin {"spin"}
    /\ pc[p] \in {"dequeue", "switch"} => stop[p] # "BLOCKED"
AwaitsJoin(t) ==
  \E w \in Worker :
    /\ joiner[w] = t
    /\ state[w] \in Finished => \E p \in At("exit") : run[p] = w
Scheduled(t) ==
  (IF t \in Queued(ready_queue) THEN {"queue"} ELSE {})
    \cup {p \in At("switch") \cup At("spin") : to[p] = t}
    \cup {p \in At("arrived") \cup At("requeue") : from[p] = t /\ stop[p] = "RUNABLE"}
    \cup {p \in At("spin") : run[p] = t /\ stop[p] = "RUNABLE"}

\* No thread is lost and none is scheduled twice: a live thread is executing, or waits
\* for an unblock or a join, or is scheduled once, and only one of the three.
ThreadConserved ==
  \A t \in Worker \cup {Main} :
    state[t] \notin Finished \cup {"UNUSED"} =>
      /\ Cardinality({b \in {"executing", "blocked", "joining", "scheduled"} :
            CASE b = "executing" -> Executing(t)
              [] b = "blocked"   -> t \in parked
              [] b = "joining"   -> AwaitsJoin(t)
              [] b = "scheduled" -> Scheduled(t) # {}}) = 1
      /\ Cardinality(Scheduled(t)) =< 1

\* While a processor sleeps, every thread in the ready queue is matched by a processor that
\* has been woken, is about to signal one, or is on its way to dequeue: no processor sleeps
\* over work.  A processor holds pthread_mutex from before it releases the ready queue until
\* it sleeps, and every enqueue signals (ready_queue_dequeue, ready_queue_enqueue).
NoSleepOverWork ==
  At("asleep") # {} =>
    Len(ready_queue) =< Cardinality(At("woken")) + Cardinality(At("signal"))
                          + Cardinality({p \in At("dequeue") : run[p] = p})

\* A thread that waits in uthread_join gets out of it.
JoinReturns == \A w \in Worker : joiner[w] \in Thread ~> w \in joined

\* A thread that is joined or detached is freed in the end: no TCB and no stack leaks.
Reclaimed == \A w \in Worker : w \in claimed ~> state[w] = "FREED"
=============================================================================
