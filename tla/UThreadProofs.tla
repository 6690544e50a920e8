--------------------------- MODULE UThreadProofs ---------------------------
(***************************************************************************)
(* What the scheduler keeps for any number of processors and threads.       *)
(*                                                                         *)
(* First the processors, under any client: the types, the two locks, and    *)
(* that no processor sleeps over work.  Then the threads, under a client    *)
(* with QuietBlockers: a thread has one owner, one stack and one joiner.    *)
(***************************************************************************)
EXTENDS UThread, ProofLemmas

\* The number of processors at some places.
Number(places) == CountIn(Proc, pc, places)

\* Who is in uthread_join or uthread_detach has a target, and who will return there too.
TargetsInv ==
  /\ \A p \in Proc : pc[p] \in {"join", "rejoin", "detach"} => Target(p) \in Worker
  /\ \A t \in Thread : ret[t] = "rejoin" => target[t] \in Worker

\* Only a base thread lets its processor sleep, and who sleeps is counted.
IdleInv ==
  /\ \A p \in Proc : pc[p] \in {"idle1", "idle2", "asleep", "woken"} => run[p] = p
  /\ pthread_num_sleeping = Number({"asleep", "woken"})

\* The spinlock of the ready queue is held from an enqueue to the signal, and from the
\* decision to sleep until pthread_mutex is held, which is until the processor sleeps.
LockInv ==
  /\ Number({"signal", "idle1"}) = IF ready_queue_spinlock THEN 1 ELSE 0
  /\ Number({"idle2"}) = IF pthread_mutex THEN 1 ELSE 0

\* The processors that will look at the ready queue, or wake one that will.
Looking(p) ==
  \/ pc[p] \in {"woken", "signal"}
  \/ pc[p] = "dequeue" /\ run[p] = p
Lookers == {p \in Proc : Looking(p)}

\* NoSleepOverWork, from the decision to sleep on.
WorkInv ==
  (\E p \in Proc : pc[p] \in {"idle1", "idle2", "asleep"}) =>
    Len(ready_queue) =< Cardinality(Lookers)

Inv == TypeOK /\ TargetsInv /\ IdleInv /\ LockInv /\ WorkInv

\* Main runs, every queue and lock is empty, and nobody sleeps, at first; some processors may
\* not have started.
LEMMA InitInv == ASSUME NEW started, InitWith(started) PROVE Inv
<1> USE DEF InitWith
<1>1. TypeOK
  <2>1. Cardinality(Proc) \in Nat
    BY ProcAssumption, FS_CardinalityType
  <2>2. 0 \in 0 .. MaxOps /\ 0 \in 0 .. Cardinality(Proc)
    BY <2>1, BoundAssumption
  <2>3. state \in [Thread -> TState \cup {"UNUSED", "FREED"}]
    BY DEF TState
  <2>4. /\ pc \in [Proc -> Place]
        /\ stop \in [Proc -> {"RUNABLE", "BLOCKED", "DYING"}]
        /\ after \in [Proc -> {"run", "enter", "exited"}]
        /\ ret \in [Thread -> {"run", "rejoin"}]
    BY DEF Place
  <2>5. run \in [Proc -> Thread] /\ from \in [Proc -> Thread] /\ to \in [Proc -> Thread]
    BY DEF Thread
  <2>6. /\ joiner \in [Thread -> Thread \cup {NoThread, Detached}]
        /\ join_spinlock \in [Thread -> BOOLEAN]
        /\ target \in [Thread -> Worker \cup {NoThread}]
    OBVIOUS
  <2>7. ready_queue \in Seq(Thread)
    BY DEF uthread_initqueue
  <2> QED
    BY <2>2, <2>3, <2>4, <2>5, <2>6, <2>7 DEF TypeOK
<1>2. TargetsInv
  BY DEF TargetsInv, Thread
<1>3. /\ Number({"asleep", "woken"}) = 0 /\ Number({"signal", "idle1"}) = 0
      /\ Number({"idle2"}) = 0
  BY ProcAssumption, CountType DEF Number
<1>4. IdleInv /\ LockInv
  BY <1>3 DEF IdleInv, LockInv
<1>5. WorkInv
  BY DEF WorkInv
<1> QED
  BY <1>1, <1>2, <1>4, <1>5 DEF Inv

(***************************************************************************)
(* Types and targets                                                       *)
(***************************************************************************)
\* TypeOK without the count of sleepers, which needs IdleInv.
Types ==
  /\ state \in [Thread -> TState \cup {"UNUSED", "FREED"}]
  /\ joiner \in [Thread -> Thread \cup {NoThread, Detached}]
  /\ join_spinlock \in [Thread -> BOOLEAN]
  /\ ready_queue \in Seq(Thread)
  /\ ready_queue_spinlock \in BOOLEAN
  /\ pthread_mutex \in BOOLEAN
  /\ pc \in [Proc -> Place]
  /\ run \in [Proc -> Thread] /\ from \in [Proc -> Thread] /\ to \in [Proc -> Thread]
  /\ stop \in [Proc -> {"RUNABLE", "BLOCKED", "DYING"}]
  /\ after \in [Proc -> {"run", "enter", "exited"}]
  /\ ret \in [Thread -> {"run", "rejoin"}]
  /\ target \in [Thread -> Worker \cup {NoThread}]
  /\ claimed \in SUBSET Worker /\ joined \in SUBSET Worker
  /\ parked \in SUBSET Thread
  /\ ops \in 0 .. MaxOps

\* A step that calls ready_queue_enqueue with a thread.
LEMMA EnqueueTypes ==
  ASSUME Types, NEW p \in Proc, NEW t \in Thread, NEW next \in {"run", "enter", "exited"},
         Enqueue(p, t, next)
  PROVE  /\ ready_queue' \in Seq(Thread) /\ ready_queue_spinlock' \in BOOLEAN
         /\ pthread_mutex' = pthread_mutex /\ pc' = [pc EXCEPT ![p] = "signal"]
         /\ pc' \in [Proc -> Place] /\ pc'[p] = "signal"
         /\ run' = run /\ from' = from /\ to' = to /\ stop' = stop /\ ret' = ret
         /\ after' \in [Proc -> {"run", "enter", "exited"}]
<1>1. ready_queue' \in Seq(Thread)
  BY EnqueueType DEF Types, Enqueue
<1> QED
  BY <1>1 DEF Types, Enqueue, Place, idle, switch, Go

\* A step that calls uthread_stop.
LEMMA StopTypes ==
  ASSUME Types, NEW p \in Proc, NEW s \in {"RUNABLE", "BLOCKED", "DYING"},
         NEW place \in {"run", "rejoin"}, Stop(p, s, place)
  PROVE  /\ UNCHANGED <<ready_queue, ready_queue_spinlock, pthread_mutex, run, from, to, after>>
         /\ pc' = [pc EXCEPT ![p] = "dequeue"] /\ pc' \in [Proc -> Place] /\ pc'[p] = "dequeue"
         /\ stop' \in [Proc -> {"RUNABLE", "BLOCKED", "DYING"}]
         /\ ret' = [ret EXCEPT ![run[p]] = place]
         /\ ret' \in [Thread -> {"run", "rejoin"}]
BY DEF Types, Stop, Place, queue, idle, switch, Go

\* Every step keeps the types, and gives a target to who will use it.
LEMMA TypesStep ==
  ASSUME Types, TargetsInv, NEW p \in Proc, Step(p) \/ SpuriousWakeup(p)
  PROVE  Types' /\ TargetsInv'
<1> USE DEF tcb, queue, idle, switch, client, Target
<1>1. CASE SignalIdle(p) \/ SpuriousWakeup(p)
  <2>1. /\ pc' \in [Proc -> Place]
        /\ \A q \in Proc : pc'[q] \in {"join", "rejoin", "detach"} => pc'[q] = pc[q]
    <3>1. CASE SpuriousWakeup(p)
      BY <3>1 DEF SpuriousWakeup, Types, Place, Go
    <3>2. CASE SignalIdle(p) /\ MustSignal
      <4>1. PICK q \in Proc : pc' = [pc EXCEPT ![p] = after[p], ![q] = "woken"]
        BY <3>2 DEF SignalIdle, At
      <4> QED
        BY <4>1 DEF Types, Place
    <3>3. CASE SignalIdle(p) /\ ~MustSignal
      <4>1. pc' = [pc EXCEPT ![p] = after[p]]
        BY <3>3 DEF SignalIdle, Go
      <4> QED
        BY <4>1 DEF Types, Place
    <3> QED
      BY <1>1, <3>1, <3>2, <3>3
  <2>2. /\ UNCHANGED <<tcb, ready_queue, idle, switch, stop, after, ret, client>>
        /\ ready_queue_spinlock' \in BOOLEAN
    BY <1>1 DEF SignalIdle, SpuriousWakeup, Types
  <2> QED
    BY <2>1, <2>2 DEF Types, TargetsInv
<1>2. CASE Dequeue(p)
  <2>1. /\ pc' \in [Proc -> Place]
        /\ \A q \in Proc : pc'[q] \in {"join", "rejoin", "detach"} => pc'[q] = pc[q]
    BY <1>2 DEF Dequeue, TakeNext, TakeBase, StartIdle, Types, Place, Go
  <2>2. ready_queue' \in Seq(Thread) /\ to' \in [Proc -> Thread]
    <3>1. CASE TakeNext(p)
      BY <3>1 DEF TakeNext, Dequeued, Types
    <3>2. CASE ~TakeNext(p)
      BY <1>2, <3>2 DEF Dequeue, TakeBase, StartIdle, Types, Thread
    <3> QED
      BY <3>1, <3>2
  <2>3. ready_queue_spinlock' \in BOOLEAN
    BY <1>2 DEF Dequeue, TakeNext, TakeBase, StartIdle, Types
  <2>4. UNCHANGED <<tcb, idle, run, from, stop, after, ret, client>>
    BY <1>2 DEF Dequeue
  <2> QED
    BY <2>1, <2>2, <2>3, <2>4 DEF Types, TargetsInv
<1>3. CASE LockIdle(p) \/ Sleep(p) \/ WakeUp(p)
  <2>1. PICK place \in {"idle2", "asleep", "dequeue"} : pc' = [pc EXCEPT ![p] = place]
    BY <1>3 DEF LockIdle, Sleep, WakeUp, Go
  <2>2. /\ UNCHANGED <<tcb, ready_queue, switch, stop, after, ret, client>>
        /\ ready_queue_spinlock' \in BOOLEAN /\ pthread_mutex' \in BOOLEAN
    BY <1>3 DEF LockIdle, Sleep, WakeUp, Types
  <2> QED
    BY <2>1, <2>2 DEF Types, TargetsInv, Place
<1>4. CASE SaveFrom(p) \/ SwitchTo(p) \/ CheckFrom(p) \/ Reap(p)
  <2>1. PICK place \in {"spin", "arrived", "reap", "requeue", "enter"} : pc' = [pc EXCEPT ![p] = place]
    BY <1>4 DEF SaveFrom, SwitchTo, CheckFrom, AfterSwitch, Reap, Go
  <2>2. /\ UNCHANGED <<joiner, join_spinlock, queue, idle, to, stop, after, ret, client>>
        /\ \A q \in Proc : q # p => run'[q] = run[q]
    BY <1>4 DEF SaveFrom, SwitchTo, CheckFrom, Reap, Types
  <2>3. state' \in [Thread -> TState \cup {"UNUSED", "FREED"}]
    <3>1. CASE SaveFrom(p)
      BY <3>1 DEF SaveFrom, Types, TState
    <3>2. CASE Reap(p)
      BY <3>2 DEF Reap, Reaped, Types, TState
    <3>3. CASE SwitchTo(p) \/ CheckFrom(p)
      BY <3>3 DEF SwitchTo, CheckFrom, Types
    <3> QED
      BY <1>4, <3>1, <3>2, <3>3
  <2>4. run' \in [Proc -> Thread] /\ from' \in [Proc -> Thread]
    <3>1. CASE SwitchTo(p)
      BY <3>1 DEF SwitchTo, Types
    <3>2. CASE SaveFrom(p) \/ CheckFrom(p) \/ Reap(p)
      BY <3>2 DEF SaveFrom, CheckFrom, Reap, Types
    <3> QED
      BY <1>4, <3>1, <3>2
  <2> QED
    BY <2>1, <2>2, <2>3, <2>4 DEF Types, TargetsInv, Place
<1>5. CASE Requeue(p) \/ WakeJoiner(p)
  <2>1. PICK t \in Thread, next \in {"run", "enter", "exited"} : Enqueue(p, t, next)
    BY <1>5 DEF Requeue, WakeJoiner, Types
  <2>2. UNCHANGED <<tcb, client>>
    BY <1>5 DEF Requeue, WakeJoiner
  <2> QED
    BY <2>1, <2>2, EnqueueTypes DEF Types, TargetsInv
<1>6. CASE Enter(p)
  BY <1>6 DEF Enter, Types, TargetsInv, Place, Go, TState
<1>7. CASE Exit(p)
  BY <1>7 DEF Exit, Types, TargetsInv, Place, Go, TState
<1>8. CASE StopDying(p) \/ BaseLoop(p) \/ uthread_yield(p) \/ uthread_block(p)
  <2>1. PICK s \in {"RUNABLE", "BLOCKED", "DYING"} : Stop(p, s, "run")
    BY <1>8 DEF StopDying, BaseLoop, uthread_yield, uthread_block
  <2>2. /\ UNCHANGED <<state, joiner, target, claimed, joined>>
        /\ join_spinlock' \in [Thread -> BOOLEAN]
        /\ parked' \in SUBSET Thread /\ ops' \in 0 .. MaxOps
    <3>1. CASE StopDying(p)
      BY <3>1 DEF StopDying, Types
    <3>2. CASE BaseLoop(p)
      BY <3>2 DEF BaseLoop, Types
    <3>3. CASE uthread_yield(p)
      BY <3>3, BoundAssumption DEF uthread_yield, Types
    <3>4. CASE uthread_block(p)
      BY <3>4, BoundAssumption DEF uthread_block, Types
    <3> QED
      BY <1>8, <3>1, <3>2, <3>3, <3>4
  <2>3. Types'
    BY <2>1, <2>2, StopTypes DEF Types
  <2>4. \A t \in Thread : ret'[t] = "rejoin" => ret[t] = "rejoin"
    BY <2>1, StopTypes DEF Types
  <2>5. \A q \in Proc : pc'[q] \in {"join", "rejoin", "detach"} => pc'[q] = pc[q] /\ run'[q] = run[q]
    BY <2>1, StopTypes DEF Types
  <2> QED
    BY <2>2, <2>3, <2>4, <2>5 DEF TargetsInv
<1>9. CASE \E w \in Worker : uthread_create(p, w)
  <2>1. PICK w \in Worker : uthread_create(p, w)
    BY <1>9
  <2>2. w \in Thread /\ Enqueue(p, w, "run")
    BY <2>1 DEF uthread_create, Thread
  <2>3. state' \in [Thread -> TState \cup {"UNUSED", "FREED"}] /\ UNCHANGED <<joiner, join_spinlock, client>>
    BY <2>1 DEF uthread_create, Types, TState
  <2> QED
    BY <2>2, <2>3, EnqueueTypes DEF Types, TargetsInv
<1>10. CASE \E t \in Thread : uthread_unblock(p, t)
  <2>1. PICK t \in Thread : uthread_unblock(p, t)
    BY <1>10
  <2>2. Enqueue(p, t, "run")
    BY <2>1 DEF uthread_unblock
  <2>3. parked' \in SUBSET Thread /\ UNCHANGED <<tcb, target, claimed, joined, ops>>
    BY <2>1 DEF uthread_unblock, Types
  <2> QED
    BY <2>2, <2>3, EnqueueTypes DEF Types, TargetsInv
<1>11. CASE \E w \in Worker : uthread_join(p, w) \/ uthread_detach(p, w)
  <2>1. PICK w \in Worker, place \in {"join", "detach"} : Claim(p, w, place)
    BY <1>11 DEF uthread_join, uthread_detach
  <2> QED
    BY <2>1 DEF Claim, Types, TargetsInv, Place, Go
<1>12. CASE JoinWait(p)
  <2>1. Stop(p, "BLOCKED", "rejoin") /\ pc[p] = "join"
    BY <1>12 DEF JoinWait
  <2>2. target[run[p]] \in Worker
    BY <2>1 DEF TargetsInv
  <2>3. /\ joiner' \in [Thread -> Thread \cup {NoThread, Detached}]
        /\ UNCHANGED <<state, join_spinlock, client>>
    BY <1>12 DEF JoinWait, Types
  <2>4. Types'
    BY <2>1, <2>3, StopTypes DEF Types
  <2> QED
    BY <2>1, <2>2, <2>3, <2>4, StopTypes DEF Types, TargetsInv
<1>13. CASE JoinReturn(p) \/ DetachReturn(p)
  <2>1. target[run[p]] \in Worker
    BY <1>13 DEF JoinReturn, DetachReturn, TargetsInv
  <2>2. /\ Release(target[run[p]]) /\ pc' = [pc EXCEPT ![p] = "run"] /\ joined' \in SUBSET Worker
        /\ UNCHANGED <<join_spinlock, queue, idle, switch, stop, after, ret, target, claimed, parked, ops>>
    BY <1>13, <2>1 DEF JoinReturn, DetachReturn, Types, Go
  <2>3. /\ state' \in [Thread -> TState \cup {"UNUSED", "FREED"}]
        /\ joiner' \in [Thread -> Thread \cup {NoThread, Detached}]
    BY <2>1, <2>2 DEF Release, Types
  <2> QED
    BY <2>2, <2>3 DEF Types, TargetsInv, Place
<1> QED
  BY <1>1, <1>2, <1>3, <1>4, <1>5, <1>6, <1>7, <1>8, <1>9, <1>10, <1>11, <1>12, <1>13 DEF Step

(***************************************************************************)
(* Sleeping processors                                                     *)
(***************************************************************************)
\* The places that the invariants count.
Idle == {"idle1", "idle2", "asleep", "woken"}

\* The part of Inv that speaks of the places of processors.
PlaceInv == IdleInv /\ LockInv /\ WorkInv

\* What a step of p to another place does to the numbers.
NumberMoved(p, places) ==
  /\ CountIn(Proc, pc', places) = Number(places)
       + (IF pc'[p] \in places THEN 1 ELSE 0) - (IF pc[p] \in places THEN 1 ELSE 0)
  /\ Number(places) \in Nat /\ CountIn(Proc, pc', places) \in Nat
  /\ Number(places) = 0 <=> \A q \in Proc : pc[q] \notin places
  /\ CountIn(Proc, pc', places) = 0 <=> \A q \in Proc : pc'[q] \notin places

\* Every step of one processor does that.
LEMMA NumberMove ==
  ASSUME Types, NEW p \in Proc, NEW places, pc' = [pc EXCEPT ![p] = pc'[p]]
  PROVE  NumberMoved(p, places)
<1> DEFINE place == pc'[p]
<1>1. CountIn(Proc, pc', places) = CountIn(Proc, pc, places)
        + (IF p \in Proc /\ place \in places THEN 1 ELSE 0)
        - (IF p \in Proc /\ pc[p] \in places THEN 1 ELSE 0)
  <2>1. pc = [q \in Proc |-> pc[q]] /\ IsFiniteSet(Proc) /\ Proc \subseteq Proc
    BY ProcAssumption DEF Types
  <2>2. CountIn(Proc, [pc EXCEPT ![p] = place], places) = CountIn(Proc, pc, places)
          + (IF p \in Proc /\ place \in places THEN 1 ELSE 0)
          - (IF p \in Proc /\ pc[p] \in places THEN 1 ELSE 0)
    BY <2>1, CountMove
  <2> QED
    BY <2>2
<1>2. /\ Number(places) \in Nat /\ CountIn(Proc, pc', places) \in Nat
      /\ Number(places) = 0 <=> \A q \in Proc : pc[q] \notin places
      /\ CountIn(Proc, pc', places) = 0 <=> \A q \in Proc : pc'[q] \notin places
  BY ProcAssumption, CountType DEF Number
<1> QED
  BY <1>1, <1>2 DEF NumberMoved, Number

\* More lookers are counted as more, and losing one of them loses one.
LEMMA CountLookers ==
  ASSUME NEW A, NEW B, A \subseteq Proc, B \subseteq Proc, NEW p
  PROVE  /\ Cardinality(A) \in Nat /\ Cardinality(B) \in Nat
         /\ A \subseteq B => Cardinality(A) =< Cardinality(B)
         /\ A \ {p} \subseteq B => Cardinality(A) =< Cardinality(B) + 1
         /\ p \notin A /\ A \cup {p} \subseteq B => Cardinality(A) + 1 =< Cardinality(B)
<1>1. IsFiniteSet(A) /\ IsFiniteSet(B)
  BY ProcAssumption, FS_Subset
<1>2. Cardinality(A) \in Nat /\ Cardinality(B) \in Nat
  BY <1>1, FS_CardinalityType
<1>3. A \subseteq B => Cardinality(A) =< Cardinality(B)
  BY <1>1, FS_Subset
<1>4. A \ {p} \subseteq B => Cardinality(A) =< Cardinality(B) + 1
  <2>1. IsFiniteSet(A \ {p}) /\ Cardinality(A \ {p}) \in Nat
    BY <1>1, FS_Subset, FS_CardinalityType
  <2>2. A \ {p} \subseteq B => Cardinality(A \ {p}) =< Cardinality(B)
    BY <1>1, FS_Subset
  <2>3. Cardinality(A) =< Cardinality(A \ {p}) + 1
    <3>1. CASE p \in A
      <4>1. Cardinality(A \ {p}) = Cardinality(A) - 1
        BY <1>1, <3>1, FS_RemoveElement
      <4> QED
        BY <1>2, <4>1
    <3>2. CASE p \notin A
      <4>1. A \ {p} = A
        BY <3>2
      <4> QED
        BY <1>2, <4>1
    <3> QED
      BY <3>1, <3>2
  <2> QED
    BY <1>2, <2>1, <2>2, <2>3
<1>5. p \notin A /\ A \cup {p} \subseteq B => Cardinality(A) + 1 =< Cardinality(B)
  <2>1. p \notin A => Cardinality(A \cup {p}) = Cardinality(A) + 1
    BY <1>1, FS_AddElement
  <2>2. A \cup {p} \subseteq B => Cardinality(A \cup {p}) =< Cardinality(B)
    BY <1>1, FS_Subset
  <2> QED
    BY <2>1, <2>2
<1> QED
  BY <1>2, <1>3, <1>4, <1>5

\* A step that moves p between places that nobody counts.
Plain(p) ==
  /\ pc' = [pc EXCEPT ![p] = pc'[p]]
  /\ pc[p] \notin Idle \cup {"signal", "dequeue"} /\ pc'[p] \notin Idle \cup {"signal"}
  /\ \A q \in Proc : q # p => run'[q] = run[q]
  /\ UNCHANGED <<queue, idle>>

\* Such a step keeps the count of sleepers, the locks and the lookers.
LEMMA PlainKeeps ==
  ASSUME Types, PlaceInv, NEW p \in Proc, Plain(p)
  PROVE  PlaceInv'
<1>1. /\ pc \in [Proc -> Place] /\ pc' = [pc EXCEPT ![p] = pc'[p]]
      /\ \A q \in Proc : q # p => pc'[q] = pc[q] /\ run'[q] = run[q]
      /\ pc[p] \notin Idle \cup {"signal", "dequeue"} /\ pc'[p] \notin Idle \cup {"signal"}
      /\ UNCHANGED <<ready_queue, ready_queue_spinlock, pthread_mutex, pthread_num_sleeping>>
  BY DEF Plain, Types, queue, idle
<1>2. /\ NumberMoved(p, {"asleep", "woken"}) /\ NumberMoved(p, {"signal", "idle1"})
      /\ NumberMoved(p, {"idle2"})
  BY <1>1, NumberMove
<1>3. IdleInv' /\ LockInv'
  BY <1>1, <1>2 DEF PlaceInv, IdleInv, LockInv, NumberMoved, Number, Idle
<1>4. WorkInv'
  <2>1. Lookers \subseteq Lookers' /\ Lookers \subseteq Proc /\ Lookers' \subseteq Proc
    BY <1>1 DEF Lookers, Looking, Idle
  <2>2. Cardinality(Lookers) =< Cardinality(Lookers')
        /\ Cardinality(Lookers) \in Nat /\ Cardinality(Lookers') \in Nat
    BY <2>1, CountLookers
  <2>3. Len(ready_queue) \in Nat
    BY DEF Types
  <2> QED
    BY <1>1, <2>2, <2>3 DEF PlaceInv, WorkInv, Idle
<1> QED
  BY <1>3, <1>4 DEF PlaceInv

\* An enqueue makes p one of those who will signal.
LEMMA EnqueueKeeps ==
  ASSUME Types, PlaceInv, NEW p \in Proc, NEW t \in Thread, NEW next,
         pc[p] \in {"requeue", "exit", "run"}, Enqueue(p, t, next)
  PROVE  PlaceInv'
<1>1. /\ pc \in [Proc -> Place] /\ pc' = [pc EXCEPT ![p] = pc'[p]] /\ pc'[p] = "signal"
      /\ \A q \in Proc : q # p => pc'[q] = pc[q]
      /\ run' = run /\ ~ready_queue_spinlock /\ ready_queue_spinlock' = TRUE
      /\ UNCHANGED <<pthread_mutex, pthread_num_sleeping>>
  BY DEF Enqueue, Types, idle, switch, Go
<1>2. /\ NumberMoved(p, {"asleep", "woken"}) /\ NumberMoved(p, {"signal", "idle1"})
      /\ NumberMoved(p, {"idle2"})
  BY <1>1, NumberMove
<1>3. IdleInv' /\ LockInv'
  BY <1>1, <1>2 DEF PlaceInv, IdleInv, LockInv, NumberMoved, Number
<1>4. WorkInv'
  <2>1. /\ Lookers \cup {p} \subseteq Lookers' /\ p \notin Lookers
        /\ Lookers \subseteq Proc /\ Lookers' \subseteq Proc
    BY <1>1 DEF Lookers, Looking
  <2>2. /\ Cardinality(Lookers) + 1 =< Cardinality(Lookers')
        /\ Cardinality(Lookers) \in Nat /\ Cardinality(Lookers') \in Nat
    BY <2>1, CountLookers
  <2>3. /\ Len(ready_queue) \in Nat /\ Len(ready_queue') \in Nat
        /\ Len(ready_queue') =< Len(ready_queue) + 1
    BY DEF Types, Enqueue, uthread_enqueue
  <2> QED
    BY <1>1, <2>2, <2>3 DEF PlaceInv, WorkInv
<1> QED
  BY <1>3, <1>4 DEF PlaceInv

\* SignalIdle when a processor sleeps: that one looks at the queue in place of p.
LEMMA SignalKeeps ==
  ASSUME Types, PlaceInv, NEW p \in Proc, SignalIdle(p), MustSignal
  PROVE  PlaceInv'
<1> DEFINE mid == [pc EXCEPT ![p] = after[p]]
<1>1. PICK q \in Proc : pc[q] = "asleep" /\ pc' = [pc EXCEPT ![p] = after[p], ![q] = "woken"]
  BY DEF SignalIdle, At
<1>2. /\ pc \in [Proc -> Place] /\ pc[p] = "signal" /\ after[p] \in {"run", "enter", "exited"}
      /\ p # q /\ mid = [r \in Proc |-> mid[r]] /\ mid[q] = "asleep" /\ pc' = [mid EXCEPT ![q] = "woken"]
      /\ pc = [r \in Proc |-> pc[r]] /\ IsFiniteSet(Proc) /\ Proc \subseteq Proc
      /\ pc'[p] = after[p] /\ pc'[q] = "woken" /\ \A r \in Proc \ {p, q} : pc'[r] = pc[r]
  BY <1>1, ProcAssumption DEF SignalIdle, Types
<1>3. /\ UNCHANGED <<ready_queue, pthread_mutex, pthread_num_sleeping, run>>
      /\ ~pthread_mutex /\ ~ready_queue_spinlock'
  BY DEF SignalIdle, idle, switch
<1>4. ASSUME NEW places
      PROVE  /\ CountIn(Proc, mid, places) = Number(places)
                  + (IF p \in Proc /\ after[p] \in places THEN 1 ELSE 0)
                  - (IF p \in Proc /\ pc[p] \in places THEN 1 ELSE 0)
             /\ CountIn(Proc, pc', places) = CountIn(Proc, mid, places)
                  + (IF q \in Proc /\ "woken" \in places THEN 1 ELSE 0)
                  - (IF q \in Proc /\ mid[q] \in places THEN 1 ELSE 0)
             /\ Number(places) \in Nat /\ CountIn(Proc, mid, places) \in Nat
             /\ CountIn(Proc, pc', places) \in Nat
             /\ Number(places) = 0 <=> \A r \in Proc : pc[r] \notin places
  <2> HIDE DEF mid
  <2>1. CountIn(Proc, [pc EXCEPT ![p] = after[p]], places) = CountIn(Proc, pc, places)
          + (IF p \in Proc /\ after[p] \in places THEN 1 ELSE 0)
          - (IF p \in Proc /\ pc[p] \in places THEN 1 ELSE 0)
    BY <1>2, CountMove
  <2>2. CountIn(Proc, [mid EXCEPT ![q] = "woken"], places) = CountIn(Proc, mid, places)
          + (IF q \in Proc /\ "woken" \in places THEN 1 ELSE 0)
          - (IF q \in Proc /\ mid[q] \in places THEN 1 ELSE 0)
    BY <1>2, CountMove
  <2>3. /\ CountIn(Proc, mid, places) \in Nat /\ CountIn(Proc, pc', places) \in Nat
        /\ CountIn(Proc, pc, places) \in Nat
        /\ CountIn(Proc, pc, places) = 0 <=> \A r \in Proc : pc[r] \notin places
    BY <1>2, CountType
  <2> QED
    BY <1>2, <2>1, <2>2, <2>3 DEF Number, mid
<1> HIDE DEF mid
<1>5. CountIn(Proc, pc', {"asleep", "woken"}) = Number({"asleep", "woken"})
  BY <1>2, <1>4
<1>6. CountIn(Proc, pc', {"signal", "idle1"}) = 0
  <2>1. Number({"signal", "idle1"}) = 1
    <3>1. Number({"signal", "idle1"}) # 0
      BY <1>2, <1>4
    <3> QED
      BY <3>1 DEF PlaceInv, LockInv
  <2> QED
    BY <1>2, <1>4, <2>1
<1>7. CountIn(Proc, pc', {"idle2"}) = Number({"idle2"})
  <2> DEFINE places == {"idle2"}
  <2>1. after[p] \notin places /\ pc[p] \notin places /\ "woken" \notin places /\ mid[q] \notin places
    BY <1>2
  <2> HIDE DEF places
  <2>2. CountIn(Proc, pc', places) = Number(places)
    BY <1>4, <2>1
  <2> QED
    BY <2>2 DEF places
<1>8. IdleInv'
  <2>1. \A r \in Proc : pc'[r] \in {"idle1", "idle2", "asleep", "woken"} => run'[r] = r
    BY <1>1, <1>2, <1>3 DEF PlaceInv, IdleInv
  <2> QED
    BY <1>3, <1>5, <2>1 DEF PlaceInv, IdleInv, Number
<1>9. LockInv'
  BY <1>3, <1>6, <1>7 DEF PlaceInv, LockInv, Number
<1>10. WorkInv'
  <2> DEFINE more == Lookers \cup {q}
  <2>1. /\ more \ {p} \subseteq Lookers' /\ Lookers \cup {q} \subseteq more /\ q \notin Lookers
        /\ Lookers \subseteq Proc /\ Lookers' \subseteq Proc /\ more \subseteq Proc
    BY <1>1, <1>2, <1>3 DEF Lookers, Looking
  <2> HIDE DEF more
  <2>2. Cardinality(Lookers) + 1 =< Cardinality(more)
        /\ Cardinality(Lookers) \in Nat /\ Cardinality(more) \in Nat
    BY <2>1, CountLookers
  <2>3. Cardinality(more) =< Cardinality(Lookers') + 1 /\ Cardinality(Lookers') \in Nat
    BY <2>1, CountLookers
  <2>4. Len(ready_queue) \in Nat /\ Len(ready_queue) =< Cardinality(Lookers)
    BY <1>1 DEF PlaceInv, WorkInv, Types
  <2> QED
    BY <1>3, <2>2, <2>3, <2>4 DEF WorkInv
<1> QED
  BY <1>8, <1>9, <1>10 DEF PlaceInv

\* SignalIdle when none does: p holds the spinlock and pthread_mutex is free, so none is on
\* its way to sleep either.
LEMMA NoSignalKeeps ==
  ASSUME Types, PlaceInv, NEW p \in Proc, SignalIdle(p), ~MustSignal
  PROVE  PlaceInv'
<1>1. /\ pc \in [Proc -> Place] /\ pc' = [pc EXCEPT ![p] = pc'[p]]
      /\ pc[p] = "signal" /\ pc'[p] \in {"run", "enter", "exited"}
      /\ \A q \in Proc : q # p => pc'[q] = pc[q]
      /\ UNCHANGED <<ready_queue, pthread_mutex, pthread_num_sleeping, run>>
      /\ ~pthread_mutex /\ ~ready_queue_spinlock'
  BY DEF SignalIdle, Types, idle, switch, Go
<1>2. /\ NumberMoved(p, {"asleep", "woken"}) /\ NumberMoved(p, {"signal", "idle1"})
      /\ NumberMoved(p, {"idle2"})
  BY <1>1, NumberMove
<1>3. IdleInv'
  BY <1>1, <1>2 DEF PlaceInv, IdleInv, NumberMoved, Number
<1>4. LockInv'
  <2>1. Number({"signal", "idle1"}) = 1
    BY <1>1, <1>2 DEF PlaceInv, LockInv, NumberMoved
  <2> QED
    BY <1>1, <1>2, <2>1 DEF PlaceInv, LockInv, NumberMoved, Number
<1>5. WorkInv'
  <2>1. \A q \in Proc : pc[q] # "asleep"
    <3>1. Number({"asleep", "woken"}) = 0 \/ At("asleep") = {}
      BY <1>2 DEF MustSignal, PlaceInv, IdleInv, NumberMoved
    <3> QED
      BY <1>2, <3>1 DEF NumberMoved, At
  <2>2. \A q \in Proc : pc'[q] # "idle1" /\ pc'[q] # "idle2"
    BY <1>1, <1>2, <1>4 DEF LockInv, NumberMoved, Number
  <2> QED
    BY <1>1, <2>1, <2>2 DEF WorkInv
<1> QED
  BY <1>3, <1>4, <1>5 DEF PlaceInv

\* The steps of ready_queue_dequeue up to the sleep and after it, and a wake-up without signal.
LEMMA DequeueKeeps ==
  ASSUME Types, PlaceInv, NEW p \in Proc,
         Dequeue(p) \/ LockIdle(p) \/ Sleep(p) \/ WakeUp(p) \/ SpuriousWakeup(p)
  PROVE  PlaceInv'
<1>1. /\ pc \in [Proc -> Place] /\ pc' = [pc EXCEPT ![p] = pc'[p]] /\ run' = run
      /\ \A q \in Proc : q # p => pc'[q] = pc[q]
  BY DEF Dequeue, TakeNext, TakeBase, StartIdle, LockIdle, Sleep, WakeUp, SpuriousWakeup,
         Types, switch, Go
<1>2. /\ NumberMoved(p, {"asleep", "woken"}) /\ NumberMoved(p, {"signal", "idle1"})
      /\ NumberMoved(p, {"idle2"})
  BY <1>1, NumberMove
<1>3. /\ Lookers \subseteq Proc /\ Lookers' \subseteq Proc
      /\ Cardinality(Lookers) \in Nat /\ Cardinality(Lookers') \in Nat
      /\ Len(ready_queue) \in Nat
  <2>1. Lookers \subseteq Proc /\ Lookers' \subseteq Proc
    BY DEF Lookers
  <2> QED
    BY <2>1, CountLookers DEF Types
<1>4. CASE Dequeue(p) /\ (TakeNext(p) \/ TakeBase(p))
  <2>1. /\ pc[p] = "dequeue" /\ pc'[p] = "switch"
        /\ UNCHANGED <<ready_queue_spinlock, pthread_mutex, pthread_num_sleeping>>
    BY <1>1, <1>4 DEF Dequeue, TakeNext, TakeBase, Types, queue, idle, Go
  <2>2. IdleInv' /\ LockInv'
    BY <1>1, <1>2, <2>1 DEF PlaceInv, IdleInv, LockInv, NumberMoved, Number
  <2>3. CASE TakeNext(p)
    <3>1. Lookers \ {p} \subseteq Lookers'
      BY <1>1 DEF Lookers, Looking
    <3>2. Cardinality(Lookers) =< Cardinality(Lookers') + 1
      BY <1>3, <3>1, CountLookers
    <3>3. Len(ready_queue') = Len(ready_queue) - 1 /\ Len(ready_queue') \in Nat
      <4>1. ready_queue' = Tail(ready_queue) /\ ready_queue # <<>>
        BY <2>3 DEF TakeNext, Dequeued
      <4> QED
        BY <4>1 DEF Types
    <3>4. WorkInv'
      BY <1>1, <1>3, <2>1, <3>2, <3>3 DEF PlaceInv, WorkInv
    <3> QED
      BY <2>2, <3>4 DEF PlaceInv
  <2>4. CASE TakeBase(p)
    <3>1. Lookers \subseteq Lookers' /\ ready_queue' = ready_queue
      <4>1. run[p] # p /\ ready_queue' = ready_queue
        BY <2>4 DEF TakeBase, queue
      <4>2. \A q \in Proc : Looking(q) => q # p
        BY <2>1, <4>1 DEF Looking
      <4> QED
        BY <1>1, <4>1, <4>2 DEF Lookers, Looking
    <3>2. Cardinality(Lookers) =< Cardinality(Lookers')
      BY <1>3, <3>1, CountLookers
    <3>3. WorkInv'
      BY <1>1, <1>3, <2>1, <3>1, <3>2 DEF PlaceInv, WorkInv
    <3> QED
      BY <2>2, <3>3 DEF PlaceInv
  <2> QED
    BY <1>4, <2>3, <2>4
<1>5. CASE Dequeue(p) /\ StartIdle(p)
  <2>1. /\ pc[p] = "dequeue" /\ pc'[p] = "idle1" /\ run[p] = p
        /\ ~ready_queue_spinlock /\ ready_queue_spinlock' = TRUE
        /\ ready_queue' = <<>> /\ UNCHANGED <<pthread_mutex, pthread_num_sleeping>>
    BY <1>1, <1>5 DEF Dequeue, StartIdle, Types, idle, Go
  <2>2. IdleInv' /\ LockInv'
    BY <1>1, <1>2, <2>1 DEF PlaceInv, IdleInv, LockInv, NumberMoved, Number
  <2>3. WorkInv'
    <3>1. Len(ready_queue') = 0
      BY <2>1
    <3> QED
      BY <1>3, <3>1 DEF WorkInv
  <2> QED
    BY <2>2, <2>3 DEF PlaceInv
<1>6. CASE LockIdle(p) \/ Sleep(p)
  <2>1. /\ (pc[p] = "idle1" /\ pc'[p] = "idle2") \/ (pc[p] = "idle2" /\ pc'[p] = "asleep")
        /\ ready_queue' = ready_queue
    BY <1>1, <1>6 DEF LockIdle, Sleep, queue, Types, Go
  <2>2. IdleInv' /\ LockInv'
    <3>1. CASE LockIdle(p)
      <4>1. /\ pc[p] = "idle1" /\ pc'[p] = "idle2" /\ ~pthread_mutex /\ pthread_mutex' = TRUE
            /\ ready_queue_spinlock' = FALSE /\ pthread_num_sleeping' = pthread_num_sleeping
        BY <1>1, <3>1 DEF LockIdle, Types, Go
      <4>2. Number({"signal", "idle1"}) = 1
        BY <1>2, <4>1 DEF PlaceInv, LockInv, NumberMoved
      <4> QED
        BY <1>1, <1>2, <4>1, <4>2 DEF PlaceInv, IdleInv, LockInv, NumberMoved, Number
    <3>2. CASE Sleep(p)
      <4>1. /\ pc[p] = "idle2" /\ pc'[p] = "asleep" /\ pthread_mutex' = FALSE
            /\ ready_queue_spinlock' = ready_queue_spinlock
            /\ pthread_num_sleeping' = pthread_num_sleeping + 1
        BY <1>1, <3>2 DEF Sleep, queue, Types, Go
      <4>2. Number({"idle2"}) = 1
        BY <1>2, <4>1 DEF PlaceInv, LockInv, NumberMoved
      <4> QED
        BY <1>1, <1>2, <4>1, <4>2 DEF PlaceInv, IdleInv, LockInv, NumberMoved, Number
    <3> QED
      BY <1>6, <3>1, <3>2
  <2>3. Lookers \subseteq Lookers'
    BY <1>1, <2>1 DEF Lookers, Looking
  <2>4. Cardinality(Lookers) =< Cardinality(Lookers')
    BY <1>3, <2>3, CountLookers
  <2>5. WorkInv'
    BY <1>1, <1>3, <2>1, <2>4 DEF PlaceInv, WorkInv
  <2> QED
    BY <2>2, <2>5 DEF PlaceInv
<1>7. CASE WakeUp(p) \/ SpuriousWakeup(p)
  <2>1. /\ \/ pc[p] = "woken" /\ pc'[p] = "dequeue" /\ pthread_num_sleeping' = pthread_num_sleeping - 1
           \/ pc[p] = "asleep" /\ pc'[p] = "woken" /\ pthread_num_sleeping' = pthread_num_sleeping
        /\ run[p] = p /\ UNCHANGED <<ready_queue, ready_queue_spinlock, pthread_mutex>>
    BY <1>1, <1>7 DEF WakeUp, SpuriousWakeup, queue, idle, Types, Go, PlaceInv, IdleInv
  <2>2. IdleInv' /\ LockInv'
    BY <1>1, <1>2, <2>1 DEF PlaceInv, IdleInv, LockInv, NumberMoved, Number
  <2>3. Lookers \subseteq Lookers'
    BY <1>1, <2>1 DEF Lookers, Looking
  <2>4. Cardinality(Lookers) =< Cardinality(Lookers')
    BY <1>3, <2>3, CountLookers
  <2>5. WorkInv'
    BY <1>1, <1>3, <2>1, <2>4 DEF PlaceInv, WorkInv
  <2> QED
    BY <2>2, <2>5 DEF PlaceInv
<1> QED
  BY <1>4, <1>5, <1>6, <1>7 DEF Dequeue

\* Every step keeps the account of sleepers, locks and work.
LEMMA PlaceStep ==
  ASSUME Types, PlaceInv, NEW p \in Proc, Step(p) \/ SpuriousWakeup(p)
  PROVE  PlaceInv'
<1> USE DEF tcb, queue, idle, switch, client, Target
<1>1. CASE SignalIdle(p)
  BY <1>1, SignalKeeps, NoSignalKeeps
<1>2. CASE Dequeue(p) \/ LockIdle(p) \/ Sleep(p) \/ WakeUp(p) \/ SpuriousWakeup(p)
  BY <1>2, DequeueKeeps
<1>3. CASE Requeue(p)
  <2>1. pc[p] = "requeue" /\ from[p] \in Thread /\ Enqueue(p, from[p], "enter")
    BY <1>3 DEF Requeue, Types
  <2> QED
    BY <2>1, EnqueueKeeps
<1>4. CASE WakeJoiner(p)
  <2>1. pc[p] = "exit" /\ joiner[run[p]] \in Thread /\ Enqueue(p, joiner[run[p]], "exited")
    BY <1>4 DEF WakeJoiner, Types
  <2> QED
    BY <2>1, EnqueueKeeps
<1>5. CASE \E w \in Worker : uthread_create(p, w)
  <2>1. PICK w \in Worker : uthread_create(p, w)
    BY <1>5
  <2>2. pc[p] = "run" /\ w \in Thread /\ Enqueue(p, w, "run")
    BY <2>1 DEF uthread_create, InClient, Thread
  <2> QED
    BY <2>2, EnqueueKeeps
<1>6. CASE \E t \in Thread : uthread_unblock(p, t)
  <2>1. PICK t \in Thread : uthread_unblock(p, t)
    BY <1>6
  <2>2. pc[p] = "run" /\ Enqueue(p, t, "run")
    BY <2>1 DEF uthread_unblock, InClient
  <2> QED
    BY <2>2, EnqueueKeeps
<1>7. CASE SaveFrom(p) \/ SwitchTo(p) \/ CheckFrom(p) \/ Reap(p)
  <2>1. /\ pc[p] \in {"switch", "spin", "arrived", "reap"}
        /\ \E place \in {"spin", "arrived", "reap", "requeue", "enter"} : pc' = [pc EXCEPT ![p] = place]
        /\ UNCHANGED <<queue, idle>>
    BY <1>7 DEF SaveFrom, SwitchTo, CheckFrom, AfterSwitch, Reap, Go
  <2>2. \A q \in Proc : q # p => run'[q] = run[q]
    BY <1>7 DEF SaveFrom, SwitchTo, CheckFrom, Reap, Types
  <2>3. Plain(p)
    BY <2>1, <2>2 DEF Plain, Types, Idle
  <2> QED
    BY <2>3, PlainKeeps
<1>8. CASE Enter(p) \/ Exit(p) \/ JoinReturn(p) \/ DetachReturn(p)
  <2>1. /\ pc[p] \in {"enter", "run", "join", "rejoin", "detach"}
        /\ \E place \in {"run", "rejoin", "exit"} : pc' = [pc EXCEPT ![p] = place]
        /\ UNCHANGED <<queue, idle, run>>
    BY <1>8 DEF Enter, Exit, JoinReturn, DetachReturn, Types, Go
  <2>2. Plain(p)
    BY <2>1 DEF Plain, Types, Idle
  <2> QED
    BY <2>2, PlainKeeps
<1>9. CASE \E w \in Worker : uthread_join(p, w) \/ uthread_detach(p, w)
  <2>1. PICK w \in Worker, place \in {"join", "detach"} : Claim(p, w, place)
    BY <1>9 DEF uthread_join, uthread_detach
  <2>2. /\ pc[p] = "run" /\ UNCHANGED <<queue, idle, run>>
        /\ \E to_place \in {"join", "detach", "run"} : pc' = [pc EXCEPT ![p] = to_place]
    BY <2>1 DEF Claim, InClient, Go
  <2>3. Plain(p)
    BY <2>2 DEF Plain, Types, Idle
  <2> QED
    BY <2>3, PlainKeeps
<1>10. CASE StopDying(p) \/ BaseLoop(p) \/ uthread_yield(p) \/ uthread_block(p) \/ JoinWait(p)
  <2>1. /\ pc[p] \in {"run", "exit", "exited", "join"}
        /\ \E s \in {"RUNABLE", "BLOCKED", "DYING"}, place \in {"run", "rejoin"} : Stop(p, s, place)
    BY <1>10 DEF StopDying, BaseLoop, uthread_yield, uthread_block, JoinWait, InClient
  <2>2. pc' = [pc EXCEPT ![p] = "dequeue"] /\ UNCHANGED <<queue, idle, run>>
    BY <2>1 DEF Stop, Go
  <2>3. Plain(p)
    BY <2>1, <2>2 DEF Plain, Types, Idle
  <2> QED
    BY <2>3, PlainKeeps
<1> QED
  BY <1>1, <1>2, <1>3, <1>4, <1>5, <1>6, <1>7, <1>8, <1>9, <1>10 DEF Step

(***************************************************************************)
(* The theorems                                                            *)
(***************************************************************************)
\* The counter of sleepers is in range because it counts processors.
LEMMA SleepersBounded == Types /\ IdleInv => TypeOK
<1> SUFFICES ASSUME Types, IdleInv PROVE TypeOK
  OBVIOUS
<1>1. Number({"asleep", "woken"}) \in Nat /\ Number({"asleep", "woken"}) =< Cardinality(Proc)
  <2> DEFINE sleepers == {q \in Proc : pc[q] \in {"asleep", "woken"}}
  <2>1. Cardinality(sleepers) =< Cardinality(Proc) /\ Cardinality(sleepers) \in Nat
    BY ProcAssumption, FS_Subset, FS_CardinalityType
  <2> QED
    BY <2>1 DEF Number, CountIn
<1>2. Cardinality(Proc) \in Nat
  BY ProcAssumption, FS_CardinalityType
<1>3. pthread_num_sleeping \in 0 .. Cardinality(Proc)
  BY <1>1, <1>2 DEF IdleInv
<1> QED
  BY <1>3 DEF Types, TypeOK

\* Every step keeps the invariant, whatever the client does.
LEMMA InvStep == Inv /\ [Next]_vars => Inv'
<1> SUFFICES ASSUME Inv, [Next]_vars PROVE Inv'
  OBVIOUS
<1>1. Types /\ PlaceInv /\ TargetsInv
  BY DEF Inv, TypeOK, Types, PlaceInv
<1>2. CASE Next
  <2>1. PICK p \in Proc : Step(p) \/ SpuriousWakeup(p)
    BY <1>2 DEF Next
  <2>2. Types' /\ TargetsInv'
    BY <1>1, <2>1, TypesStep
  <2>3. PlaceInv'
    BY <1>1, <2>1, PlaceStep
  <2>4. TypeOK'
    <3>1. Types' /\ IdleInv'
      BY <2>2, <2>3 DEF PlaceInv
    <3> QED
      BY <3>1, SleepersBounded, PTL
  <2> QED
    BY <2>2, <2>3, <2>4 DEF Inv, PlaceInv
<1>3. CASE UNCHANGED vars
  <2>1. UNCHANGED <<tcb, queue, idle, pc, switch, stop, after, ret, client>>
    BY <1>3 DEF vars
  <2>2. TypeOK' /\ TargetsInv'
    BY <2>1 DEF Inv, TypeOK, TargetsInv, Target, tcb, queue, idle, switch, client
  <2>3. IdleInv' /\ LockInv' /\ WorkInv'
    BY <2>1 DEF Inv, IdleInv, LockInv, WorkInv, Lookers, Looking, Number, CountIn, queue, idle, switch
  <2> QED
    BY <2>2, <2>3 DEF Inv
<1> QED
  BY <1>2, <1>3

\* The invariant says that no processor sleeps over work: the lookers are the processors
\* that NoSleepOverWork counts.
LEMMA WorkIsSeen == Inv => NoSleepOverWork
<1> SUFFICES ASSUME Inv, At("asleep") # {}
             PROVE  Len(ready_queue) =< Cardinality(At("woken")) + Cardinality(At("signal"))
                                          + Cardinality({p \in At("dequeue") : run[p] = p})
  BY DEF NoSleepOverWork
<1> DEFINE woken == At("woken")
           signal == At("signal")
           dequeue == {p \in At("dequeue") : run[p] = p}
<1>1. /\ IsFiniteSet(woken) /\ IsFiniteSet(signal) /\ IsFiniteSet(dequeue)
      /\ Cardinality(woken) \in Nat /\ Cardinality(signal) \in Nat /\ Cardinality(dequeue) \in Nat
  <2>1. woken \subseteq Proc /\ signal \subseteq Proc /\ dequeue \subseteq Proc
    BY DEF At
  <2> QED
    BY <2>1, ProcAssumption, FS_Subset, FS_CardinalityType
<1>2. /\ Lookers = (woken \cup signal) \cup dequeue
      /\ woken \cap signal = {} /\ (woken \cup signal) \cap dequeue = {}
  BY DEF Lookers, Looking, At
<1> HIDE DEF woken, signal, dequeue
<1>3. Cardinality(Lookers) = Cardinality(woken) + Cardinality(signal) + Cardinality(dequeue)
  <2>1. /\ IsFiniteSet(woken \cup signal)
        /\ Cardinality(woken \cup signal) = Cardinality(woken) + Cardinality(signal)
    <3>1. Cardinality(woken \cap signal) = 0
      BY <1>2, FS_EmptySet
    <3>2. /\ IsFiniteSet(woken \cup signal)
          /\ Cardinality(woken \cup signal)
               = Cardinality(woken) + Cardinality(signal) - Cardinality(woken \cap signal)
      BY <1>1, FS_Union
    <3> QED
      BY <1>1, <3>1, <3>2
  <2>2. Cardinality(Lookers) = Cardinality(woken \cup signal) + Cardinality(dequeue)
    <3>1. Cardinality((woken \cup signal) \cap dequeue) = 0
      BY <1>2, FS_EmptySet
    <3>2. Cardinality((woken \cup signal) \cup dequeue)
            = Cardinality(woken \cup signal) + Cardinality(dequeue)
                - Cardinality((woken \cup signal) \cap dequeue)
      BY <1>1, <2>1, FS_Union
    <3> QED
      BY <1>1, <1>2, <2>1, <3>1, <3>2
  <2> QED
    BY <2>1, <2>2
<1>4. Len(ready_queue) =< Cardinality(Lookers)
  BY DEF Inv, WorkInv, At
<1> QED
  BY <1>3, <1>4 DEF woken, signal, dequeue

\* The scheduler keeps the invariant in every behaviour.
THEOREM SchedulerKeepsInvariant == Spec => []Inv
<1>1. Init => Inv
  BY InitInv DEF Init
<1> QED
  BY <1>1, InvStep, PTL DEF Spec

\* Every variable keeps its type, and the count of sleeping pthreads stays between 0 and
\* the number of processors (pthread_num_sleeping).
THEOREM TypesKept == Spec => []TypeOK
<1>1. Inv => TypeOK
  BY DEF Inv
<1> QED
  BY <1>1, SchedulerKeepsInvariant, PTL

\* No processor sleeps over work, for any number of processors and threads and any client
\* (ready_queue_enqueue, ready_queue_dequeue).
THEOREM NobodySleepsOverWork == Spec => []NoSleepOverWork
BY SchedulerKeepsInvariant, WorkIsSeen, PTL

(***************************************************************************)
(* Threads, under a client whose threads do not stop differently before     *)
(* the processor that they left has read their state                        *)
(***************************************************************************)
\* On one processor any client; on several, only main blocks, and it never yields.
QuietBlockers ==
  \/ Proc = {First}
  \/ Parkers \cup Joiners \subseteq {Main} /\ Main \notin Yielders

\* The threads that are scheduled, all but the base threads.
Scheduling == Worker \cup {Main}

\* Where the thread of a processor is: a processor that signals another is where it goes on,
\* one that idles is in ready_queue_dequeue.
phase == [p \in Proc |-> CASE pc[p] = "signal" -> after[p]
                           [] pc[p] \in Idle   -> "dequeue"
                           [] OTHER            -> pc[p]]

Resuming(p) == phase[p] \in {"arrived", "reap", "requeue", "enter"}
Working(p)  == phase[p] \in {"run", "join", "detach"}
Exiting(p)  == phase[p] \in {"exit", "exited"}
Leaving(p)  == phase[p] \in {"dequeue", "switch", "spin"}
Left(p)     == phase[p] \in {"arrived", "reap", "requeue"}

\* Who is responsible for a thread: a processor that executes it or one that has left it and must queue
\* or reap it, one that goes to it, the thread that it waits for in uthread_join, the ready
\* queue, or the client with which it registered.
RunBy(t)  == {p \in Proc : run[p] = t /\ (Leaving(p) => stop[p] # "BLOCKED")}
ToBy(t)   == {p \in Proc : to[p] = t /\ phase[p] \in {"switch", "spin"}}
FromBy(t) == {p \in Proc : from[p] = t /\ Left(p) /\ stop[p] # "BLOCKED"}
JoinBy(t) == {w \in Worker : joiner[w] = t /\ (state[w] \in Finished => \E p \in Proc : phase[p] = "exit" /\ run[p] = w)}
InQueue(t) == t \in Queued(ready_queue)
IsParked(t) == t \in parked

\* Nobody, and exactly one of them.
Owned(t, r, o, f, j, q, k) ==
  /\ RunBy(t) = r /\ ToBy(t) = o /\ FromBy(t) = f /\ JoinBy(t) = j
  /\ (InQueue(t) <=> q) /\ (IsParked(t) <=> k)
Nowhere(t)  == Owned(t, {}, {}, {}, {}, FALSE, FALSE)
RunOnly(t)  == \E p \in Proc : Owned(t, {p}, {}, {}, {}, FALSE, FALSE)
ToOnly(t)   == \E p \in Proc : Owned(t, {}, {p}, {}, {}, FALSE, FALSE)
FromOnly(t) == \E p \in Proc : Owned(t, {}, {}, {p}, {}, FALSE, FALSE)
JoinOnly(t) == \E w \in Worker : Owned(t, {}, {}, {}, {w}, FALSE, FALSE)
QueueOnly(t) == Owned(t, {}, {}, {}, {}, TRUE, FALSE)
ParkOnly(t)  == Owned(t, {}, {}, {}, {}, FALSE, TRUE)

\* A thread that exists has one owner; a dying one has a processor.
OwnerOf(t) ==
  CASE state[t] \in {"UNUSED", "DEAD", "FREED"} -> Nowhere(t)
    [] state[t] = "DYING" -> RunOnly(t) \/ FromOnly(t)
    [] OTHER -> RunOnly(t) \/ ToOnly(t) \/ FromOnly(t) \/ JoinOnly(t) \/ QueueOnly(t) \/ ParkOnly(t)
OwnerInv ==
  /\ NoDuplicates(ready_queue)
  /\ \A t \in Scheduling : OwnerOf(t)

\* Two processors never execute on one stack.
StackInv ==
  \A p, q \in Proc : run[p] = run[q] /\ phase[p] # "spin" /\ phase[q] # "spin" => p = q

\* Base threads stay on their processors.
BaseInv ==
  /\ Queued(ready_queue) \subseteq Scheduling /\ parked \subseteq Scheduling
  /\ \A w \in Worker : joiner[w] \in Scheduling \cup {NoThread, Detached}
  /\ \A p \in Proc :
       /\ state[p] \in {"NASCENT", "RUNNING", "BLOCKED"}
       /\ run[p] \in Proc => run[p] = p
       /\ phase[p] \in {"switch", "spin"} /\ to[p] \in Proc => to[p] = p
       /\ Left(p) /\ from[p] \in Proc => from[p] = p

\* Who stops, and how.
MayStop(p, t) ==
  /\ stop[p] = "RUNABLE" => t \in Yielders
  /\ stop[p] = "DYING"   => t \in Worker
  /\ stop[p] = "BLOCKED" => t \in {p} \cup Parkers \cup Joiners
RoleInv ==
  \A p \in Proc :
    /\ Leaving(p) => MayStop(p, run[p])
    /\ Left(p) => MayStop(p, from[p])
    /\ phase[p] \in {"join", "rejoin", "detach"} => run[p] \in Joiners
    /\ Exiting(p) => run[p] \in Worker

\* The state of the thread that a processor executes, or has left.
StateInv ==
  \A p \in Proc :
    /\ Working(p) \/ phase[p] \in {"rejoin", "absent"} => state[run[p]] = "RUNNING"
    /\ Exiting(p) => state[run[p]] = "DYING"
    /\ phase[p] \in {"dequeue", "switch"} =>
         state[run[p]] = IF stop[p] = "DYING" THEN "DYING" ELSE "RUNNING"
    /\ Resuming(p) => state[run[p]] \in {"NASCENT", "RUNABLE", "BLOCKED"}
    /\ phase[p] = "spin" /\ stop[p] # "BLOCKED" => state[run[p]] = stop[p]
    /\ Left(p) /\ stop[p] # "BLOCKED" => state[from[p]] = stop[p]
    /\ phase[p] = "requeue" => stop[p] = "RUNABLE"
    /\ phase[p] = "reap" => stop[p] = "DYING"

\* The late read of uthread_switch: a thread that blocked has not yielded or died since.
LateInv ==
  \A p \in Proc : stop[p] = "BLOCKED" =>
    /\ phase[p] = "spin" => state[run[p]] \notin {"RUNABLE", "DYING", "DEAD", "FREED"}
    /\ Left(p) => state[from[p]] \notin {"RUNABLE", "DYING", "DEAD", "FREED"}

\* A thread is joined or detached once, and whoever does is its only joiner.
ClaimInv ==
  /\ \A w \in Worker \ claimed :
       joiner[w] = NoThread /\ state[w] # "FREED" /\ \A t \in Thread : target[t] # w
  /\ \A t, u \in Thread : target[t] = target[u] /\ target[t] \in Worker => t = u
  /\ \A p \in Proc : phase[p] \in {"join", "detach"} =>
       joiner[Target(p)] = NoThread /\ state[Target(p)] \notin {"UNUSED", "FREED"}

\* Where a thread that goes on in uthread_join can be.
Resumes(t) ==
  \/ InQueue(t) \/ ToBy(t) # {}
  \/ \E p \in Proc : run[p] = t /\ (Resuming(p) \/ phase[p] = "rejoin")

\* Where it cannot be while it joins.
Active(p) == Working(p) \/ Exiting(p) \/ (Leaving(p) /\ stop[p] # "BLOCKED")

\* Joiners wait until the thread they join has exited.
WaitInv ==
  \A w \in Worker : joiner[w] \in Thread /\ state[w] # "FREED" =>
    /\ target[joiner[w]] = w /\ ret[joiner[w]] = "rejoin"
    /\ \A p \in Proc : run[p] = joiner[w] => ~Active(p)
ResumeInv ==
  \A t \in Scheduling : ret[t] = "rejoin" /\ Resumes(t) =>
    joiner[target[t]] = t /\ state[target[t]] \in {"DYING", "DEAD"}
\* Who does not join goes on behind the call.
RetInv ==
  /\ \A t \in Thread : ret[t] = "rejoin" => t \in Joiners
  /\ \A p \in Proc : phase[p] = "rejoin" => ret[run[p]] = "rejoin"
  /\ \A t \in Scheduling : state[t] \in {"UNUSED", "NASCENT"} \/ t \in parked => ret[t] = "run"
  /\ \A p \in Proc : stop[p] = "RUNABLE" =>
       /\ Leaving(p) => ret[run[p]] = "run"
       /\ Left(p) => ret[from[p]] = "run"

ThreadInv ==
  /\ OwnerInv /\ StackInv /\ BaseInv /\ RoleInv /\ StateInv /\ LateInv
  /\ ClaimInv /\ WaitInv /\ ResumeInv /\ RetInv /\ JoinAfterExit

(***************************************************************************)
(* Phases and owners                                                       *)
(***************************************************************************)
Phases == {"absent", "run", "dequeue", "switch", "spin", "arrived", "reap", "requeue", "enter",
           "exit", "exited", "join", "rejoin", "detach"}

\* Phases are places; only processors in these are where their pc says.
LEMMA PhaseType ==
  ASSUME Types
  PROVE  /\ phase \in [Proc -> Phases]
         /\ \A p \in Proc : pc[p] \notin Idle \cup {"signal"} => phase[p] = pc[p]
         /\ \A p \in Proc : pc[p] = "signal" => phase[p] = after[p]
         /\ \A p \in Proc : pc[p] \in Idle => phase[p] = "dequeue"
BY DEF Types, Place, phase, Phases, Idle

\* A processor that moves changes its own phase, to the place where it is then.
LEMMA PhaseMove ==
  ASSUME Types, NEW p \in Proc, NEW a,
         pc' = [pc EXCEPT ![p] = a] /\ a \in Place, after' = after
  PROVE  phase' = [phase EXCEPT ![p] = CASE a = "signal" -> after[p]
                                         [] a \in Idle   -> "dequeue"
                                         [] OTHER        -> a]
<1> DEFINE At_(q, place, next) == CASE place = "signal" -> next [] place \in Idle -> "dequeue" [] OTHER -> place
<1>1. phase = [q \in Proc |-> At_(q, pc[q], after[q])] /\ phase' = [q \in Proc |-> At_(q, pc'[q], after'[q])]
  BY DEF phase
<1>2. pc'[p] = a /\ after' = after /\ \A q \in Proc : q # p => pc'[q] = pc[q]
  BY DEF Types
<1> HIDE DEF At_
<1>3. phase' = [phase EXCEPT ![p] = At_(p, a, after[p])]
  BY <1>1, <1>2
<1> QED
  BY <1>3 DEF At_

\* A processor that enqueues a thread is where it goes on afterwards.
LEMMA PhaseEnqueue ==
  ASSUME Types, NEW p \in Proc, NEW a,
         pc' = [pc EXCEPT ![p] = "signal"], after' = [after EXCEPT ![p] = a]
  PROVE  phase' = [phase EXCEPT ![p] = a]
<1> DEFINE At_(q, place, next) == CASE place = "signal" -> next [] place \in Idle -> "dequeue" [] OTHER -> place
<1>1. phase = [q \in Proc |-> At_(q, pc[q], after[q])] /\ phase' = [q \in Proc |-> At_(q, pc'[q], after'[q])]
  BY DEF phase
<1>2. /\ pc'[p] = "signal" /\ after'[p] = a
      /\ \A q \in Proc : q # p => pc'[q] = pc[q] /\ after'[q] = after[q]
  BY DEF Types
<1>3. At_(p, "signal", a) = a
  BY DEF Idle
<1> HIDE DEF At_
<1> QED
  BY <1>1, <1>2, <1>3

\* Whoever has an owner has only that one.
LEMMA OneOwner ==
  ASSUME NEW t, OwnerOf(t)
  PROVE  /\ \A p \in Proc : p \in RunBy(t) => Owned(t, {p}, {}, {}, {}, FALSE, FALSE)
         /\ \A p \in Proc : p \in ToBy(t) => Owned(t, {}, {p}, {}, {}, FALSE, FALSE)
         /\ \A p \in Proc : p \in FromBy(t) => Owned(t, {}, {}, {p}, {}, FALSE, FALSE)
         /\ \A w \in Worker : w \in JoinBy(t) => Owned(t, {}, {}, {}, {w}, FALSE, FALSE)
         /\ InQueue(t) => QueueOnly(t)
         /\ IsParked(t) => ParkOnly(t)
         /\ RunBy(t) # {} \/ ToBy(t) # {} \/ FromBy(t) # {} \/ JoinBy(t) # {} \/ InQueue(t) \/ IsParked(t)
              => state[t] \notin {"UNUSED", "DEAD", "FREED"}
         /\ ToBy(t) # {} \/ JoinBy(t) # {} \/ InQueue(t) \/ IsParked(t) => state[t] # "DYING"
<1>1. Nowhere(t) \/ RunOnly(t) \/ ToOnly(t) \/ FromOnly(t) \/ JoinOnly(t) \/ QueueOnly(t) \/ ParkOnly(t)
  BY DEF OwnerOf
<1>2. CASE Nowhere(t)
  BY <1>2 DEF Nowhere, Owned
<1>3. CASE RunOnly(t)
  BY <1>3 DEF OwnerOf, Nowhere, RunOnly, Owned
<1>4. CASE ToOnly(t)
  BY <1>4 DEF OwnerOf, Nowhere, RunOnly, ToOnly, FromOnly, Owned
<1>5. CASE FromOnly(t)
  BY <1>5 DEF OwnerOf, Nowhere, FromOnly, Owned
<1>6. CASE JoinOnly(t)
  BY <1>6 DEF OwnerOf, Nowhere, RunOnly, FromOnly, JoinOnly, Owned
<1>7. CASE QueueOnly(t)
  BY <1>7 DEF OwnerOf, Nowhere, RunOnly, FromOnly, QueueOnly, Owned
<1>8. CASE ParkOnly(t)
  BY <1>8 DEF OwnerOf, Nowhere, RunOnly, FromOnly, ParkOnly, Owned
<1> QED
  BY <1>1, <1>2, <1>3, <1>4, <1>5, <1>6, <1>7, <1>8

\* A step that leaves the owners of a thread as they are.
SameOwners(t) ==
  /\ RunBy(t)' = RunBy(t) /\ ToBy(t)' = ToBy(t) /\ FromBy(t)' = FromBy(t) /\ JoinBy(t)' = JoinBy(t)
  /\ (InQueue(t)' <=> InQueue(t)) /\ (IsParked(t)' <=> IsParked(t))

Gone == {"UNUSED", "DEAD", "FREED"}

\* It keeps them right unless the thread comes or goes.
LEMMA OwnersKept ==
  ASSUME NEW t, OwnerOf(t), SameOwners(t),
         state'[t] \in Gone <=> state[t] \in Gone,
         state'[t] = "DYING" => state[t] = "DYING" \/ RunBy(t) # {}
  PROVE  OwnerOf(t)'
<1>1. /\ (Nowhere(t) => Nowhere(t)') /\ (RunOnly(t) => RunOnly(t)') /\ (ToOnly(t) => ToOnly(t)')
      /\ (FromOnly(t) => FromOnly(t)') /\ (JoinOnly(t) => JoinOnly(t)') /\ (QueueOnly(t) => QueueOnly(t)')
      /\ (ParkOnly(t) => ParkOnly(t)')
  BY DEF SameOwners, Nowhere, RunOnly, ToOnly, FromOnly, JoinOnly, QueueOnly, ParkOnly, Owned
<1>2. RunBy(t) # {} => Nowhere(t) \/ RunOnly(t)
  BY DEF OwnerOf, Nowhere, RunOnly, ToOnly, FromOnly, JoinOnly, QueueOnly, ParkOnly, Owned
<1>3. RunBy(t) # {} => ~Nowhere(t)
  BY DEF Nowhere, Owned
<1> QED
  BY <1>1, <1>2, <1>3 DEF OwnerOf, Gone

\* The threads are the base threads and those that are scheduled.
LEMMA ThreadKinds ==
  /\ Thread = Proc \cup Scheduling /\ Worker \subseteq Scheduling /\ Main \in Scheduling
  /\ Yielders \subseteq Scheduling /\ Joiners \subseteq Scheduling /\ Parkers \subseteq Scheduling
  /\ Proc \cap Scheduling = {} /\ NoThread \notin Thread /\ Detached \notin Thread
BY WorkerAssumption, ClientAssumption, PointerAssumption DEF Thread, Scheduling

\* A thread that runs belongs to the processor that executes it.
LEMMA Runner ==
  ASSUME Types, ThreadInv, NEW p \in Proc, run[p] \in Scheduling, Leaving(p) => stop[p] # "BLOCKED"
  PROVE  Owned(run[p], {p}, {}, {}, {}, FALSE, FALSE) /\ state[run[p]] \notin Gone
<1>1. p \in RunBy(run[p]) /\ OwnerOf(run[p])
  BY DEF RunBy, ThreadInv, OwnerInv
<1> QED
  BY <1>1, OneOwner DEF Gone

\* Another processor is on the same stack only if it spins after the thread blocked, and it has
\* left the thread of another only if that thread blocked.
LEMMA AloneOnStack ==
  ASSUME Types, ThreadInv, NEW p \in Proc, phase[p] # "spin"
  PROVE  \A q \in Proc : q # p =>
           /\ run[q] = run[p] => phase[q] = "spin" /\ stop[q] = "BLOCKED"
           /\ Left(q) /\ from[q] = run[p] => stop[q] = "BLOCKED"
<1> SUFFICES ASSUME NEW q \in Proc, q # p
             PROVE  /\ run[q] = run[p] => phase[q] = "spin" /\ stop[q] = "BLOCKED"
                    /\ Left(q) /\ from[q] = run[p] => stop[q] = "BLOCKED"
  OBVIOUS
<1>1. run[q] = run[p] => phase[q] = "spin"
  BY DEF ThreadInv, StackInv
<1>2. CASE run[p] \in Proc
  BY <1>2 DEF ThreadInv, BaseInv
<1>3. CASE run[p] \in Scheduling
  <2>1. /\ run[q] = run[p] /\ stop[q] # "BLOCKED" => q \in RunBy(run[p])
        /\ Left(q) /\ from[q] = run[p] /\ stop[q] # "BLOCKED" => q \in FromBy(run[p])
    BY DEF RunBy, FromBy
  <2>2. CASE Leaving(p) => stop[p] # "BLOCKED"
    <3>1. RunBy(run[p]) = {p} /\ FromBy(run[p]) = {}
      BY <1>3, <2>2, Runner DEF Owned
    <3> QED
      BY <1>1, <2>1, <3>1
  <2>3. CASE Leaving(p) /\ stop[p] = "BLOCKED"
    <3>1. state[run[p]] = "RUNNING"
      BY <2>3 DEF Leaving, ThreadInv, StateInv
    <3>2. stop[q] \in {"RUNABLE", "BLOCKED", "DYING"}
      BY DEF Types
    <3> QED
      BY <1>1, <3>1, <3>2 DEF ThreadInv, StateInv
  <2> QED
    BY <2>2, <2>3
<1> QED
  BY <1>2, <1>3, ThreadKinds DEF Types

\* What QuietBlockers is for: the threads that other processors have left after they blocked
\* do not yield and do not exit.
LEMMA LeftBlocked ==
  ASSUME QuietBlockers, Types, ThreadInv, NEW p \in Proc, NEW q \in Proc, q # p, stop[q] = "BLOCKED", NEW t,
         (phase[q] = "spin" /\ t = run[q]) \/ (Left(q) /\ t = from[q])
  PROVE  t \in {q, Main} /\ t \notin Yielders \cup Worker
<1>1. t \in {q} \cup Parkers \cup Joiners
  BY DEF ThreadInv, RoleInv, MayStop, Leaving
<1>2. Parkers \cup Joiners \subseteq {Main} /\ Main \notin Yielders
  BY ProcAssumption DEF QuietBlockers
<1> QED
  BY <1>1, <1>2, ThreadKinds, WorkerAssumption

\* Nobody executes or has left a thread that is dead.
LEMMA DeadAway ==
  ASSUME Types, ThreadInv, NEW t, state[t] \in {"DEAD", "FREED"}
  PROVE  \A q \in Proc : run[q] # t /\ (Left(q) => from[q] # t)
<1> SUFFICES ASSUME NEW q \in Proc PROVE run[q] # t /\ (Left(q) => from[q] # t)
  OBVIOUS
<1>1. phase[q] \in Phases /\ stop[q] \in {"RUNABLE", "BLOCKED", "DYING"}
  BY PhaseType DEF Types
<1>2. Left(q) => from[q] # t
  BY <1>1 DEF ThreadInv, StateInv, LateInv
<1>3. phase[q] # "spin" => run[q] # t
  BY <1>1 DEF ThreadInv, StateInv, Phases, Working, Exiting, Resuming
<1>4. phase[q] = "spin" => run[q] # t
  BY <1>1 DEF ThreadInv, StateInv, LateInv
<1> QED
  BY <1>2, <1>3, <1>4

\* Whoever joins or detaches has a target.
LEMMA TargetKnown ==
  ASSUME Types, TargetsInv
  PROVE  \A q \in Proc : phase[q] \in {"join", "rejoin", "detach"} => Target(q) \in Worker
BY PhaseType DEF Types, Place, Idle, TargetsInv

\* ready_queue_dequeue finds a thread.
LEMMA TakeNextKeeps ==
  ASSUME Types, ThreadInv, NEW p \in Proc, Dequeue(p), TakeNext(p)
  PROVE  ThreadInv'
<1> USE DEF tcb, queue, idle, switch, client
<1>0. PICK t \in Scheduling : t = Head(ready_queue) /\ {t} = uthread_dequeue(ready_queue)
  BY DequeueSet DEF TakeNext, uthread_dequeue, Types, ThreadInv, OwnerInv, BaseInv
<1>1. /\ phase \in [Proc -> Phases] /\ phase[p] = "dequeue" /\ phase' = [phase EXCEPT ![p] = "switch"]
      /\ to \in [Proc -> Thread] /\ to' = [to EXCEPT ![p] = t] /\ ready_queue' = Dequeued(ready_queue)
      /\ ready_queue \in Seq(Thread)
      /\ UNCHANGED <<state, joiner, run, from, stop, ret, target, claimed, joined, parked>>
  <2>1. pc[p] = "dequeue" /\ pc' = [pc EXCEPT ![p] = "switch"] /\ after' = after
    BY DEF Dequeue, TakeNext, Go
  <2>2. phase' = [phase EXCEPT ![p] = CASE "switch" = "signal" -> after[p]
                                        [] "switch" \in Idle   -> "dequeue"
                                        [] OTHER               -> "switch"]
    BY <2>1, PhaseMove DEF Place
  <2> QED
    BY <1>0, <2>1, <2>2, PhaseType DEF Idle, Dequeue, TakeNext, Types
<1>2. /\ NoDuplicates(ready_queue') /\ Queued(ready_queue') = Queued(ready_queue) \ {t}
      /\ t \in Queued(ready_queue)
  BY <1>0, <1>1, DequeueSet DEF ThreadInv, OwnerInv
<1>3. /\ \A u : u # t => SameOwners(u)
      /\ RunBy(t)' = RunBy(t) /\ ToBy(t)' = ToBy(t) \cup {p} /\ FromBy(t)' = FromBy(t) /\ JoinBy(t)' = JoinBy(t)
      /\ ~InQueue(t)' /\ (IsParked(t)' <=> IsParked(t))
  <2>1. \A u : RunBy(u)' = RunBy(u) /\ FromBy(u)' = FromBy(u)
    BY <1>1 DEF RunBy, FromBy, Leaving, Left
  <2>2. \A u : JoinBy(u)' = JoinBy(u)
    BY <1>1 DEF JoinBy
  <2>3. \A u : ToBy(u)' = IF u = t THEN ToBy(u) \cup {p} ELSE ToBy(u)
    BY <1>1 DEF ToBy
  <2>4. \A u : (InQueue(u)' <=> InQueue(u) /\ u # t) /\ (IsParked(u)' <=> IsParked(u))
    BY <1>1, <1>2 DEF InQueue, IsParked
  <2> QED
    BY <2>1, <2>2, <2>3, <2>4 DEF SameOwners
<1>4. QueueOnly(t) /\ state[t] \notin Gone /\ state[t] # "DYING"
  BY <1>0, <1>2, OneOwner DEF ThreadInv, OwnerInv, InQueue, Gone
<1>5. OwnerInv'
  <2>1. ASSUME NEW u \in Scheduling PROVE OwnerOf(u)'
    <3>1. CASE u # t
      BY <1>1, <1>3, <3>1, OwnersKept DEF ThreadInv, OwnerInv
    <3>2. CASE u = t
      <4>1. ToOnly(u)'
        BY <1>3, <1>4, <3>2 DEF QueueOnly, ToOnly, Owned
      <4> QED
        BY <1>1, <1>4, <3>2, <4>1 DEF OwnerOf, Gone
    <3> QED
      BY <3>1, <3>2
  <2> QED
    BY <1>2, <2>1 DEF OwnerInv
<1>6. StackInv'
  BY <1>1 DEF ThreadInv, StackInv
<1>7. BaseInv'
  BY <1>1, <1>2, WorkerAssumption DEF ThreadInv, BaseInv, Left, Scheduling
<1>8. RoleInv'
  BY <1>1 DEF ThreadInv, RoleInv, MayStop, Leaving, Left, Exiting
<1>9. StateInv' /\ LateInv'
  BY <1>1 DEF ThreadInv, StateInv, LateInv, Working, Exiting, Resuming, Left
<1>10. ClaimInv' /\ WaitInv' /\ RetInv' /\ JoinAfterExit'
  BY <1>1 DEF ThreadInv, ClaimInv, WaitInv, RetInv, JoinAfterExit, Target, Active, Working, Exiting, Leaving, Left
<1>11. ResumeInv'
  <2>1. \A u \in Scheduling : Resumes(u)' => Resumes(u)
    BY <1>1, <1>2, <1>3 DEF Resumes, Resuming, InQueue, SameOwners
  <2> QED
    BY <1>1, <2>1 DEF ThreadInv, ResumeInv
<1> QED
  BY <1>5, <1>6, <1>7, <1>8, <1>9, <1>10, <1>11 DEF ThreadInv

\* ready_queue_dequeue finds none and the thread is not the base thread.
LEMMA TakeBaseKeeps ==
  ASSUME Types, ThreadInv, NEW p \in Proc, Dequeue(p), TakeBase(p)
  PROVE  ThreadInv'
<1> USE DEF tcb, queue, idle, switch, client
<1>1. /\ phase \in [Proc -> Phases] /\ phase[p] = "dequeue" /\ phase' = [phase EXCEPT ![p] = "switch"]
      /\ to \in [Proc -> Thread] /\ to' = [to EXCEPT ![p] = p]
      /\ UNCHANGED <<state, joiner, ready_queue, run, from, stop, ret, target, claimed, joined, parked>>
  <2>1. pc[p] = "dequeue" /\ pc' = [pc EXCEPT ![p] = "switch"] /\ after' = after
    BY DEF Dequeue, TakeBase, Go
  <2>2. phase' = [phase EXCEPT ![p] = CASE "switch" = "signal" -> after[p]
                                        [] "switch" \in Idle   -> "dequeue"
                                        [] OTHER               -> "switch"]
    BY <2>1, PhaseMove DEF Place
  <2> QED
    BY <2>1, <2>2, PhaseType DEF Idle, Dequeue, TakeBase, Types
<1>2. OwnerInv'
  <2>1. ASSUME NEW u \in Scheduling PROVE SameOwners(u)
    <3>1. u # p
      BY ThreadKinds
    <3>2. RunBy(u)' = RunBy(u) /\ FromBy(u)' = FromBy(u) /\ ToBy(u)' = ToBy(u) /\ JoinBy(u)' = JoinBy(u)
      BY <1>1, <3>1 DEF RunBy, FromBy, ToBy, JoinBy, Leaving, Left
    <3> QED
      BY <1>1, <3>2 DEF SameOwners, InQueue, IsParked
  <2> QED
    BY <1>1, <2>1, OwnersKept DEF ThreadInv, OwnerInv
<1>3. StackInv'
  BY <1>1 DEF ThreadInv, StackInv
<1>4. BaseInv'
  BY <1>1 DEF ThreadInv, BaseInv, Left
<1>5. RoleInv'
  BY <1>1 DEF ThreadInv, RoleInv, MayStop, Leaving, Left, Exiting
<1>6. StateInv' /\ LateInv'
  BY <1>1 DEF ThreadInv, StateInv, LateInv, Working, Exiting, Resuming, Left
<1>7. ClaimInv' /\ WaitInv' /\ RetInv' /\ JoinAfterExit'
  BY <1>1 DEF ThreadInv, ClaimInv, WaitInv, RetInv, JoinAfterExit, Target, Active, Working, Exiting, Leaving, Left
<1>8. ResumeInv'
  <2>1. \A u \in Scheduling : Resumes(u)' => Resumes(u)
    <3>1. \A u \in Scheduling : u # p
      BY ThreadKinds
    <3>2. \A u \in Scheduling : ToBy(u)' = ToBy(u)
      BY <1>1, <3>1 DEF ToBy
    <3> QED
      BY <1>1, <3>2 DEF Resumes, Resuming, InQueue
  <2> QED
    BY <1>1, <2>1 DEF ThreadInv, ResumeInv
<1> QED
  BY <1>2, <1>3, <1>4, <1>5, <1>6, <1>7, <1>8 DEF ThreadInv

\* The thread is saved with the state in which it stops.
LEMMA SaveFromKeeps ==
  ASSUME QuietBlockers, Types, TargetsInv, ThreadInv, NEW p \in Proc, SaveFrom(p)
  PROVE  ThreadInv'
<1> USE DEF tcb, queue, idle, switch, client
<1>0. PICK t \in Thread : t = run[p]
  BY DEF Types
<1>1. /\ phase \in [Proc -> Phases] /\ phase[p] = "switch" /\ phase' = [phase EXCEPT ![p] = "spin"]
      /\ state \in [Thread -> TState \cup {"UNUSED", "FREED"}] /\ state' = [state EXCEPT ![t] = stop[p]]
      /\ stop[p] \in {"RUNABLE", "BLOCKED", "DYING"}
      /\ state[t] = IF stop[p] = "DYING" THEN "DYING" ELSE "RUNNING"
      /\ UNCHANGED <<joiner, ready_queue, run, from, to, stop, ret, target, claimed, joined, parked>>
  <2>1. pc[p] = "switch" /\ pc' = [pc EXCEPT ![p] = "spin"] /\ after' = after
    BY DEF SaveFrom, Go
  <2>2. phase' = [phase EXCEPT ![p] = CASE "spin" = "signal" -> after[p]
                                        [] "spin" \in Idle   -> "dequeue"
                                        [] OTHER             -> "spin"]
    BY <2>1, PhaseMove DEF Place
  <2>3. phase[p] = "switch" /\ phase \in [Proc -> Phases]
    BY <2>1, PhaseType DEF Idle
  <2> QED
    BY <1>0, <2>1, <2>2, <2>3 DEF Idle, SaveFrom, Types, ThreadInv, StateInv
<1>2. \A q \in Proc : q # p =>
        /\ run[q] = t => phase[q] = "spin" /\ stop[q] = "BLOCKED"
        /\ Left(q) /\ from[q] = t => stop[q] = "BLOCKED"
  BY <1>0, <1>1, AloneOnStack
<1>3. OwnerInv'
  <2>1. ASSUME NEW u \in Scheduling
        PROVE  /\ SameOwners(u) /\ (state'[u] \in Gone <=> state[u] \in Gone)
               /\ (state'[u] = "DYING" => state[u] = "DYING")
    <3>1. RunBy(u)' = RunBy(u) /\ FromBy(u)' = FromBy(u) /\ ToBy(u)' = ToBy(u)
      BY <1>1 DEF RunBy, FromBy, ToBy, Leaving, Left
    <3>2. JoinBy(u)' = JoinBy(u)
      <4>1. \A w \in Worker : state'[w] \in Finished <=> state[w] \in Finished
        BY <1>1, ThreadKinds DEF Finished
      <4>2. \A w : (\E q \in Proc : phase'[q] = "exit" /\ run'[q] = w) <=> (\E q \in Proc : phase[q] = "exit" /\ run[q] = w)
        BY <1>1
      <4> QED
        BY <1>1, <4>1, <4>2 DEF JoinBy
    <3>3. (state'[u] \in Gone <=> state[u] \in Gone) /\ (state'[u] = "DYING" => state[u] = "DYING")
      BY <1>1, ThreadKinds DEF Gone
    <3> QED
      BY <1>1, <3>1, <3>2, <3>3 DEF SameOwners, InQueue, IsParked
  <2> QED
    BY <1>1, <2>1, OwnersKept DEF ThreadInv, OwnerInv
<1>4. StackInv'
  BY <1>1 DEF ThreadInv, StackInv
<1>5. BaseInv'
  <2>1. t \in Proc => t = p /\ stop[p] = "BLOCKED"
    BY <1>0, <1>1, ThreadKinds DEF ThreadInv, BaseInv, RoleInv, MayStop, Leaving
  <2> QED
    BY <1>1, <2>1, ThreadKinds DEF ThreadInv, BaseInv, Left
<1>6. RoleInv'
  BY <1>1 DEF ThreadInv, RoleInv, MayStop, Leaving, Left, Exiting
<1>7. StateInv'
  <2>1. ASSUME NEW q \in Proc, q # p, run[q] # t, Left(q) => from[q] # t \/ stop[q] = "BLOCKED"
        PROVE  /\ phase'[q] = phase[q] /\ state'[run'[q]] = state[run[q]]
               /\ Left(q) /\ stop[q] # "BLOCKED" => state'[from'[q]] = state[from[q]]
    BY <1>1, <2>1
  <2>2. \A q \in Proc : q # p /\ run[q] # t =>
          /\ phase'[q] = phase[q] /\ state'[run'[q]] = state[run[q]] 
          /\ Left(q) /\ stop[q] # "BLOCKED" => state'[from'[q]] = state[from[q]]
    BY <1>2, <2>1
  <2>3. \A q \in Proc : q # p /\ run[q] = t => phase'[q] = "spin" /\ stop'[q] = "BLOCKED"
    BY <1>1, <1>2
  <2>4. phase'[p] = "spin" /\ state'[run'[p]] = stop'[p]
    BY <1>0, <1>1
  <2>5. stop' = stop
    BY <1>1
  <2> QED
    BY <2>2, <2>3, <2>4, <2>5 DEF ThreadInv, StateInv, Working, Exiting, Resuming, Left
<1>8. LateInv'
  <2>1. ASSUME NEW q \in Proc, q # p, stop[q] = "BLOCKED", (phase[q] = "spin" /\ t = run[q]) \/ (Left(q) /\ t = from[q])
        PROVE  stop[p] = "BLOCKED"
    <3>1. t \in {q, Main} /\ t \notin Yielders \cup Worker
      BY <2>1, LeftBlocked
    <3> QED
      BY <1>0, <1>1, <3>1 DEF ThreadInv, RoleInv, MayStop, Leaving
  <2>2. state'[t] \in {"RUNABLE", "DYING", "DEAD", "FREED"} => stop[p] # "BLOCKED"
    BY <1>1
  <2> QED
    BY <1>0, <1>1, <2>1, <2>2 DEF ThreadInv, LateInv, Left
<1>9. \A u \in Thread : /\ state'[u] = "FREED" => state[u] = "FREED"
                        /\ state[u] = "FREED" => state'[u] = "FREED"
                        /\ state'[u] = "UNUSED" => state[u] = "UNUSED"
                        /\ state'[u] = "NASCENT" => state[u] = "NASCENT"
                        /\ state[u] \in Finished => state'[u] \in Finished
                        /\ state[u] \in {"DYING", "DEAD"} => state'[u] \in {"DYING", "DEAD"}
  BY <1>1 DEF Finished
<1>10. ClaimInv'
  <2>1. \A q \in Proc : phase'[q] \in {"join", "detach"} => phase[q] \in {"join", "detach"} /\ Target(q)' = Target(q) /\ Target(q) \in Worker
    BY <1>1, TargetKnown DEF Target
  <2> QED
    BY <1>1, <1>9, <2>1, ThreadKinds DEF ThreadInv, ClaimInv
<1>11. WaitInv' /\ JoinAfterExit'
  BY <1>1, <1>9, ThreadKinds DEF ThreadInv, WaitInv, Active, Working, Exiting, Leaving, Left, JoinAfterExit, Types
<1>12. RetInv'
  BY <1>1, <1>9, ThreadKinds DEF ThreadInv, RetInv, Leaving, Left
<1>13. ResumeInv'
  <2>1. \A u \in Scheduling : Resumes(u)' => Resumes(u)
    <3>1. \A u : ToBy(u)' = ToBy(u)
      BY <1>1 DEF ToBy
    <3> QED
      BY <1>1, <3>1 DEF Resumes, Resuming, InQueue
  <2> QED
    BY <1>1, <1>9, <2>1, ThreadKinds DEF ThreadInv, ResumeInv, Types
<1> QED
  BY <1>3, <1>4, <1>5, <1>6, <1>7, <1>8, <1>10, <1>11, <1>12, <1>13 DEF ThreadInv

\* The processor changes to the stack of the next thread, which has stopped.
LEMMA SwitchToKeeps ==
  ASSUME Types, ThreadInv, NEW p \in Proc, SwitchTo(p)
  PROVE  ThreadInv'
<1> USE DEF tcb, queue, idle, switch, client
<1>0. PICK t \in Thread, n \in Thread : t = run[p] /\ n = to[p]
  BY DEF Types
<1>1. /\ phase \in [Proc -> Phases] /\ phase[p] = "spin" /\ phase' = [phase EXCEPT ![p] = "arrived"]
      /\ from \in [Proc -> Thread] /\ from' = [from EXCEPT ![p] = t]
      /\ run \in [Proc -> Thread] /\ run' = [run EXCEPT ![p] = n] /\ run[p] = t
      /\ state[n] # "RUNNING" /\ state[n] \in TState \cup {"UNUSED", "FREED"}
      /\ stop[p] \in {"RUNABLE", "BLOCKED", "DYING"}
      /\ UNCHANGED <<state, joiner, ready_queue, to, stop, ret, target, claimed, joined, parked>>
  <2>1. pc[p] = "spin" /\ pc' = [pc EXCEPT ![p] = "arrived"] /\ after' = after
    BY DEF SwitchTo, Go
  <2>2. phase' = [phase EXCEPT ![p] = CASE "arrived" = "signal" -> after[p]
                                        [] "arrived" \in Idle   -> "dequeue"
                                        [] OTHER                -> "arrived"]
    BY <2>1, PhaseMove DEF Place
  <2>3. phase[p] = "spin" /\ phase \in [Proc -> Phases]
    BY <2>1, PhaseType DEF Idle
  <2> QED
    BY <1>0, <2>1, <2>2, <2>3 DEF Idle, SwitchTo, Types
<1>2. n \in Scheduling => Owned(n, {}, {p}, {}, {}, FALSE, FALSE) /\ state[n] \notin Gone /\ state[n] # "DYING"
  <2>1. p \in ToBy(n)
    BY <1>0, <1>1 DEF ToBy
  <2> QED
    BY <2>1, OneOwner DEF ThreadInv, OwnerInv, Gone
<1>3. state[n] \in {"NASCENT", "RUNABLE", "BLOCKED"}
  <2>1. n \in Proc => n = p
    BY <1>0, <1>1 DEF ThreadInv, BaseInv
  <2> QED
    BY <1>1, <1>2, <2>1, ThreadKinds DEF ThreadInv, BaseInv, TState, Gone
<1>4. t \in Scheduling /\ stop[p] # "BLOCKED" => Owned(t, {p}, {}, {}, {}, FALSE, FALSE) /\ state[t] \notin Gone
  BY <1>0, Runner
<1>5. /\ \A u : RunBy(u)' = IF u = n THEN RunBy(u) \cup {p} ELSE RunBy(u) \ {p}
      /\ \A u : ToBy(u)' = ToBy(u) \ {p}
      /\ \A u : FromBy(u)' = IF u = t /\ stop[p] # "BLOCKED" THEN FromBy(u) \cup {p} ELSE FromBy(u)
      /\ \A u : JoinBy(u)' = JoinBy(u)
      /\ \A u : (InQueue(u)' <=> InQueue(u)) /\ (IsParked(u)' <=> IsParked(u))
  <2>1. \A u : RunBy(u)' = IF u = n THEN RunBy(u) \cup {p} ELSE RunBy(u) \ {p}
    BY <1>1 DEF RunBy, Leaving
  <2>2. \A u : ToBy(u)' = ToBy(u) \ {p}
    BY <1>1 DEF ToBy
  <2>3. \A u : FromBy(u)' = IF u = t /\ stop[p] # "BLOCKED" THEN FromBy(u) \cup {p} ELSE FromBy(u)
    BY <1>1 DEF FromBy, Left
  <2>4. \A u : JoinBy(u)' = JoinBy(u)
    <3>1. \A w : (\E q \in Proc : phase'[q] = "exit" /\ run'[q] = w) <=> (\E q \in Proc : phase[q] = "exit" /\ run[q] = w)
      BY <1>1
    <3> QED
      BY <1>1, <3>1 DEF JoinBy
  <2>5. \A u : (InQueue(u)' <=> InQueue(u)) /\ (IsParked(u)' <=> IsParked(u))
    BY <1>1 DEF InQueue, IsParked
  <2> QED
    BY <2>1, <2>2, <2>3, <2>4, <2>5
<1>6. OwnerInv'
  <2>1. ASSUME NEW u \in Scheduling PROVE OwnerOf(u)'
    <3>1. CASE u = n
      <4>1. ~(u = t /\ stop[p] # "BLOCKED")
        BY <1>2, <1>4, <3>1 DEF Owned
      <4>2. RunOnly(u)'
        BY <1>2, <1>5, <3>1, <4>1 DEF RunOnly, Owned
      <4> QED
        BY <1>1, <1>2, <3>1, <4>2 DEF OwnerOf, Gone
    <3>2. CASE u # n /\ u = t /\ stop[p] # "BLOCKED"
      <4>1. FromOnly(u)'
        BY <1>4, <1>5, <3>2 DEF FromOnly, Owned
      <4> QED
        BY <1>1, <1>4, <3>2, <4>1 DEF OwnerOf, Gone
    <3>3. CASE u # n /\ ~(u = t /\ stop[p] # "BLOCKED")
      <4>1. p \notin RunBy(u) /\ p \notin ToBy(u)
        BY <1>0, <1>1, <3>3 DEF RunBy, ToBy, Leaving
      <4>2. SameOwners(u)
        BY <1>5, <3>3, <4>1 DEF SameOwners
      <4> QED
        BY <1>1, <4>2, OwnersKept DEF ThreadInv, OwnerInv
    <3> QED
      BY <3>1, <3>2, <3>3
  <2> QED
    BY <1>1, <2>1 DEF ThreadInv, OwnerInv
<1>7. StackInv'
  <2>1. ASSUME NEW q \in Proc, q # p, run[q] = n PROVE phase[q] = "spin"
    <3>1. CASE n \in Proc
      BY <1>0, <1>1, <2>1, <3>1 DEF ThreadInv, BaseInv
    <3>2. CASE n \in Scheduling
      <4>1. Leaving(q) /\ stop[q] = "BLOCKED"
        BY <1>2, <2>1, <3>2 DEF RunBy, Owned
      <4> QED
        BY <1>1, <2>1, <4>1 DEF ThreadInv, StateInv, Leaving
    <3> QED
      BY <3>1, <3>2, ThreadKinds
  <2> QED
    BY <1>1, <2>1 DEF ThreadInv, StackInv
<1>8. BaseInv'
  BY <1>0, <1>1 DEF ThreadInv, BaseInv, Left
<1>9. RoleInv'
  BY <1>0, <1>1 DEF ThreadInv, RoleInv, MayStop, Leaving, Left, Exiting
<1>10. StateInv' /\ LateInv'
  BY <1>0, <1>1, <1>3 DEF ThreadInv, StateInv, LateInv, Working, Exiting, Resuming, Left
<1>11. ClaimInv'
  BY <1>1 DEF ThreadInv, ClaimInv, Target
<1>12. WaitInv' /\ RetInv' /\ JoinAfterExit'
  BY <1>1 DEF ThreadInv, WaitInv, RetInv, JoinAfterExit, Active, Working, Exiting, Leaving, Left
<1>13. ResumeInv'
  <2>1. \A u \in Scheduling : Resumes(u)' => Resumes(u)
    <3>1. p \in ToBy(n)
      BY <1>0, <1>1 DEF ToBy
    <3> QED
      BY <1>1, <1>5, <3>1 DEF Resumes, Resuming
  <2> QED
    BY <1>1, <2>1 DEF ThreadInv, ResumeInv
<1> QED
  BY <1>6, <1>7, <1>8, <1>9, <1>10, <1>11, <1>12, <1>13 DEF ThreadInv

\* What is done for the thread that was left depends on how it stopped.
LEMMA CheckFromKeeps ==
  ASSUME Types, ThreadInv, NEW p \in Proc, CheckFrom(p)
  PROVE  ThreadInv'
<1> USE DEF tcb, queue, idle, switch, client
<1>0. PICK a \in {"reap", "requeue", "enter"} : a = AfterSwitch(state[from[p]])
  BY DEF AfterSwitch
<1>1. /\ phase \in [Proc -> Phases] /\ phase[p] = "arrived" /\ phase' = [phase EXCEPT ![p] = a]
      /\ UNCHANGED <<state, joiner, ready_queue, run, from, to, stop, ret, target, claimed, joined, parked>>
  <2>1. pc[p] = "arrived" /\ pc' = [pc EXCEPT ![p] = a] /\ after' = after
    BY <1>0 DEF CheckFrom, Go
  <2>2. phase' = [phase EXCEPT ![p] = CASE a = "signal" -> after[p]
                                        [] a \in Idle   -> "dequeue"
                                        [] OTHER        -> a]
    BY <2>1, PhaseMove DEF Place
  <2>3. phase[p] = "arrived" /\ phase \in [Proc -> Phases]
    BY <2>1, PhaseType DEF Idle
  <2> QED
    BY <2>1, <2>2, <2>3 DEF Idle, CheckFrom
<1>2. \/ stop[p] = "RUNABLE" /\ a = "requeue"
      \/ stop[p] = "DYING" /\ a = "reap"
      \/ stop[p] = "BLOCKED" /\ a = "enter"
  <2>1. stop[p] \in {"RUNABLE", "BLOCKED", "DYING"} /\ Left(p)
    BY <1>1 DEF Types, Left
  <2>2. stop[p] # "BLOCKED" => state[from[p]] = stop[p]
    BY <2>1 DEF ThreadInv, StateInv
  <2>3. stop[p] = "BLOCKED" => state[from[p]] \notin {"RUNABLE", "DYING"}
    BY <2>1 DEF ThreadInv, LateInv
  <2> QED
    BY <1>0, <2>1, <2>2, <2>3 DEF AfterSwitch
<1>3. OwnerInv'
  <2>1. ASSUME NEW u \in Scheduling PROVE SameOwners(u)
    <3>1. RunBy(u)' = RunBy(u) /\ ToBy(u)' = ToBy(u) /\ JoinBy(u)' = JoinBy(u)
      BY <1>1 DEF RunBy, ToBy, JoinBy, Leaving
    <3>2. FromBy(u)' = FromBy(u)
      BY <1>1, <1>2 DEF FromBy, Left
    <3> QED
      BY <1>1, <3>1, <3>2 DEF SameOwners, InQueue, IsParked
  <2> QED
    BY <1>1, <2>1, OwnersKept DEF ThreadInv, OwnerInv
<1>4. StackInv'
  BY <1>1 DEF ThreadInv, StackInv
<1>5. BaseInv'
  BY <1>1 DEF ThreadInv, BaseInv, Left
<1>6. RoleInv'
  BY <1>1 DEF ThreadInv, RoleInv, MayStop, Leaving, Left, Exiting
<1>7. StateInv' /\ LateInv'
  BY <1>1, <1>2 DEF ThreadInv, StateInv, LateInv, Working, Exiting, Resuming, Left
<1>8. ClaimInv' /\ WaitInv' /\ RetInv' /\ JoinAfterExit'
  BY <1>1 DEF ThreadInv, ClaimInv, WaitInv, RetInv, JoinAfterExit, Target, Active, Working, Exiting, Leaving, Left
<1>9. ResumeInv'
  <2>1. \A u \in Scheduling : Resumes(u)' => Resumes(u)
    <3>1. \A u : ToBy(u)' = ToBy(u)
      BY <1>1 DEF ToBy
    <3> QED
      BY <1>1, <3>1 DEF Resumes, Resuming, InQueue
  <2> QED
    BY <1>1, <2>1 DEF ThreadInv, ResumeInv
<1> QED
  BY <1>3, <1>4, <1>5, <1>6, <1>7, <1>8, <1>9 DEF ThreadInv

\* A thread that yielded goes from its processor to the ready queue.
LEMMA RequeueKeeps ==
  ASSUME Types, ThreadInv, NEW p \in Proc, Requeue(p)
  PROVE  ThreadInv'
<1> USE DEF tcb, queue, idle, switch, client
<1>0. PICK t \in Thread : t = from[p]
  BY DEF Types
<1>1. /\ phase \in [Proc -> Phases] /\ phase[p] = "requeue" /\ phase' = [phase EXCEPT ![p] = "enter"]
      /\ ready_queue \in Seq(Thread) /\ ready_queue' = uthread_enqueue(ready_queue, t)
      /\ UNCHANGED <<state, joiner, run, from, to, stop, ret, target, claimed, joined, parked>>
  <2>1. pc[p] = "requeue" /\ Enqueue(p, t, "enter") /\ UNCHANGED <<tcb, client>>
    BY <1>0 DEF Requeue
  <2>2. phase' = [phase EXCEPT ![p] = "enter"]
    BY <2>1, PhaseEnqueue DEF Enqueue, Go
  <2>3. phase[p] = "requeue" /\ phase \in [Proc -> Phases]
    BY <2>1, PhaseType DEF Idle
  <2> QED
    BY <2>1, <2>2, <2>3 DEF Enqueue, Types
<1>2. /\ NoDuplicates(ready_queue') /\ Queued(ready_queue') = Queued(ready_queue) \cup {t}
      /\ \A u : (InQueue(u)' <=> InQueue(u) \/ u = t)
  BY <1>1, EnqueueSet, EnqueueNoDuplicates DEF ThreadInv, OwnerInv, InQueue
<1>3. stop[p] = "RUNABLE" /\ state[t] = "RUNABLE" /\ t \in Scheduling /\ ret[t] = "run"
  BY <1>0, <1>1, ThreadKinds DEF ThreadInv, StateInv, RoleInv, RetInv, MayStop, Left
<1>4. Owned(t, {}, {}, {p}, {}, FALSE, FALSE)
  <2>1. p \in FromBy(t) /\ OwnerOf(t)
    BY <1>0, <1>1, <1>3 DEF FromBy, Left, ThreadInv, OwnerInv
  <2> QED
    BY <2>1, OneOwner
<1>5. /\ \A u : RunBy(u)' = RunBy(u) /\ ToBy(u)' = ToBy(u) /\ JoinBy(u)' = JoinBy(u)
      /\ \A u : FromBy(u)' = FromBy(u) \ {p}
      /\ \A u : (IsParked(u)' <=> IsParked(u))
  <2>1. \A u : RunBy(u)' = RunBy(u) /\ ToBy(u)' = ToBy(u) /\ JoinBy(u)' = JoinBy(u)
    BY <1>1 DEF RunBy, ToBy, JoinBy, Leaving
  <2>2. \A u : FromBy(u)' = FromBy(u) \ {p}
    BY <1>1 DEF FromBy, Left
  <2> QED
    BY <1>1, <2>1, <2>2 DEF IsParked
<1>6. OwnerInv'
  <2>1. ASSUME NEW u \in Scheduling PROVE OwnerOf(u)'
    <3>1. CASE u = t
      <4>1. QueueOnly(u)'
        BY <1>2, <1>4, <1>5, <3>1 DEF QueueOnly, Owned
      <4> QED
        BY <1>1, <1>3, <3>1, <4>1 DEF OwnerOf
    <3>2. CASE u # t
      <4>1. p \notin FromBy(u)
        BY <1>0, <3>2 DEF FromBy
      <4>2. SameOwners(u)
        BY <1>2, <1>5, <3>2, <4>1 DEF SameOwners
      <4> QED
        BY <1>1, <4>2, OwnersKept DEF ThreadInv, OwnerInv
    <3> QED
      BY <3>1, <3>2
  <2> QED
    BY <1>2, <2>1 DEF OwnerInv
<1>7. StackInv'
  BY <1>1 DEF ThreadInv, StackInv
<1>8. BaseInv'
  BY <1>1, <1>2, <1>3 DEF ThreadInv, BaseInv, Left
<1>9. RoleInv'
  BY <1>1 DEF ThreadInv, RoleInv, MayStop, Leaving, Left, Exiting
<1>10. StateInv' /\ LateInv'
  BY <1>1 DEF ThreadInv, StateInv, LateInv, Working, Exiting, Resuming, Left
<1>11. ClaimInv' /\ WaitInv' /\ RetInv' /\ JoinAfterExit'
  BY <1>1 DEF ThreadInv, ClaimInv, WaitInv, RetInv, JoinAfterExit, Target, Active, Working, Exiting, Leaving, Left
<1>12. ResumeInv'
  <2>1. \A u \in Scheduling : Resumes(u)' => Resumes(u) \/ u = t
    BY <1>1, <1>2, <1>5 DEF Resumes, Resuming
  <2> QED
    BY <1>1, <1>3, <2>1 DEF ThreadInv, ResumeInv
<1> QED
  BY <1>6, <1>7, <1>8, <1>9, <1>10, <1>11, <1>12 DEF ThreadInv

\* An exiting thread puts its joiner in the ready queue.
LEMMA WakeJoinerKeeps ==
  ASSUME Types, ThreadInv, NEW p \in Proc, WakeJoiner(p)
  PROVE  ThreadInv'
<1> USE DEF tcb, queue, idle, switch, client
<1>0. PICK t \in Scheduling, w \in Worker : t = joiner[w] /\ w = run[p]
  <2>1. run[p] \in Worker
    BY PhaseType DEF WakeJoiner, Idle, ThreadInv, RoleInv, Exiting
  <2> QED
    BY <2>1 DEF WakeJoiner, ThreadInv, BaseInv
<1>1. /\ phase \in [Proc -> Phases] /\ phase[p] = "exit" /\ phase' = [phase EXCEPT ![p] = "exited"]
      /\ ready_queue \in Seq(Thread) /\ t \in Thread /\ ready_queue' = uthread_enqueue(ready_queue, t)
      /\ UNCHANGED <<state, joiner, run, from, to, stop, ret, target, claimed, joined, parked>>
  <2>1. pc[p] = "exit" /\ Enqueue(p, t, "exited") /\ UNCHANGED <<tcb, client>>
    BY <1>0 DEF WakeJoiner
  <2>2. phase' = [phase EXCEPT ![p] = "exited"]
    BY <2>1, PhaseEnqueue DEF Enqueue, Go
  <2>3. phase[p] = "exit" /\ phase \in [Proc -> Phases]
    BY <2>1, PhaseType DEF Idle
  <2> QED
    BY <2>1, <2>2, <2>3, ThreadKinds DEF Enqueue, Types
<1>2. /\ NoDuplicates(ready_queue') /\ Queued(ready_queue') = Queued(ready_queue) \cup {t}
      /\ \A u : (InQueue(u)' <=> InQueue(u) \/ u = t)
  BY <1>1, EnqueueSet, EnqueueNoDuplicates DEF ThreadInv, OwnerInv, InQueue
<1>3. state[w] = "DYING"
  BY <1>0, <1>1 DEF ThreadInv, StateInv, Exiting
<1>4. Owned(t, {}, {}, {}, {w}, FALSE, FALSE) /\ state[t] \notin Gone /\ state[t] # "DYING"
  <2>1. w \in JoinBy(t) /\ OwnerOf(t)
    BY <1>0, <1>1 DEF JoinBy, ThreadInv, OwnerInv
  <2> QED
    BY <2>1, OneOwner DEF Gone
<1>5. /\ \A u : RunBy(u)' = RunBy(u) /\ ToBy(u)' = ToBy(u) /\ FromBy(u)' = FromBy(u)
      /\ \A u : u # t => JoinBy(u)' = JoinBy(u)
      /\ JoinBy(t)' = JoinBy(t) \ {w}
      /\ \A u : (IsParked(u)' <=> IsParked(u))
  <2>1. \A u : RunBy(u)' = RunBy(u) /\ ToBy(u)' = ToBy(u) /\ FromBy(u)' = FromBy(u)
    BY <1>1 DEF RunBy, ToBy, FromBy, Leaving, Left
  <2>2. \A v : v # w => ((\E q \in Proc : phase'[q] = "exit" /\ run'[q] = v) <=> (\E q \in Proc : phase[q] = "exit" /\ run[q] = v))
    BY <1>0, <1>1
  <2>3. \A q \in Proc : phase'[q] = "exit" => run'[q] # w
    BY <1>0, <1>1 DEF ThreadInv, StackInv
  <2>4. \A u : u # t => JoinBy(u)' = JoinBy(u)
    BY <1>0, <1>1, <2>2 DEF JoinBy
  <2>5. JoinBy(t)' = JoinBy(t) \ {w}
    BY <1>1, <1>3, <2>2, <2>3 DEF JoinBy, Finished
  <2> QED
    BY <1>1, <2>1, <2>4, <2>5 DEF IsParked
<1>6. OwnerInv'
  <2>1. ASSUME NEW u \in Scheduling PROVE OwnerOf(u)'
    <3>1. CASE u = t
      <4>1. QueueOnly(u)'
        BY <1>2, <1>4, <1>5, <3>1 DEF QueueOnly, Owned
      <4> QED
        BY <1>1, <1>4, <3>1, <4>1 DEF OwnerOf, Gone
    <3>2. CASE u # t
      <4>1. SameOwners(u)
        BY <1>2, <1>5, <3>2 DEF SameOwners
      <4> QED
        BY <1>1, <4>1, OwnersKept DEF ThreadInv, OwnerInv
    <3> QED
      BY <3>1, <3>2
  <2> QED
    BY <1>2, <2>1 DEF OwnerInv
<1>7. StackInv'
  BY <1>1 DEF ThreadInv, StackInv
<1>8. BaseInv'
  BY <1>1, <1>2 DEF ThreadInv, BaseInv, Left
<1>9. RoleInv'
  BY <1>1 DEF ThreadInv, RoleInv, MayStop, Leaving, Left, Exiting
<1>10. StateInv' /\ LateInv'
  BY <1>1 DEF ThreadInv, StateInv, LateInv, Working, Exiting, Resuming, Left
<1>11. ClaimInv' /\ WaitInv' /\ RetInv' /\ JoinAfterExit'
  BY <1>1 DEF ThreadInv, ClaimInv, WaitInv, RetInv, JoinAfterExit, Target, Active, Working, Exiting, Leaving, Left
<1>12. ResumeInv'
  <2>1. \A u \in Scheduling : Resumes(u)' => Resumes(u) \/ u = t
    BY <1>1, <1>2, <1>5 DEF Resumes, Resuming
  <2>2. target[t] = w
    BY <1>0, <1>1, <1>3 DEF ThreadInv, WaitInv
  <2> QED
    BY <1>0, <1>1, <1>3, <2>1, <2>2 DEF ThreadInv, ResumeInv
<1> QED
  BY <1>6, <1>7, <1>8, <1>9, <1>10, <1>11, <1>12 DEF ThreadInv

\* A new thread enters the ready queue.
LEMMA CreateKeeps ==
  ASSUME Types, TargetsInv, ThreadInv, NEW p \in Proc, NEW t \in Worker, uthread_create(p, t)
  PROVE  ThreadInv'
<1> USE DEF tcb, queue, idle, switch, client
<1>1. /\ phase \in [Proc -> Phases] /\ phase' = phase
      /\ ready_queue \in Seq(Thread) /\ t \in Thread /\ ready_queue' = uthread_enqueue(ready_queue, t)
      /\ state \in [Thread -> TState \cup {"UNUSED", "FREED"}] /\ state[t] = "UNUSED"
      /\ state' = [state EXCEPT ![t] = "NASCENT"]
      /\ UNCHANGED <<joiner, run, from, to, stop, ret, target, claimed, joined, parked>>
  <2>1. pc[p] = "run" /\ Enqueue(p, t, "run")
    BY DEF uthread_create, InClient
  <2>2. phase' = [phase EXCEPT ![p] = "run"]
    BY <2>1, PhaseEnqueue DEF Enqueue, Go
  <2>3. phase[p] = "run" /\ phase \in [Proc -> Phases]
    BY <2>1, PhaseType DEF Idle
  <2> QED
    BY <2>1, <2>2, <2>3, ThreadKinds DEF uthread_create, Enqueue, Types
<1>2. /\ NoDuplicates(ready_queue') /\ Queued(ready_queue') = Queued(ready_queue) \cup {t}
      /\ \A u : (InQueue(u)' <=> InQueue(u) \/ u = t)
  BY <1>1, EnqueueSet, EnqueueNoDuplicates DEF ThreadInv, OwnerInv, InQueue
<1>3. t \in Scheduling
  BY ThreadKinds
<1>4. Nowhere(t) /\ state[t] = "UNUSED"
  BY <1>1, <1>3 DEF ThreadInv, OwnerInv, OwnerOf
<1>5. /\ \A u : RunBy(u)' = RunBy(u) /\ ToBy(u)' = ToBy(u) /\ FromBy(u)' = FromBy(u) /\ JoinBy(u)' = JoinBy(u)
      /\ \A u : (IsParked(u)' <=> IsParked(u))
  <2>1. \A u : RunBy(u)' = RunBy(u) /\ ToBy(u)' = ToBy(u) /\ FromBy(u)' = FromBy(u)
    BY <1>1 DEF RunBy, ToBy, FromBy, Leaving, Left
  <2>2. \A w \in Worker : state'[w] \in Finished <=> state[w] \in Finished
    BY <1>1, ThreadKinds DEF Finished
  <2>3. \A u : JoinBy(u)' = JoinBy(u)
    BY <1>1, <2>2 DEF JoinBy
  <2> QED
    BY <1>1, <2>1, <2>3 DEF IsParked
<1>6. OwnerInv'
  <2>1. ASSUME NEW u \in Scheduling PROVE OwnerOf(u)'
    <3>1. CASE u = t
      <4>1. QueueOnly(u)'
        BY <1>2, <1>4, <1>5, <3>1 DEF QueueOnly, Nowhere, ParkOnly, Owned
      <4>2. state'[t] \notin Gone /\ state'[t] # "DYING"
        BY <1>1, <1>4, ThreadKinds DEF Gone
      <4> QED
        BY <3>1, <4>1, <4>2 DEF OwnerOf, Gone
    <3>2. CASE u # t
      <4>1. SameOwners(u)
        BY <1>2, <1>5, <3>2 DEF SameOwners
      <4>2. state'[u] = state[u]
        BY <1>1, <3>2, ThreadKinds
      <4> QED
        BY <4>1, <4>2, OwnersKept DEF ThreadInv, OwnerInv
    <3> QED
      BY <3>1, <3>2
  <2> QED
    BY <1>2, <2>1 DEF OwnerInv
<1>7. StackInv'
  BY <1>1 DEF ThreadInv, StackInv
<1>8. BaseInv'
  BY <1>1, <1>2, <1>3, ThreadKinds DEF ThreadInv, BaseInv, Left
<1>9. RoleInv'
  BY <1>1 DEF ThreadInv, RoleInv, MayStop, Leaving, Left, Exiting
<1>10. StateInv' /\ LateInv'
  <2>1. \A q \in Proc : run[q] = t => phase[q] = "spin" /\ stop[q] = "BLOCKED"
    <3>1. \A q \in Proc : phase[q] \in Phases /\ stop[q] \in {"RUNABLE", "BLOCKED", "DYING"}
      BY <1>1 DEF Types
    <3> QED
      BY <1>1, <3>1 DEF ThreadInv, StateInv, Phases, Working, Exiting, Resuming
  <2>2. \A q \in Proc : Left(q) /\ from[q] = t => stop[q] = "BLOCKED"
    <3>1. \A q \in Proc : stop[q] \in {"RUNABLE", "BLOCKED", "DYING"}
      BY DEF Types
    <3> QED
      BY <1>1, <3>1 DEF ThreadInv, StateInv
  <2>3. \A u \in Thread : state'[u] = IF u = t THEN "NASCENT" ELSE state[u]
    BY <1>1
  <2>4. \A q \in Proc : run[q] \in Thread /\ from[q] \in Thread
    BY DEF Types
  <2> QED
    BY <1>1, <2>1, <2>2, <2>3, <2>4 DEF ThreadInv, StateInv, LateInv, Working, Exiting, Resuming, Left
<1>11. ClaimInv'
  <2>1. \A q \in Proc : phase[q] \in {"join", "detach"} => Target(q)' = Target(q) /\ Target(q) \in Worker
    BY <1>1, TargetKnown DEF Target
  <2>2. \A u \in Thread : state'[u] = IF u = t THEN "NASCENT" ELSE state[u]
    BY <1>1
  <2> QED
    BY <1>1, <2>1, <2>2, ThreadKinds DEF ThreadInv, ClaimInv
<1>12. WaitInv' /\ RetInv' /\ JoinAfterExit'
  BY <1>1, ThreadKinds DEF ThreadInv, WaitInv, RetInv, JoinAfterExit, Active, Working, Exiting, Leaving, Left, Finished
<1>13. ResumeInv'
  <2>1. \A u \in Scheduling : Resumes(u)' => Resumes(u) \/ u = t
    BY <1>1, <1>2, <1>5 DEF Resumes, Resuming
  <2>2. ret[t] = "run"
    BY <1>1, <1>3 DEF ThreadInv, RetInv
  <2> QED
    BY <1>1, <2>1, <2>2, ThreadKinds DEF ThreadInv, ResumeInv, TargetsInv
<1> QED
  BY <1>6, <1>7, <1>8, <1>9, <1>10, <1>11, <1>12, <1>13 DEF ThreadInv

\* A thread that is unblocked enters the ready queue.
LEMMA UnblockKeeps ==
  ASSUME Types, ThreadInv, NEW p \in Proc, NEW t \in Thread, uthread_unblock(p, t)
  PROVE  ThreadInv'
<1> USE DEF tcb, queue, idle, switch, client
<1>1. /\ phase \in [Proc -> Phases] /\ phase' = phase
      /\ ready_queue \in Seq(Thread) /\ t \in Thread /\ ready_queue' = uthread_enqueue(ready_queue, t)
      /\ t \in parked /\ parked' = parked \ {t}
      /\ UNCHANGED <<state, joiner, run, from, to, stop, ret, target, claimed, joined>>
  <2>1. pc[p] = "run" /\ Enqueue(p, t, "run")
    BY DEF uthread_unblock, InClient
  <2>2. phase' = [phase EXCEPT ![p] = "run"]
    BY <2>1, PhaseEnqueue DEF Enqueue, Go
  <2>3. phase[p] = "run" /\ phase \in [Proc -> Phases]
    BY <2>1, PhaseType DEF Idle
  <2> QED
    BY <2>1, <2>2, <2>3, ThreadKinds DEF uthread_unblock, Enqueue, Types
<1>2. /\ NoDuplicates(ready_queue') /\ Queued(ready_queue') = Queued(ready_queue) \cup {t}
      /\ \A u : (InQueue(u)' <=> InQueue(u) \/ u = t)
  BY <1>1, EnqueueSet, EnqueueNoDuplicates DEF ThreadInv, OwnerInv, InQueue
<1>3. t \in Scheduling /\ ret[t] = "run"
  BY <1>1 DEF ThreadInv, BaseInv, RetInv
<1>4. ParkOnly(t) /\ state[t] \notin Gone /\ state[t] # "DYING"
  BY <1>1, <1>3, OneOwner DEF ThreadInv, OwnerInv, IsParked, Gone
<1>5. /\ \A u : RunBy(u)' = RunBy(u) /\ ToBy(u)' = ToBy(u) /\ FromBy(u)' = FromBy(u) /\ JoinBy(u)' = JoinBy(u)
      /\ \A u : (IsParked(u)' <=> IsParked(u) /\ u # t)
  BY <1>1 DEF RunBy, ToBy, FromBy, JoinBy, IsParked, Leaving, Left
<1>6. OwnerInv'
  <2>1. ASSUME NEW u \in Scheduling PROVE OwnerOf(u)'
    <3>1. CASE u = t
      <4>1. QueueOnly(u)'
        BY <1>2, <1>4, <1>5, <3>1 DEF QueueOnly, Nowhere, ParkOnly, Owned
      <4>2. state'[t] \notin Gone /\ state'[t] # "DYING"
        BY <1>1, <1>4, ThreadKinds DEF Gone
      <4> QED
        BY <3>1, <4>1, <4>2 DEF OwnerOf, Gone
    <3>2. CASE u # t
      <4>1. SameOwners(u)
        BY <1>2, <1>5, <3>2 DEF SameOwners
      <4>2. state'[u] = state[u]
        BY <1>1, <3>2, ThreadKinds
      <4> QED
        BY <4>1, <4>2, OwnersKept DEF ThreadInv, OwnerInv
    <3> QED
      BY <3>1, <3>2
  <2> QED
    BY <1>2, <2>1 DEF OwnerInv
<1>7. StackInv'
  BY <1>1 DEF ThreadInv, StackInv
<1>8. BaseInv'
  BY <1>1, <1>2, <1>3 DEF ThreadInv, BaseInv, Left
<1>9. RoleInv'
  BY <1>1 DEF ThreadInv, RoleInv, MayStop, Leaving, Left, Exiting
<1>10. StateInv' /\ LateInv'
  BY <1>1 DEF ThreadInv, StateInv, LateInv, Working, Exiting, Resuming, Left
<1>11. ClaimInv' /\ WaitInv' /\ RetInv' /\ JoinAfterExit'
  BY <1>1 DEF ThreadInv, ClaimInv, WaitInv, RetInv, JoinAfterExit, Target, Active, Working, Exiting, Leaving, Left
<1>12. ResumeInv'
  <2>1. \A u \in Scheduling : Resumes(u)' => Resumes(u) \/ u = t
    BY <1>1, <1>2, <1>5 DEF Resumes, Resuming
  <2> QED
    BY <1>1, <1>3, <2>1 DEF ThreadInv, ResumeInv
<1> QED
  BY <1>6, <1>7, <1>8, <1>9, <1>10, <1>11, <1>12 DEF ThreadInv

\* A thread that has died leaves its processor.
LEMMA ReapKeeps ==
  ASSUME Types, TargetsInv, ThreadInv, NEW p \in Proc, Reap(p)
  PROVE  ThreadInv'
<1> USE DEF tcb, queue, idle, switch, client
<1>0. PICK t \in Thread : t = from[p]
  BY DEF Types
<1>1. /\ phase \in [Proc -> Phases] /\ phase[p] = "reap" /\ phase' = [phase EXCEPT ![p] = "enter"]
      /\ state \in [Thread -> TState \cup {"UNUSED", "FREED"}] /\ state' = [state EXCEPT ![t] = Reaped(t)]
      /\ UNCHANGED <<joiner, ready_queue, run, from, to, stop, ret, target, claimed, joined, parked>>
  <2>1. pc[p] = "reap" /\ pc' = [pc EXCEPT ![p] = "enter"] /\ after' = after
    BY DEF Reap, Go
  <2>2. phase' = [phase EXCEPT ![p] = CASE "enter" = "signal" -> after[p]
                                        [] "enter" \in Idle   -> "dequeue"
                                        [] OTHER              -> "enter"]
    BY <2>1, PhaseMove DEF Place
  <2>3. phase[p] = "reap" /\ phase \in [Proc -> Phases]
    BY <2>1, PhaseType DEF Idle
  <2> QED
    BY <1>0, <2>1, <2>2, <2>3 DEF Idle, Reap, Types
<1>2. stop[p] = "DYING" /\ state[t] = "DYING" /\ t \in Worker /\ t \in Scheduling
  BY <1>0, <1>1, ThreadKinds DEF ThreadInv, StateInv, RoleInv, MayStop, Left
<1>3. Owned(t, {}, {}, {p}, {}, FALSE, FALSE)
  <2>1. p \in FromBy(t) /\ OwnerOf(t)
    BY <1>0, <1>1, <1>2 DEF FromBy, Left, ThreadInv, OwnerInv
  <2> QED
    BY <2>1, OneOwner
<1>4. \A u \in Thread : /\ u # t => state'[u] = state[u]
                        /\ u = t => state'[u] \in {"DEAD", "FREED"} /\ (state'[u] = "FREED" => joiner[u] = Detached)
  BY <1>1 DEF Reaped
<1>5. /\ \A u : RunBy(u)' = RunBy(u) /\ ToBy(u)' = ToBy(u) /\ JoinBy(u)' = JoinBy(u)
      /\ \A u : FromBy(u)' = FromBy(u) \ {p}
      /\ \A u : (InQueue(u)' <=> InQueue(u)) /\ (IsParked(u)' <=> IsParked(u))
  <2>1. \A u : RunBy(u)' = RunBy(u) /\ ToBy(u)' = ToBy(u)
    BY <1>1 DEF RunBy, ToBy, Leaving
  <2>2. \A u : FromBy(u)' = FromBy(u) \ {p}
    BY <1>1 DEF FromBy, Left
  <2>3. \A u : JoinBy(u)' = JoinBy(u)
    <3>1. \A w \in Worker : state'[w] \in Finished <=> state[w] \in Finished
      BY <1>2, <1>4, ThreadKinds DEF Finished
    <3>2. \A w : (\E q \in Proc : phase'[q] = "exit" /\ run'[q] = w) <=> (\E q \in Proc : phase[q] = "exit" /\ run[q] = w)
      BY <1>1
    <3> QED
      BY <1>1, <3>1, <3>2 DEF JoinBy
  <2> QED
    BY <1>1, <2>1, <2>2, <2>3 DEF InQueue, IsParked
<1>6. OwnerInv'
  <2>1. ASSUME NEW u \in Scheduling PROVE OwnerOf(u)'
    <3>1. CASE u = t
      <4>1. Nowhere(u)'
        BY <1>3, <1>5, <3>1 DEF Nowhere, Owned
      <4> QED
        BY <1>4, <3>1, <4>1 DEF OwnerOf
    <3>2. CASE u # t
      <4>1. p \notin FromBy(u)
        BY <1>0, <3>2 DEF FromBy
      <4>2. SameOwners(u)
        BY <1>5, <4>1 DEF SameOwners
      <4> QED
        BY <1>4, <3>2, <4>2, OwnersKept, ThreadKinds DEF ThreadInv, OwnerInv
    <3> QED
      BY <3>1, <3>2
  <2> QED
    BY <1>1, <2>1 DEF ThreadInv, OwnerInv
<1>7. StackInv'
  BY <1>1 DEF ThreadInv, StackInv
<1>8. BaseInv'
  BY <1>1, <1>2, <1>4, ThreadKinds DEF ThreadInv, BaseInv, Left
<1>9. RoleInv'
  BY <1>1 DEF ThreadInv, RoleInv, MayStop, Leaving, Left, Exiting
<1>10. StateInv' /\ LateInv'
  <2>1. ASSUME NEW q \in Proc PROVE run[q] # t /\ (q # p /\ Left(q) => from[q] # t)
    <3>1. phase[q] \in Phases /\ stop[q] \in {"RUNABLE", "BLOCKED", "DYING"}
      BY <1>1 DEF Types
    <3>2. run[q] = t => Leaving(q) /\ stop[q] = "BLOCKED"
      BY <1>3 DEF Owned, RunBy
    <3>3. q # p /\ Left(q) /\ from[q] = t => stop[q] = "BLOCKED"
      BY <1>3 DEF Owned, FromBy
    <3> QED
      BY <1>2, <3>1, <3>2, <3>3 DEF ThreadInv, StateInv, LateInv, Leaving
  <2>2. \A q \in Proc : run[q] \in Thread /\ from[q] \in Thread
    BY DEF Types
  <2> QED
    BY <1>1, <1>4, <2>1, <2>2 DEF ThreadInv, StateInv, LateInv, Working, Exiting, Resuming, Left
<1>11. ClaimInv'
  <2>1. \A q \in Proc : phase'[q] \in {"join", "detach"} =>
          phase[q] \in {"join", "detach"} /\ Target(q)' = Target(q) /\ Target(q) \in Worker
    BY <1>1, TargetKnown DEF Target
  <2> QED
    BY <1>1, <1>4, <2>1, ThreadKinds, PointerAssumption DEF ThreadInv, ClaimInv
<1>12. WaitInv' /\ RetInv' /\ JoinAfterExit'
  BY <1>1, <1>2, <1>4, ThreadKinds DEF ThreadInv, WaitInv, RetInv, JoinAfterExit, Active, Working, Exiting, Leaving, Left, Finished, Types
<1>13. ResumeInv'
  <2>1. \A u \in Scheduling : Resumes(u)' => Resumes(u)
    BY <1>1, <1>5 DEF Resumes, Resuming
  <2> QED
    BY <1>1, <1>4, <2>1, ThreadKinds DEF ThreadInv, ResumeInv, TargetsInv
<1> QED
  BY <1>6, <1>7, <1>8, <1>9, <1>10, <1>11, <1>12, <1>13 DEF ThreadInv

\* A thread starts, or goes on where it stopped.
LEMMA EnterKeeps ==
  ASSUME Types, TargetsInv, ThreadInv, NEW p \in Proc, Enter(p)
  PROVE  ThreadInv'
<1> USE DEF tcb, queue, idle, switch, client
<1>0. PICK t \in Thread, a \in {"run", "rejoin"} : t = run[p] /\ a = IF state[t] = "NASCENT" THEN "run" ELSE ret[t]
  BY DEF Types
<1>1. /\ phase \in [Proc -> Phases] /\ phase[p] = "enter" /\ phase' = [phase EXCEPT ![p] = a]
      /\ state \in [Thread -> TState \cup {"UNUSED", "FREED"}] /\ state' = [state EXCEPT ![t] = "RUNNING"]
      /\ UNCHANGED <<joiner, ready_queue, run, from, to, stop, ret, target, claimed, joined, parked>>
  <2>1. pc[p] = "enter" /\ pc' = [pc EXCEPT ![p] = a] /\ after' = after
    BY <1>0 DEF Enter, Go
  <2>2. phase' = [phase EXCEPT ![p] = CASE a = "signal" -> after[p]
                                        [] a \in Idle   -> "dequeue"
                                        [] OTHER        -> a]
    BY <2>1, PhaseMove DEF Place
  <2>3. phase[p] = "enter" /\ phase \in [Proc -> Phases]
    BY <2>1, PhaseType DEF Idle
  <2> QED
    BY <1>0, <2>1, <2>2, <2>3 DEF Idle, Enter, Types
<1>2. state[t] \in {"NASCENT", "RUNABLE", "BLOCKED"}
  BY <1>0, <1>1 DEF ThreadInv, StateInv, Resuming
<1>3. \A q \in Proc : q # p =>
        /\ run[q] = t => phase[q] = "spin" /\ stop[q] = "BLOCKED"
        /\ Left(q) /\ from[q] = t => stop[q] = "BLOCKED"
  BY <1>0, <1>1, AloneOnStack
<1>4. \A u \in Thread : /\ u # t => state'[u] = state[u]
                        /\ u = t => state'[u] = "RUNNING"
  BY <1>1
<1>5. /\ \A u : RunBy(u)' = RunBy(u) /\ ToBy(u)' = ToBy(u) /\ FromBy(u)' = FromBy(u) /\ JoinBy(u)' = JoinBy(u)
      /\ \A u : (InQueue(u)' <=> InQueue(u)) /\ (IsParked(u)' <=> IsParked(u))
  <2>1. \A u : RunBy(u)' = RunBy(u) /\ ToBy(u)' = ToBy(u) /\ FromBy(u)' = FromBy(u)
    BY <1>1 DEF RunBy, ToBy, FromBy, Leaving, Left
  <2>2. \A u : JoinBy(u)' = JoinBy(u)
    <3>1. \A w \in Worker : state'[w] \in Finished <=> state[w] \in Finished
      BY <1>2, <1>4, ThreadKinds DEF Finished
    <3>2. \A w : (\E q \in Proc : phase'[q] = "exit" /\ run'[q] = w) <=> (\E q \in Proc : phase[q] = "exit" /\ run[q] = w)
      BY <1>1
    <3> QED
      BY <1>1, <3>1, <3>2 DEF JoinBy
  <2> QED
    BY <1>1, <2>1, <2>2 DEF InQueue, IsParked
<1>6. OwnerInv'
  <2>1. ASSUME NEW u \in Scheduling PROVE OwnerOf(u)'
    <3>1. SameOwners(u)
      BY <1>5 DEF SameOwners
    <3>2. (state'[u] \in Gone <=> state[u] \in Gone) /\ (state'[u] = "DYING" => state[u] = "DYING")
      BY <1>2, <1>4, ThreadKinds DEF Gone
    <3> QED
      BY <3>1, <3>2, OwnersKept DEF ThreadInv, OwnerInv
  <2> QED
    BY <1>1, <2>1 DEF ThreadInv, OwnerInv
<1>7. StackInv'
  BY <1>1 DEF ThreadInv, StackInv
<1>8. BaseInv'
  BY <1>1, <1>4, ThreadKinds DEF ThreadInv, BaseInv, Left
<1>9. RoleInv'
  BY <1>0, <1>1 DEF ThreadInv, RoleInv, RetInv, MayStop, Leaving, Left, Exiting
<1>10. StateInv' /\ LateInv'
  <2>1. \A q \in Proc : run[q] \in Thread /\ from[q] \in Thread
    BY DEF Types
  <2> QED
    BY <1>0, <1>1, <1>3, <1>4, <2>1 DEF ThreadInv, StateInv, LateInv, Working, Exiting, Resuming, Left
<1>11. ClaimInv'
  <2>1. \A q \in Proc : phase'[q] \in {"join", "detach"} =>
          phase[q] \in {"join", "detach"} /\ Target(q)' = Target(q) /\ Target(q) \in Worker
    BY <1>1, TargetKnown DEF Target
  <2> QED
    BY <1>1, <1>4, <2>1, ThreadKinds DEF ThreadInv, ClaimInv
<1>12. WaitInv'
  <2>1. ASSUME NEW w \in Worker, joiner[w] = t, state'[w] # "FREED" PROVE a = "rejoin"
    <3>1. ret[t] = "rejoin" /\ t \in Scheduling
      BY <1>2, <1>4, <2>1, ThreadKinds DEF ThreadInv, WaitInv, BaseInv
    <3> QED
      BY <1>0, <3>1 DEF ThreadInv, RetInv
  <2>2. \A w \in Worker : state'[w] # "FREED" => state[w] # "FREED"
    BY <1>2, <1>4, ThreadKinds
  <2> QED
    BY <1>0, <1>1, <2>1, <2>2 DEF ThreadInv, WaitInv, Active, Working, Exiting, Leaving
<1>13. RetInv' /\ JoinAfterExit'
  BY <1>0, <1>1, <1>2, <1>4, ThreadKinds DEF ThreadInv, RetInv, JoinAfterExit, Leaving, Left, Finished, Types
<1>14. ResumeInv'
  <2>1. \A u \in Scheduling : Resumes(u)' => Resumes(u)
    BY <1>0, <1>1, <1>5 DEF Resumes, Resuming
  <2> QED
    BY <1>1, <1>2, <1>4, <2>1, ThreadKinds DEF ThreadInv, ResumeInv, TargetsInv
<1> QED
  BY <1>6, <1>7, <1>8, <1>9, <1>10, <1>11, <1>12, <1>13, <1>14 DEF ThreadInv

\* A thread exits.
LEMMA ExitKeeps ==
  ASSUME QuietBlockers, Types, TargetsInv, ThreadInv, NEW p \in Proc, Exit(p)
  PROVE  ThreadInv'
<1> USE DEF tcb, queue, idle, switch, client
<1>0. PICK t \in Worker : t = run[p]
  BY DEF Exit
<1>1. /\ phase \in [Proc -> Phases] /\ phase[p] = "run" /\ phase' = [phase EXCEPT ![p] = "exit"]
      /\ state \in [Thread -> TState \cup {"UNUSED", "FREED"}] /\ state' = [state EXCEPT ![t] = "DYING"]
      /\ UNCHANGED <<joiner, ready_queue, run, from, to, stop, ret, target, claimed, joined, parked>>
  <2>1. pc[p] = "run" /\ pc' = [pc EXCEPT ![p] = "exit"] /\ after' = after
    BY DEF Exit, Go
  <2>2. phase' = [phase EXCEPT ![p] = CASE "exit" = "signal" -> after[p]
                                        [] "exit" \in Idle   -> "dequeue"
                                        [] OTHER             -> "exit"]
    BY <2>1, PhaseMove DEF Place
  <2>3. phase[p] = "run" /\ phase \in [Proc -> Phases]
    BY <2>1, PhaseType DEF Idle
  <2> QED
    BY <1>0, <2>1, <2>2, <2>3 DEF Idle, Exit, Types
<1>2. state[t] = "RUNNING" /\ t \in Scheduling /\ t \in Thread
  BY <1>0, <1>1, ThreadKinds DEF ThreadInv, StateInv, Working
<1>3. \A q \in Proc : q # p =>
        /\ run[q] = t => phase[q] = "spin" /\ stop[q] = "BLOCKED"
        /\ Left(q) /\ from[q] = t => stop[q] = "BLOCKED"
  BY <1>0, <1>1, AloneOnStack
<1>4. \A u \in Thread : /\ u # t => state'[u] = state[u]
                        /\ u = t => state'[u] = "DYING"
  BY <1>1
<1>5. /\ \A u : RunBy(u)' = RunBy(u) /\ ToBy(u)' = ToBy(u) /\ FromBy(u)' = FromBy(u) /\ JoinBy(u)' = JoinBy(u)
      /\ \A u : (InQueue(u)' <=> InQueue(u)) /\ (IsParked(u)' <=> IsParked(u))
  <2>1. \A u : RunBy(u)' = RunBy(u) /\ ToBy(u)' = ToBy(u) /\ FromBy(u)' = FromBy(u)
    BY <1>1 DEF RunBy, ToBy, FromBy, Leaving, Left
  <2>2. \A u : JoinBy(u)' = JoinBy(u)
    <3>1. \A w \in Worker : w # t => (state'[w] \in Finished <=> state[w] \in Finished)
      BY <1>4, ThreadKinds
    <3>2. \A w : w # t => ((\E q \in Proc : phase'[q] = "exit" /\ run'[q] = w) <=> (\E q \in Proc : phase[q] = "exit" /\ run[q] = w))
      BY <1>0, <1>1
    <3>3. state[t] \notin Finished /\ phase'[p] = "exit" /\ run'[p] = t
      BY <1>0, <1>1, <1>2 DEF Finished
    <3> QED
      BY <1>1, <3>1, <3>2, <3>3 DEF JoinBy
  <2> QED
    BY <1>1, <2>1, <2>2 DEF InQueue, IsParked
<1>6. OwnerInv'
  <2>1. ASSUME NEW u \in Scheduling PROVE OwnerOf(u)'
    <3>1. SameOwners(u)
      BY <1>5 DEF SameOwners
    <3>2. p \in RunBy(t)
      BY <1>0, <1>1 DEF RunBy, Leaving
    <3>3. (state'[u] \in Gone <=> state[u] \in Gone) /\ (state'[u] = "DYING" => state[u] = "DYING" \/ RunBy(u) # {})
      BY <1>2, <1>4, <3>2, ThreadKinds DEF Gone
    <3> QED
      BY <3>1, <3>3, OwnersKept DEF ThreadInv, OwnerInv
  <2> QED
    BY <1>1, <2>1 DEF ThreadInv, OwnerInv
<1>7. StackInv'
  BY <1>1 DEF ThreadInv, StackInv
<1>8. BaseInv'
  BY <1>1, <1>2, <1>4, ThreadKinds DEF ThreadInv, BaseInv, Left
<1>9. RoleInv'
  BY <1>0, <1>1 DEF ThreadInv, RoleInv, MayStop, Leaving, Left, Exiting
<1>10. LateInv'
  <2>1. ASSUME NEW q \in Proc, q # p, stop[q] = "BLOCKED", (phase[q] = "spin" /\ t = run[q]) \/ (Left(q) /\ t = from[q])
        PROVE  FALSE
    BY <2>1, LeftBlocked
  <2>2. \A q \in Proc : run[q] \in Thread /\ from[q] \in Thread
    BY DEF Types
  <2> QED
    BY <1>0, <1>1, <1>4, <2>1, <2>2 DEF ThreadInv, LateInv, Left
<1>11. StateInv'
  <2>1. \A q \in Proc : run[q] \in Thread /\ from[q] \in Thread
    BY DEF Types
  <2> QED
    BY <1>0, <1>1, <1>3, <1>4, <2>1 DEF ThreadInv, StateInv, Working, Exiting, Resuming, Left
<1>12. ClaimInv'
  <2>1. \A q \in Proc : phase'[q] \in {"join", "detach"} =>
          phase[q] \in {"join", "detach"} /\ Target(q)' = Target(q) /\ Target(q) \in Worker
    BY <1>1, TargetKnown DEF Target
  <2> QED
    BY <1>1, <1>4, <2>1, ThreadKinds DEF ThreadInv, ClaimInv
<1>13. WaitInv'
  <2>1. \A w \in Worker : state'[w] # "FREED" => state[w] # "FREED"
    BY <1>2, <1>4, ThreadKinds
  <2>2. \A w \in Worker : joiner[w] \in Thread /\ state[w] # "FREED" => joiner[w] # t
    BY <1>0, <1>1 DEF ThreadInv, WaitInv, Active, Working
  <2> QED
    BY <1>0, <1>1, <2>1, <2>2 DEF ThreadInv, WaitInv, Active, Working, Exiting, Leaving
<1>14. RetInv' /\ JoinAfterExit'
  BY <1>0, <1>1, <1>2, <1>4, ThreadKinds DEF ThreadInv, RetInv, JoinAfterExit, Leaving, Left, Finished, Types
<1>15. ResumeInv'
  <2>1. \A u \in Scheduling : Resumes(u)' => Resumes(u)
    BY <1>0, <1>1, <1>5 DEF Resumes, Resuming
  <2> QED
    BY <1>1, <1>2, <1>4, <2>1, ThreadKinds DEF ThreadInv, ResumeInv, TargetsInv
<1> QED
  BY <1>6, <1>7, <1>8, <1>9, <1>10, <1>11, <1>12, <1>13, <1>14, <1>15 DEF ThreadInv

\* A thread that has exited stops for ever.
LEMMA StopDyingKeeps ==
  ASSUME Types, ThreadInv, NEW p \in Proc, StopDying(p)
  PROVE  ThreadInv'
<1> USE DEF tcb, queue, idle, switch, client
<1>0. PICK t \in Thread : t = run[p]
  BY DEF Types
<1>1. /\ phase \in [Proc -> Phases] /\ phase[p] \in {"exit", "exited"} /\ phase' = [phase EXCEPT ![p] = "dequeue"]
      /\ stop \in [Proc -> {"RUNABLE", "BLOCKED", "DYING"}] /\ stop' = [stop EXCEPT ![p] = "DYING"]
      /\ ret \in [Thread -> {"run", "rejoin"}] /\ ret' = [ret EXCEPT ![t] = "run"]
      /\ phase[p] = "exit" => joiner[t] \in {NoThread, Detached}
      /\ UNCHANGED <<state, joiner, ready_queue, run, from, to, target, claimed, joined, parked>>
  <2>1. /\ pc[p] \in {"exit", "exited"} /\ Stop(p, "DYING", "run")
        /\ pc[p] = "exit" => joiner[run[p]] \in {NoThread, Detached}
    BY DEF StopDying
  <2>2. pc' = [pc EXCEPT ![p] = "dequeue"] /\ after' = after
    BY <2>1 DEF Stop, Go
  <2>3. phase' = [phase EXCEPT ![p] = CASE "dequeue" = "signal" -> after[p]
                                        [] "dequeue" \in Idle   -> "dequeue"
                                        [] OTHER                -> "dequeue"]
    BY <2>2, PhaseMove DEF Place
  <2>4. phase[p] = pc[p] /\ phase \in [Proc -> Phases]
    BY <2>1, PhaseType DEF Idle
  <2> QED
    BY <1>0, <2>1, <2>3, <2>4 DEF Stop, StopDying, Types
<1>2. /\ \A u : ToBy(u)' = ToBy(u) /\ FromBy(u)' = FromBy(u)
      /\ \A u : (InQueue(u)' <=> InQueue(u))
  <2>1. \A u : ToBy(u)' = ToBy(u)
    BY <1>1 DEF ToBy
  <2>2. \A u : FromBy(u)' = FromBy(u)
    BY <1>1 DEF FromBy, Left
  <2> QED
    BY <1>1, <2>1, <2>2 DEF InQueue
<1>3. t \in Worker /\ t \in Scheduling /\ state[t] = "DYING"
  BY <1>0, <1>1, ThreadKinds DEF ThreadInv, RoleInv, StateInv, Exiting
<1>4. \A u \in Scheduling : SameOwners(u)
  <2>1. \A u \in Scheduling : RunBy(u)' = RunBy(u)
    BY <1>0, <1>1, <1>3, ThreadKinds DEF RunBy, Leaving
  <2>2. \A u \in Scheduling : JoinBy(u)' = JoinBy(u)
    <3>1. \A v : v # t => ((\E q \in Proc : phase'[q] = "exit" /\ run'[q] = v) <=> (\E q \in Proc : phase[q] = "exit" /\ run[q] = v))
      BY <1>0, <1>1
    <3>2. CASE phase[p] = "exit"
      <4>1. \A u \in Scheduling : t \notin JoinBy(u) /\ t \notin JoinBy(u)'
        BY <1>1, <3>2, ThreadKinds DEF JoinBy
      <4>2. \A u \in Scheduling : \A v \in Worker : v # t => (v \in JoinBy(u) <=> v \in JoinBy(u)')
        BY <1>1, <3>1 DEF JoinBy
      <4>3. \A u : JoinBy(u) \subseteq Worker /\ JoinBy(u)' \subseteq Worker
        BY DEF JoinBy
      <4>4. ASSUME NEW u \in Scheduling PROVE JoinBy(u)' = JoinBy(u)
        <5>1. \A v \in Worker : v \in JoinBy(u) <=> v \in JoinBy(u)'
          BY <4>1, <4>2
        <5> QED
          BY <4>3, <5>1
      <4> QED
        BY <4>4
    <3>3. CASE phase[p] = "exited"
      <4>1. \A v : ((\E q \in Proc : phase'[q] = "exit" /\ run'[q] = v) <=> (\E q \in Proc : phase[q] = "exit" /\ run[q] = v))
        BY <1>1, <3>3
      <4> QED
        BY <1>1, <4>1 DEF JoinBy
    <3> QED
      BY <1>1, <3>2, <3>3
  <2>3. \A u : (IsParked(u)' <=> IsParked(u))
    BY <1>1 DEF IsParked
  <2> QED
    BY <1>2, <2>1, <2>2, <2>3 DEF SameOwners
<1>5. OwnerInv'
  BY <1>1, <1>4, OwnersKept DEF ThreadInv, OwnerInv
<1>6. StackInv'
  BY <1>1 DEF ThreadInv, StackInv
<1>7. BaseInv'
  BY <1>0, <1>1 DEF ThreadInv, BaseInv, Left
<1>8. RoleInv'
  BY <1>0, <1>1, <1>3 DEF ThreadInv, RoleInv, MayStop, Leaving, Left, Exiting
<1>9. StateInv' /\ LateInv'
  BY <1>0, <1>1, <1>3 DEF ThreadInv, StateInv, LateInv, Working, Exiting, Resuming, Left
<1>10. ClaimInv' /\ JoinAfterExit'
  BY <1>1 DEF ThreadInv, ClaimInv, JoinAfterExit, Target
<1>11. WaitInv'
  <2>1. \A w \in Worker : joiner[w] \in Thread /\ state[w] # "FREED" => joiner[w] # t
    BY <1>0, <1>1, <1>3, ThreadKinds DEF ThreadInv, WaitInv, BaseInv, Active, Working, Exiting
  <2> QED
    BY <1>0, <1>1, <2>1 DEF ThreadInv, WaitInv, Active, Working, Exiting, Leaving
<1>12. RetInv'
  <2>1. \A u \in Thread : ret'[u] = IF u = t THEN "run" ELSE ret[u]
    BY <1>1
  <2>2. \A q \in Proc : run[q] \in Thread /\ from[q] \in Thread
    BY DEF Types
  <2>3. \A q \in Proc : phase'[q] = "rejoin" => phase[q] = "rejoin" /\ run[q] # t
    BY <1>0, <1>1 DEF ThreadInv, StackInv
  <2>4. \A q \in Proc : stop'[q] = "RUNABLE" /\ q # p =>
          /\ stop[q] = "RUNABLE" /\ (Leaving(q)' <=> Leaving(q)) /\ (Left(q)' <=> Left(q))
    BY <1>1 DEF Leaving, Left
  <2>5. ~Left(p)' /\ run' = run /\ from' = from /\ parked' \subseteq parked \cup {t} /\ state' = state
    BY <1>1 DEF Left
  <2> QED
    BY <1>0, <2>1, <2>2, <2>3, <2>4, <2>5, ThreadKinds DEF ThreadInv, RetInv
<1>13. ResumeInv'
  <2>1. \A u \in Scheduling : Resumes(u)' => Resumes(u)
    BY <1>0, <1>1, <1>2 DEF Resumes, Resuming
  <2> QED
    BY <1>1, <2>1, ThreadKinds DEF ThreadInv, ResumeInv
<1> QED
  BY <1>5, <1>6, <1>7, <1>8, <1>9, <1>10, <1>11, <1>12, <1>13 DEF ThreadInv

\* A base thread stops.
LEMMA BaseLoopKeeps ==
  ASSUME Types, ThreadInv, NEW p \in Proc, BaseLoop(p)
  PROVE  ThreadInv'
<1> USE DEF tcb, queue, idle, switch, client
<1>0. PICK t \in Thread : t = run[p]
  BY DEF Types
<1>1. /\ phase \in [Proc -> Phases] /\ phase[p] = "run" /\ phase' = [phase EXCEPT ![p] = "dequeue"]
      /\ stop \in [Proc -> {"RUNABLE", "BLOCKED", "DYING"}] /\ stop' = [stop EXCEPT ![p] = "BLOCKED"]
      /\ ret \in [Thread -> {"run", "rejoin"}] /\ ret' = [ret EXCEPT ![t] = "run"]
      /\ UNCHANGED <<state, joiner, ready_queue, run, from, to, target, claimed, joined, parked>>
  <2>1. pc[p] = "run" /\ Stop(p, "BLOCKED", "run")
    BY DEF BaseLoop, InClient
  <2>2. pc' = [pc EXCEPT ![p] = "dequeue"] /\ after' = after
    BY <2>1 DEF Stop, Go
  <2>3. phase' = [phase EXCEPT ![p] = CASE "dequeue" = "signal" -> after[p]
                                        [] "dequeue" \in Idle   -> "dequeue"
                                        [] OTHER                -> "dequeue"]
    BY <2>2, PhaseMove DEF Place
  <2>4. phase[p] = "run" /\ phase \in [Proc -> Phases]
    BY <2>1, PhaseType DEF Idle
  <2> QED
    BY <1>0, <2>1, <2>3, <2>4 DEF Stop, BaseLoop, Types
<1>2. /\ \A u : ToBy(u)' = ToBy(u) /\ FromBy(u)' = FromBy(u)
      /\ \A u : (InQueue(u)' <=> InQueue(u))
  <2>1. \A u : ToBy(u)' = ToBy(u)
    BY <1>1 DEF ToBy
  <2>2. \A u : FromBy(u)' = FromBy(u)
    BY <1>1 DEF FromBy, Left
  <2> QED
    BY <1>1, <2>1, <2>2 DEF InQueue
<1>3. t = p /\ t \notin Scheduling /\ state[t] = "RUNNING"
  BY <1>0, <1>1, ThreadKinds DEF BaseLoop, ThreadInv, BaseInv, StateInv, Working
<1>4. \A u \in Scheduling : SameOwners(u)
  <2>1. \A u \in Scheduling : RunBy(u)' = RunBy(u)
    <3>1. \A u \in Scheduling : u # run[p]
      BY <1>0, <1>3
    <3> QED
      BY <1>1, <3>1 DEF RunBy, Leaving
  <2>2. \A u \in Scheduling : JoinBy(u)' = JoinBy(u)
    BY <1>1 DEF JoinBy
  <2>3. \A u : (IsParked(u)' <=> IsParked(u))
    BY <1>1 DEF IsParked
  <2> QED
    BY <1>2, <2>1, <2>2, <2>3 DEF SameOwners
<1>5. OwnerInv'
  BY <1>1, <1>4, OwnersKept DEF ThreadInv, OwnerInv
<1>6. StackInv'
  BY <1>1 DEF ThreadInv, StackInv
<1>7. BaseInv'
  BY <1>0, <1>1 DEF ThreadInv, BaseInv, Left
<1>8. RoleInv'
  BY <1>0, <1>1, <1>3 DEF ThreadInv, RoleInv, MayStop, Leaving, Left, Exiting
<1>9. StateInv' /\ LateInv'
  BY <1>0, <1>1, <1>3 DEF ThreadInv, StateInv, LateInv, Working, Exiting, Resuming, Left
<1>10. ClaimInv' /\ JoinAfterExit'
  BY <1>1 DEF ThreadInv, ClaimInv, JoinAfterExit, Target
<1>11. WaitInv'
  <2>1. \A w \in Worker : joiner[w] \in Thread /\ state[w] # "FREED" => joiner[w] # t
    BY <1>0, <1>1, <1>3, ThreadKinds DEF ThreadInv, WaitInv, BaseInv, Active, Working, Exiting
  <2> QED
    BY <1>0, <1>1, <2>1 DEF ThreadInv, WaitInv, Active, Working, Exiting, Leaving
<1>12. RetInv'
  <2>1. \A u \in Thread : ret'[u] = IF u = t THEN "run" ELSE ret[u]
    BY <1>1
  <2>2. \A q \in Proc : run[q] \in Thread /\ from[q] \in Thread
    BY DEF Types
  <2>3. \A q \in Proc : phase'[q] = "rejoin" => phase[q] = "rejoin" /\ run[q] # t
    BY <1>0, <1>1 DEF ThreadInv, StackInv
  <2>4. \A q \in Proc : stop'[q] = "RUNABLE" /\ q # p =>
          /\ stop[q] = "RUNABLE" /\ (Leaving(q)' <=> Leaving(q)) /\ (Left(q)' <=> Left(q))
    BY <1>1 DEF Leaving, Left
  <2>5. ~Left(p)' /\ run' = run /\ from' = from /\ parked' \subseteq parked \cup {t} /\ state' = state
    BY <1>1 DEF Left
  <2> QED
    BY <1>0, <2>1, <2>2, <2>3, <2>4, <2>5, ThreadKinds DEF ThreadInv, RetInv
<1>13. ResumeInv'
  <2>1. \A u \in Scheduling : Resumes(u)' => Resumes(u)
    BY <1>0, <1>1, <1>2 DEF Resumes, Resuming
  <2> QED
    BY <1>1, <2>1, ThreadKinds DEF ThreadInv, ResumeInv
<1> QED
  BY <1>5, <1>6, <1>7, <1>8, <1>9, <1>10, <1>11, <1>12, <1>13 DEF ThreadInv

\* A thread yields.
LEMMA YieldKeeps ==
  ASSUME Types, ThreadInv, NEW p \in Proc, uthread_yield(p)
  PROVE  ThreadInv'
<1> USE DEF tcb, queue, idle, switch, client
<1>0. PICK t \in Thread : t = run[p]
  BY DEF Types
<1>1. /\ phase \in [Proc -> Phases] /\ phase[p] = "run" /\ phase' = [phase EXCEPT ![p] = "dequeue"]
      /\ stop \in [Proc -> {"RUNABLE", "BLOCKED", "DYING"}] /\ stop' = [stop EXCEPT ![p] = "RUNABLE"]
      /\ ret \in [Thread -> {"run", "rejoin"}] /\ ret' = [ret EXCEPT ![t] = "run"]
      /\ UNCHANGED <<state, joiner, ready_queue, run, from, to, target, claimed, joined, parked>>
  <2>1. pc[p] = "run" /\ Stop(p, "RUNABLE", "run")
    BY DEF uthread_yield, InClient
  <2>2. pc' = [pc EXCEPT ![p] = "dequeue"] /\ after' = after
    BY <2>1 DEF Stop, Go
  <2>3. phase' = [phase EXCEPT ![p] = CASE "dequeue" = "signal" -> after[p]
                                        [] "dequeue" \in Idle   -> "dequeue"
                                        [] OTHER                -> "dequeue"]
    BY <2>2, PhaseMove DEF Place
  <2>4. phase[p] = "run" /\ phase \in [Proc -> Phases]
    BY <2>1, PhaseType DEF Idle
  <2> QED
    BY <1>0, <2>1, <2>3, <2>4 DEF Stop, uthread_yield, Types
<1>2. /\ \A u : ToBy(u)' = ToBy(u) /\ FromBy(u)' = FromBy(u)
      /\ \A u : (InQueue(u)' <=> InQueue(u))
  <2>1. \A u : ToBy(u)' = ToBy(u)
    BY <1>1 DEF ToBy
  <2>2. \A u : FromBy(u)' = FromBy(u)
    BY <1>1 DEF FromBy, Left
  <2> QED
    BY <1>1, <2>1, <2>2 DEF InQueue
<1>3. t \in Yielders /\ t \in Scheduling /\ state[t] = "RUNNING"
  BY <1>0, <1>1, ThreadKinds DEF uthread_yield, InClient, ThreadInv, StateInv, Working
<1>4. \A u \in Scheduling : SameOwners(u)
  <2>1. \A u \in Scheduling : RunBy(u)' = RunBy(u)
    BY <1>0, <1>1, <1>3, ThreadKinds DEF RunBy, Leaving
  <2>2. \A u \in Scheduling : JoinBy(u)' = JoinBy(u)
    BY <1>1 DEF JoinBy
  <2>3. \A u : (IsParked(u)' <=> IsParked(u))
    BY <1>1 DEF IsParked
  <2> QED
    BY <1>2, <2>1, <2>2, <2>3 DEF SameOwners
<1>5. OwnerInv'
  BY <1>1, <1>4, OwnersKept DEF ThreadInv, OwnerInv
<1>6. StackInv'
  BY <1>1 DEF ThreadInv, StackInv
<1>7. BaseInv'
  BY <1>0, <1>1 DEF ThreadInv, BaseInv, Left
<1>8. RoleInv'
  BY <1>0, <1>1, <1>3 DEF ThreadInv, RoleInv, MayStop, Leaving, Left, Exiting
<1>9. StateInv' /\ LateInv'
  BY <1>0, <1>1, <1>3 DEF ThreadInv, StateInv, LateInv, Working, Exiting, Resuming, Left
<1>10. ClaimInv' /\ JoinAfterExit'
  BY <1>1 DEF ThreadInv, ClaimInv, JoinAfterExit, Target
<1>11. WaitInv'
  <2>1. \A w \in Worker : joiner[w] \in Thread /\ state[w] # "FREED" => joiner[w] # t
    BY <1>0, <1>1, <1>3, ThreadKinds DEF ThreadInv, WaitInv, BaseInv, Active, Working, Exiting
  <2> QED
    BY <1>0, <1>1, <2>1 DEF ThreadInv, WaitInv, Active, Working, Exiting, Leaving
<1>12. RetInv'
  <2>1. \A u \in Thread : ret'[u] = IF u = t THEN "run" ELSE ret[u]
    BY <1>1
  <2>2. \A q \in Proc : run[q] \in Thread /\ from[q] \in Thread
    BY DEF Types
  <2>3. \A q \in Proc : phase'[q] = "rejoin" => phase[q] = "rejoin" /\ run[q] # t
    BY <1>0, <1>1 DEF ThreadInv, StackInv
  <2>4. \A q \in Proc : stop'[q] = "RUNABLE" /\ q # p =>
          /\ stop[q] = "RUNABLE" /\ (Leaving(q)' <=> Leaving(q)) /\ (Left(q)' <=> Left(q))
    BY <1>1 DEF Leaving, Left
  <2>5. ~Left(p)' /\ run' = run /\ from' = from /\ parked' \subseteq parked \cup {t} /\ state' = state
    BY <1>1 DEF Left
  <2> QED
    BY <1>0, <2>1, <2>2, <2>3, <2>4, <2>5, ThreadKinds DEF ThreadInv, RetInv
<1>13. ResumeInv'
  <2>1. \A u \in Scheduling : Resumes(u)' => Resumes(u)
    BY <1>0, <1>1, <1>2 DEF Resumes, Resuming
  <2> QED
    BY <1>1, <2>1, ThreadKinds DEF ThreadInv, ResumeInv
<1> QED
  BY <1>5, <1>6, <1>7, <1>8, <1>9, <1>10, <1>11, <1>12, <1>13 DEF ThreadInv

\* A thread registers and blocks.
LEMMA BlockKeeps ==
  ASSUME Types, ThreadInv, NEW p \in Proc, uthread_block(p)
  PROVE  ThreadInv'
<1> USE DEF tcb, queue, idle, switch, client
<1>0. PICK t \in Thread : t = run[p]
  BY DEF Types
<1>1. /\ phase \in [Proc -> Phases] /\ phase[p] = "run" /\ phase' = [phase EXCEPT ![p] = "dequeue"]
      /\ stop \in [Proc -> {"RUNABLE", "BLOCKED", "DYING"}] /\ stop' = [stop EXCEPT ![p] = "BLOCKED"]
      /\ ret \in [Thread -> {"run", "rejoin"}] /\ ret' = [ret EXCEPT ![t] = "run"]
      /\ parked' = parked \cup {t}
      /\ UNCHANGED <<state, joiner, ready_queue, run, from, to, target, claimed, joined>>
  <2>1. pc[p] = "run" /\ Stop(p, "BLOCKED", "run")
    BY DEF uthread_block, InClient
  <2>2. pc' = [pc EXCEPT ![p] = "dequeue"] /\ after' = after
    BY <2>1 DEF Stop, Go
  <2>3. phase' = [phase EXCEPT ![p] = CASE "dequeue" = "signal" -> after[p]
                                        [] "dequeue" \in Idle   -> "dequeue"
                                        [] OTHER                -> "dequeue"]
    BY <2>2, PhaseMove DEF Place
  <2>4. phase[p] = "run" /\ phase \in [Proc -> Phases]
    BY <2>1, PhaseType DEF Idle
  <2> QED
    BY <1>0, <2>1, <2>3, <2>4 DEF Stop, uthread_block, Types
<1>2. /\ \A u : ToBy(u)' = ToBy(u) /\ FromBy(u)' = FromBy(u)
      /\ \A u : (InQueue(u)' <=> InQueue(u))
  <2>1. \A u : ToBy(u)' = ToBy(u)
    BY <1>1 DEF ToBy
  <2>2. \A u : FromBy(u)' = FromBy(u)
    BY <1>1 DEF FromBy, Left
  <2> QED
    BY <1>1, <2>1, <2>2 DEF InQueue
<1>3. t \in Parkers /\ t \in Scheduling /\ state[t] = "RUNNING"
  BY <1>0, <1>1, ThreadKinds DEF uthread_block, InClient, ThreadInv, StateInv, Working
<1>4. /\ \A u : RunBy(u)' = RunBy(u) \ {p} /\ JoinBy(u)' = JoinBy(u)
      /\ \A u : (IsParked(u)' <=> IsParked(u) \/ u = t)
  <2>1. \A u : RunBy(u)' = RunBy(u) \ {p}
    BY <1>1 DEF RunBy, Leaving
  <2>2. \A u : JoinBy(u)' = JoinBy(u)
    BY <1>1 DEF JoinBy
  <2> QED
    BY <1>1, <2>1, <2>2 DEF IsParked
<1>5. OwnerInv'
  <2>1. ASSUME NEW u \in Scheduling PROVE OwnerOf(u)'
    <3>1. CASE u = t
      <4>1. Owned(t, {p}, {}, {}, {}, FALSE, FALSE)
        BY <1>0, <1>1, <1>3, Runner DEF Leaving
      <4>2. ParkOnly(u)'
        BY <1>2, <1>4, <3>1, <4>1 DEF ParkOnly, Owned
      <4> QED
        BY <1>1, <1>3, <3>1, <4>2 DEF OwnerOf
    <3>2. CASE u # t
      <4>1. p \notin RunBy(u)
        BY <1>0, <3>2 DEF RunBy
      <4>2. SameOwners(u)
        BY <1>2, <1>4, <3>2, <4>1 DEF SameOwners
      <4> QED
        BY <1>1, <4>2, OwnersKept DEF ThreadInv, OwnerInv
    <3> QED
      BY <3>1, <3>2
  <2> QED
    BY <1>1, <2>1 DEF ThreadInv, OwnerInv
<1>6. StackInv'
  BY <1>1 DEF ThreadInv, StackInv
<1>7. BaseInv'
  BY <1>0, <1>1, <1>3 DEF ThreadInv, BaseInv, Left
<1>8. RoleInv'
  BY <1>0, <1>1, <1>3 DEF ThreadInv, RoleInv, MayStop, Leaving, Left, Exiting
<1>9. StateInv' /\ LateInv'
  BY <1>0, <1>1, <1>3 DEF ThreadInv, StateInv, LateInv, Working, Exiting, Resuming, Left
<1>10. ClaimInv' /\ JoinAfterExit'
  BY <1>1 DEF ThreadInv, ClaimInv, JoinAfterExit, Target
<1>11. WaitInv'
  <2>1. \A w \in Worker : joiner[w] \in Thread /\ state[w] # "FREED" => joiner[w] # t
    BY <1>0, <1>1, <1>3, ThreadKinds DEF ThreadInv, WaitInv, BaseInv, Active, Working, Exiting
  <2> QED
    BY <1>0, <1>1, <2>1 DEF ThreadInv, WaitInv, Active, Working, Exiting, Leaving
<1>12. RetInv'
  <2>1. \A u \in Thread : ret'[u] = IF u = t THEN "run" ELSE ret[u]
    BY <1>1
  <2>2. \A q \in Proc : run[q] \in Thread /\ from[q] \in Thread
    BY DEF Types
  <2>3. \A q \in Proc : phase'[q] = "rejoin" => phase[q] = "rejoin" /\ run[q] # t
    BY <1>0, <1>1 DEF ThreadInv, StackInv
  <2>4. \A q \in Proc : stop'[q] = "RUNABLE" /\ q # p =>
          /\ stop[q] = "RUNABLE" /\ (Leaving(q)' <=> Leaving(q)) /\ (Left(q)' <=> Left(q))
    BY <1>1 DEF Leaving, Left
  <2>5. ~Left(p)' /\ run' = run /\ from' = from /\ parked' \subseteq parked \cup {t} /\ state' = state
    BY <1>1 DEF Left
  <2> QED
    BY <1>0, <2>1, <2>2, <2>3, <2>4, <2>5, ThreadKinds DEF ThreadInv, RetInv
<1>13. ResumeInv'
  <2>1. \A u \in Scheduling : Resumes(u)' => Resumes(u)
    BY <1>0, <1>1, <1>2 DEF Resumes, Resuming
  <2> QED
    BY <1>1, <2>1, ThreadKinds DEF ThreadInv, ResumeInv
<1> QED
  BY <1>5, <1>6, <1>7, <1>8, <1>9, <1>10, <1>11, <1>12, <1>13 DEF ThreadInv

\* A thread waits in uthread_join for one that has not exited.
LEMMA JoinWaitKeeps ==
  ASSUME Types, TargetsInv, ThreadInv, NEW p \in Proc, JoinWait(p)
  PROVE  ThreadInv'
<1> USE DEF tcb, queue, idle, switch, client
<1>0. PICK t \in Thread, w \in Worker : t = run[p] /\ w = Target(p)
  BY DEF Types, TargetsInv, JoinWait
<1>1. /\ phase \in [Proc -> Phases] /\ phase[p] = "join" /\ phase' = [phase EXCEPT ![p] = "dequeue"]
      /\ stop \in [Proc -> {"RUNABLE", "BLOCKED", "DYING"}] /\ stop' = [stop EXCEPT ![p] = "BLOCKED"]
      /\ ret \in [Thread -> {"run", "rejoin"}] /\ ret' = [ret EXCEPT ![t] = "rejoin"]
      /\ w \in Worker /\ w = target[t] /\ w = Target(p) /\ state[w] \notin {"DYING", "DEAD"}
      /\ joiner \in [Thread -> Thread \cup {NoThread, Detached}] /\ joiner' = [joiner EXCEPT ![w] = t]
      /\ UNCHANGED <<state, ready_queue, run, from, to, target, claimed, joined, parked>>
  <2>1. pc[p] = "join" /\ Stop(p, "BLOCKED", "rejoin")
    BY DEF JoinWait
  <2>2. pc' = [pc EXCEPT ![p] = "dequeue"] /\ after' = after
    BY <2>1 DEF Stop, Go
  <2>3. phase' = [phase EXCEPT ![p] = CASE "dequeue" = "signal" -> after[p]
                                        [] "dequeue" \in Idle   -> "dequeue"
                                        [] OTHER                -> "dequeue"]
    BY <2>2, PhaseMove DEF Place
  <2>4. phase[p] = "join" /\ phase \in [Proc -> Phases]
    BY <2>1, PhaseType DEF Idle
  <2> QED
    BY <1>0, <2>1, <2>3, <2>4 DEF Stop, JoinWait, Types, Target
<1>2. /\ \A u : ToBy(u)' = ToBy(u) /\ FromBy(u)' = FromBy(u)
      /\ \A u : (InQueue(u)' <=> InQueue(u))
  <2>1. \A u : ToBy(u)' = ToBy(u)
    BY <1>1 DEF ToBy
  <2>2. \A u : FromBy(u)' = FromBy(u)
    BY <1>1 DEF FromBy, Left
  <2> QED
    BY <1>1, <2>1, <2>2 DEF InQueue
<1>3. /\ t \in Joiners /\ t \in Scheduling /\ state[t] = "RUNNING"
      /\ joiner[w] = NoThread /\ state[w] \notin Finished /\ w \in claimed /\ w \in Thread
  <2>1. t \in Joiners /\ t \in Scheduling /\ state[t] = "RUNNING"
    BY <1>0, <1>1, ThreadKinds DEF ThreadInv, RoleInv, StateInv, Working
  <2>2. joiner[w] = NoThread /\ state[w] # "FREED" /\ w \in claimed
    BY <1>1 DEF ThreadInv, ClaimInv
  <2> QED
    BY <1>1, <2>1, <2>2, ThreadKinds DEF Finished
<1>4. Owned(t, {p}, {}, {}, {}, FALSE, FALSE)
  BY <1>0, <1>1, <1>3, Runner DEF Leaving
<1>14. \A q \in Proc : q # p =>
        /\ run[q] = t => phase[q] = "spin" /\ stop[q] = "BLOCKED"
        /\ Left(q) /\ from[q] = t => stop[q] = "BLOCKED"
  BY <1>0, <1>1, AloneOnStack
<1>15. \A v \in Thread : joiner'[v] = IF v = w THEN t ELSE joiner[v]
  BY <1>1
<1>16. \A u \in Thread : target[u] = w => u = t
  BY <1>1 DEF ThreadInv, ClaimInv
<1>5. OwnerInv'
  <2>1. \A u : RunBy(u)' = RunBy(u) \ {p}
    BY <1>1 DEF RunBy, Leaving
  <2>2. \A v : ((\E q \in Proc : phase'[q] = "exit" /\ run'[q] = v) <=> (\E q \in Proc : phase[q] = "exit" /\ run[q] = v))
    BY <1>1
  <2>3. \A u \in Scheduling : JoinBy(u)' = IF u = t THEN JoinBy(u) \cup {w} ELSE JoinBy(u)
    BY <1>1, <1>3, <1>15, <2>2, ThreadKinds DEF JoinBy
  <2>4. \A u : (IsParked(u)' <=> IsParked(u))
    BY <1>1 DEF IsParked
  <2>5. ASSUME NEW u \in Scheduling PROVE OwnerOf(u)'
    <3>1. CASE u = t
      <4>1. JoinOnly(u)'
        BY <1>2, <1>4, <2>1, <2>3, <2>4, <3>1 DEF JoinOnly, Owned
      <4> QED
        BY <1>1, <1>3, <3>1, <4>1 DEF OwnerOf
    <3>2. CASE u # t
      <4>1. p \notin RunBy(u)
        BY <1>0, <3>2 DEF RunBy
      <4>2. SameOwners(u)
        BY <1>2, <2>1, <2>3, <2>4, <3>2, <4>1 DEF SameOwners
      <4> QED
        BY <1>1, <4>2, OwnersKept DEF ThreadInv, OwnerInv
    <3> QED
      BY <3>1, <3>2
  <2> QED
    BY <1>1, <2>5 DEF ThreadInv, OwnerInv
<1>6. StackInv'
  BY <1>1 DEF ThreadInv, StackInv
<1>7. BaseInv'
  BY <1>1, <1>3, <1>15, ThreadKinds DEF ThreadInv, BaseInv, Left
<1>8. RoleInv'
  BY <1>0, <1>1, <1>3 DEF ThreadInv, RoleInv, MayStop, Leaving, Left, Exiting
<1>9. StateInv' /\ LateInv'
  BY <1>0, <1>1, <1>3 DEF ThreadInv, StateInv, LateInv, Working, Exiting, Resuming, Left
<1>10. ClaimInv' /\ JoinAfterExit'
  <2>1. \A q \in Proc : phase'[q] \in {"join", "detach"} =>
          q # p /\ phase[q] \in {"join", "detach"} /\ Target(q)' = Target(q) /\ Target(q) \in Worker /\ run[q] # t
    BY <1>1, <1>14, TargetKnown DEF Target
  <2>2. \A q \in Proc : phase'[q] \in {"join", "detach"} => Target(q) # w
    BY <1>16, <2>1 DEF Target, Types
  <2>3. ClaimInv'
    BY <1>1, <1>3, <1>15, <2>1, <2>2, ThreadKinds DEF ThreadInv, ClaimInv
  <2> QED
    BY <1>1, <2>3 DEF ThreadInv, JoinAfterExit
<1>11. WaitInv'
  <2>1. \A v \in Worker : joiner[v] \in Thread /\ state[v] # "FREED" => joiner[v] # t
    BY <1>0, <1>1 DEF ThreadInv, WaitInv, Active, Working
  <2>2. \A q \in Proc : run[q] = t => ~Active(q)'
    BY <1>1, <1>14 DEF Active, Working, Exiting, Leaving
  <2>3. \A q \in Proc : q # p => (Active(q)' <=> Active(q))
    BY <1>1 DEF Active, Working, Exiting, Leaving
  <2> QED
    BY <1>0, <1>1, <1>15, <2>1, <2>2, <2>3, ThreadKinds DEF ThreadInv, WaitInv
<1>12. RetInv'
  <2>1. t \notin parked
    BY <1>4 DEF Owned, IsParked
  <2> QED
    BY <1>0, <1>1, <1>3, <1>14, <2>1 DEF ThreadInv, RetInv, Leaving, Left
<1>13. ResumeInv'
  <2>1. \A u \in Scheduling : Resumes(u)' => Resumes(u) /\ u # t
    <3>1. ~InQueue(t) /\ ToBy(t) = {}
      BY <1>4 DEF Owned
    <3> QED
      BY <1>0, <1>1, <1>2, <1>14, <3>1 DEF Resumes, Resuming
  <2> QED
    BY <1>1, <1>15, <1>16, <2>1, ThreadKinds DEF ThreadInv, ResumeInv, TargetsInv
<1> QED
  BY <1>5, <1>6, <1>7, <1>8, <1>9, <1>10, <1>11, <1>12, <1>13 DEF ThreadInv

\* A thread begins to join or to detach another, which nobody else does.
LEMMA ClaimKeeps ==
  ASSUME Types, ThreadInv, NEW p \in Proc, NEW w \in Worker, NEW place \in {"join", "detach"}, Claim(p, w, place)
  PROVE  ThreadInv'
<1> USE DEF tcb, queue, idle, switch, client
<1>0. PICK t \in Thread, a \in {"join", "detach", "run"} :
        t = run[p] /\ a = IF joiner[w] = NoThread THEN place ELSE "run"
  BY DEF Types
<1>1. /\ phase \in [Proc -> Phases] /\ phase[p] = "run" /\ phase' = [phase EXCEPT ![p] = a]
      /\ target \in [Thread -> Worker \cup {NoThread}] /\ target' = [target EXCEPT ![t] = w]
      /\ claimed' = claimed \cup {w} /\ w \notin claimed /\ state[w] # "UNUSED" /\ t \in Joiners
      /\ UNCHANGED <<state, joiner, ready_queue, run, from, to, stop, ret, joined, parked>>
  <2>1. pc[p] = "run" /\ pc' = [pc EXCEPT ![p] = a] /\ after' = after
    BY <1>0 DEF Claim, InClient, Go
  <2>2. phase' = [phase EXCEPT ![p] = CASE a = "signal" -> after[p]
                                        [] a \in Idle   -> "dequeue"
                                        [] OTHER        -> a]
    BY <2>1, PhaseMove DEF Place
  <2>3. phase[p] = "run" /\ phase \in [Proc -> Phases]
    BY <2>1, PhaseType DEF Idle
  <2> QED
    BY <1>0, <2>1, <2>2, <2>3 DEF Idle, Claim, InClient, Types
<1>2. t \in Scheduling
  BY <1>1, ThreadKinds
<1>3. Owned(t, {p}, {}, {}, {}, FALSE, FALSE)
  BY <1>0, <1>1, <1>2, Runner DEF Leaving
<1>4. \A q \in Proc : q # p /\ phase[q] # "spin" => run[q] # t
  BY <1>0, <1>1 DEF ThreadInv, StackInv
<1>5. \A u \in Thread : target'[u] = IF u = t THEN w ELSE target[u]
  BY <1>1
<1>6. \A q \in Proc : run[q] \in Thread
  BY DEF Types
<1>7. OwnerInv'
  <2>1. ASSUME NEW u \in Scheduling PROVE SameOwners(u)
    <3>1. RunBy(u)' = RunBy(u) /\ ToBy(u)' = ToBy(u) /\ FromBy(u)' = FromBy(u) /\ JoinBy(u)' = JoinBy(u)
      BY <1>1 DEF RunBy, ToBy, FromBy, JoinBy, Leaving, Left
    <3> QED
      BY <1>1, <3>1 DEF SameOwners, InQueue, IsParked
  <2> QED
    BY <1>1, <2>1, OwnersKept DEF ThreadInv, OwnerInv
<1>8. StackInv' /\ BaseInv'
  BY <1>1 DEF ThreadInv, StackInv, BaseInv, Left
<1>9. RoleInv'
  BY <1>0, <1>1 DEF ThreadInv, RoleInv, MayStop, Leaving, Left, Exiting
<1>10. StateInv' /\ LateInv'
  BY <1>1 DEF ThreadInv, StateInv, LateInv, Working, Exiting, Resuming, Left
<1>11. ClaimInv'
  <2>1. joiner[w] = NoThread /\ state[w] # "FREED" /\ \A u \in Thread : target[u] # w
    BY <1>1 DEF ThreadInv, ClaimInv
  <2>2. \A v \in Worker \ claimed' :
          joiner'[v] = NoThread /\ state'[v] # "FREED" /\ \A u \in Thread : target'[u] # v
    BY <1>1, <1>5 DEF ThreadInv, ClaimInv
  <2>3. \A u, v \in Thread : target'[u] = target'[v] /\ target'[u] \in Worker => u = v
    BY <1>5, <2>1 DEF ThreadInv, ClaimInv
  <2>4. ASSUME NEW q \in Proc, phase'[q] \in {"join", "detach"}
        PROVE  joiner'[Target(q)'] = NoThread /\ state'[Target(q)'] \notin {"UNUSED", "FREED"}
    <3>1. CASE q = p
      BY <1>0, <1>1, <1>5, <2>1, <3>1 DEF Target
    <3>2. CASE q # p
      <4>1. phase[q] \in {"join", "detach"} /\ run[q] # t
        BY <1>1, <1>4, <2>4, <3>2
      <4>2. Target(q)' = Target(q)
        BY <1>1, <1>5, <1>6, <4>1 DEF Target
      <4> QED
        BY <1>1, <4>1, <4>2 DEF ThreadInv, ClaimInv
    <3> QED
      BY <3>1, <3>2
  <2> QED
    BY <2>2, <2>3, <2>4 DEF ClaimInv
<1>12. WaitInv'
  <2>1. \A v \in Worker : joiner[v] \in Thread /\ state[v] # "FREED" => joiner[v] # t
    BY <1>0, <1>1 DEF ThreadInv, WaitInv, Active, Working
  <2>2. \A q \in Proc : Active(q)' <=> Active(q)
    BY <1>1 DEF Active, Working, Exiting, Leaving
  <2> QED
    BY <1>1, <1>5, <2>1, <2>2 DEF ThreadInv, WaitInv
<1>13. RetInv' /\ JoinAfterExit'
  BY <1>1 DEF ThreadInv, RetInv, JoinAfterExit, Leaving, Left
<1>14. ResumeInv'
  <2>1. \A u : (InQueue(u)' <=> InQueue(u)) /\ ToBy(u)' = ToBy(u)
    BY <1>1 DEF InQueue, ToBy
  <2>2. \A u \in Scheduling : Resumes(u)' => Resumes(u)
    BY <1>1, <2>1 DEF Resumes, Resuming
  <2>3. ~Resumes(t)'
    BY <1>0, <1>1, <1>3, <1>4, <2>1 DEF Resumes, Resuming, Owned
  <2> QED
    BY <1>1, <1>5, <2>2, <2>3, ThreadKinds DEF ThreadInv, ResumeInv
<1> QED
  BY <1>7, <1>8, <1>9, <1>10, <1>11, <1>12, <1>13, <1>14 DEF ThreadInv

\* uthread_join and uthread_detach return: the other thread is freed, or detached.
LEMMA ReleaseKeeps ==
  ASSUME Types, TargetsInv, ThreadInv, NEW p \in Proc, JoinReturn(p) \/ DetachReturn(p)
  PROVE  ThreadInv'
<1> USE DEF tcb, queue, idle, switch, client
<1>0. PICK t \in Thread, w \in Worker : t = run[p] /\ w = Target(p)
  BY DEF Types, TargetsInv, JoinReturn, DetachReturn
<1>1. /\ phase \in [Proc -> Phases] /\ phase[p] \in {"join", "rejoin", "detach"} /\ phase' = [phase EXCEPT ![p] = "run"]
      /\ phase[p] = "join" => state[w] \in {"DYING", "DEAD"}
      /\ state \in [Thread -> TState \cup {"UNUSED", "FREED"}] /\ joiner \in [Thread -> Thread \cup {NoThread, Detached}]
      /\ state' = IF state[w] = "DEAD" THEN [state EXCEPT ![w] = "FREED"] ELSE state
      /\ joiner' = IF state[w] = "DEAD" THEN joiner ELSE [joiner EXCEPT ![w] = Detached]
      /\ joined' = IF phase[p] = "detach" THEN joined ELSE joined \cup {w}
      /\ UNCHANGED <<ready_queue, run, from, to, stop, ret, target, claimed, parked>>
  <2>1. /\ pc[p] \in {"join", "rejoin", "detach"} /\ pc' = [pc EXCEPT ![p] = "run"] /\ after' = after
        /\ pc[p] = "join" => state[w] \in {"DYING", "DEAD"}
        /\ joined' = IF pc[p] = "detach" THEN joined ELSE joined \cup {w}
    BY <1>0 DEF JoinReturn, DetachReturn, Go
  <2>2. phase' = [phase EXCEPT ![p] = CASE "run" = "signal" -> after[p]
                                        [] "run" \in Idle   -> "dequeue"
                                        [] OTHER            -> "run"]
    BY <2>1, PhaseMove DEF Place
  <2>3. phase[p] = pc[p] /\ phase \in [Proc -> Phases]
    BY <2>1, PhaseType DEF Idle
  <2>4. Release(w) /\ UNCHANGED <<ready_queue, run, from, to, stop, ret, target, claimed, parked>>
    BY <1>0 DEF JoinReturn, DetachReturn
  <2> QED
    BY <2>1, <2>2, <2>3, <2>4 DEF Idle, Release, Types
<1>2. /\ t \in Joiners /\ t \in Scheduling /\ state[t] = "RUNNING" /\ target[t] = w
      /\ w \in Thread /\ w \in Scheduling /\ w \in claimed
  <2>1. t \in Joiners /\ target[t] = w /\ state[t] = "RUNNING"
    BY <1>0, <1>1 DEF ThreadInv, RoleInv, StateInv, Working, Target
  <2> QED
    BY <2>1, ThreadKinds DEF ThreadInv, ClaimInv
<1>3. Owned(t, {p}, {}, {}, {}, FALSE, FALSE)
  BY <1>0, <1>1, <1>2, Runner DEF Leaving
<1>4. /\ phase[p] = "rejoin" => joiner[w] = t /\ state[w] \in {"DYING", "DEAD"}
      /\ phase[p] # "rejoin" => joiner[w] = NoThread
      /\ state[w] \notin {"UNUSED", "FREED"}
  <2>1. CASE phase[p] = "rejoin"
    <3>1. ret[t] = "rejoin" /\ Resumes(t)
      BY <1>0, <1>1, <2>1 DEF ThreadInv, RetInv, Resumes
    <3> QED
      BY <1>2, <2>1, <3>1 DEF ThreadInv, ResumeInv
  <2>2. CASE phase[p] # "rejoin"
    BY <1>0, <1>1, <2>2 DEF ThreadInv, ClaimInv
  <2> QED
    BY <2>1, <2>2
<1>5. /\ \A u \in Thread : u # w => state'[u] = state[u] /\ joiner'[u] = joiner[u]
      /\ \/ state[w] = "DEAD" /\ state'[w] = "FREED" /\ joiner'[w] = joiner[w]
         \/ state[w] # "DEAD" /\ state'[w] = state[w] /\ joiner'[w] = Detached
  BY <1>1, <1>2
<1>6. \A q \in Proc : run[q] \in Thread /\ from[q] \in Thread
  BY DEF Types
<1>7. \A q \in Proc : q # p /\ phase[q] # "spin" => run[q] # t
  BY <1>0, <1>1 DEF ThreadInv, StackInv
<1>8. \A q \in Proc : state'[run[q]] = state[run[q]] /\ (Left(q) => state'[from[q]] = state[from[q]])
  <2>1. CASE state[w] = "DEAD"
    BY <1>5, <1>6, <2>1, DeadAway
  <2>2. CASE state[w] # "DEAD"
    BY <1>1, <2>2
  <2> QED
    BY <2>1, <2>2
<1>9. OwnerInv'
  <2>1. ASSUME NEW u \in Scheduling PROVE SameOwners(u)
    <3>1. RunBy(u)' = RunBy(u) /\ ToBy(u)' = ToBy(u) /\ FromBy(u)' = FromBy(u)
      BY <1>1 DEF RunBy, ToBy, FromBy, Leaving, Left
    <3>2. \A v : (\E q \in Proc : phase'[q] = "exit" /\ run'[q] = v) <=> (\E q \in Proc : phase[q] = "exit" /\ run[q] = v)
      BY <1>1
    <3>3. w \notin JoinBy(u)
      <4>1. CASE u = t
        BY <1>3, <4>1 DEF Owned
      <4>2. CASE u # t
        BY <1>4, <4>2, ThreadKinds DEF JoinBy
      <4> QED
        BY <4>1, <4>2
    <3>4. w \notin JoinBy(u)'
      <4>1. CASE state[w] = "DEAD"
        BY <1>5, <3>2, <3>3, <4>1 DEF JoinBy, Finished
      <4>2. CASE state[w] # "DEAD"
        BY <1>5, <4>2, ThreadKinds DEF JoinBy
      <4> QED
        BY <4>1, <4>2
    <3>5. \A v \in Worker : v # w => (v \in JoinBy(u)' <=> v \in JoinBy(u))
      BY <1>5, <3>2, ThreadKinds DEF JoinBy
    <3>6. JoinBy(u)' = JoinBy(u)
      <4>1. JoinBy(u) \subseteq Worker /\ JoinBy(u)' \subseteq Worker
        BY DEF JoinBy
      <4> QED
        BY <3>3, <3>4, <3>5, <4>1
    <3> QED
      BY <1>1, <3>1, <3>6 DEF SameOwners, InQueue, IsParked
  <2>2. \A u \in Scheduling : (state'[u] \in Gone <=> state[u] \in Gone) /\ (state'[u] = "DYING" => state[u] = "DYING")
    BY <1>5, ThreadKinds DEF Gone
  <2> QED
    BY <1>1, <2>1, <2>2, OwnersKept DEF ThreadInv, OwnerInv
<1>10. StackInv' /\ BaseInv'
  <2>1. \A q \in Proc : state'[q] = state[q]
    BY <1>2, <1>5, ThreadKinds
  <2>2. \A v \in Worker : joiner'[v] \in Scheduling \cup {NoThread, Detached}
    BY <1>5, ThreadKinds DEF ThreadInv, BaseInv
  <2> QED
    BY <1>1, <2>1, <2>2 DEF ThreadInv, StackInv, BaseInv, Left
<1>11. RoleInv'
  BY <1>1 DEF ThreadInv, RoleInv, MayStop, Leaving, Left, Exiting
<1>12. StateInv' /\ LateInv'
  BY <1>0, <1>1, <1>2, <1>8 DEF ThreadInv, StateInv, LateInv, Working, Exiting, Resuming, Left
<1>13. ClaimInv'
  <2>1. \A v \in Worker \ claimed : v # w /\ joiner'[v] = joiner[v] /\ state'[v] = state[v]
    BY <1>2, <1>5, ThreadKinds
  <2>2. ASSUME NEW q \in Proc, phase'[q] \in {"join", "detach"}
        PROVE  joiner'[Target(q)'] = NoThread /\ state'[Target(q)'] \notin {"UNUSED", "FREED"}
    <3>1. q # p /\ phase[q] \in {"join", "detach"} /\ run[q] # t
      BY <1>1, <1>7, <2>2
    <3>2. Target(q)' = Target(q) /\ Target(q) \in Worker
      BY <1>1, <3>1, TargetKnown DEF Target
    <3>3. Target(q) # w /\ Target(q) \in Thread
      BY <1>2, <1>6, <3>1, <3>2, ThreadKinds DEF Target, ThreadInv, ClaimInv
    <3> QED
      BY <1>5, <3>1, <3>2, <3>3 DEF ThreadInv, ClaimInv
  <2> QED
    BY <1>1, <2>1, <2>2 DEF ThreadInv, ClaimInv
<1>14. WaitInv'
  <2>1. ASSUME NEW v \in Worker, joiner'[v] \in Thread, state'[v] # "FREED"
        PROVE  /\ target'[joiner'[v]] = v /\ ret'[joiner'[v]] = "rejoin"
               /\ \A q \in Proc : run'[q] = joiner'[v] => ~Active(q)'
    <3>1. v # w /\ v \in Thread
      BY <1>5, <2>1, ThreadKinds
    <3>2. joiner'[v] = joiner[v] /\ state'[v] = state[v]
      BY <1>5, <3>1
    <3>3. /\ target[joiner[v]] = v /\ ret[joiner[v]] = "rejoin"
          /\ \A q \in Proc : run[q] = joiner[v] => ~Active(q)
      BY <2>1, <3>2 DEF ThreadInv, WaitInv
    <3>4. joiner[v] # t
      BY <1>2, <3>1, <3>3
    <3>5. \A q \in Proc : q # p => (Active(q)' <=> Active(q))
      BY <1>1 DEF Active, Working, Exiting, Leaving
    <3> QED
      BY <1>0, <1>1, <3>2, <3>3, <3>4, <3>5
  <2> QED
    BY <2>1 DEF WaitInv
<1>15. RetInv'
  <2>1. \A u \in Thread : state'[u] \in {"UNUSED", "NASCENT"} => state[u] = state'[u]
    BY <1>5
  <2> QED
    BY <1>1, <2>1, ThreadKinds DEF ThreadInv, RetInv, Leaving, Left
<1>16. ResumeInv'
  <2>1. \A u : (InQueue(u)' <=> InQueue(u)) /\ ToBy(u)' = ToBy(u)
    BY <1>1 DEF InQueue, ToBy
  <2>2. \A u \in Scheduling : Resumes(u)' => Resumes(u)
    BY <1>1, <2>1 DEF Resumes, Resuming
  <2>3. ~Resumes(t)'
    BY <1>0, <1>1, <1>3, <1>7, <2>1 DEF Resumes, Resuming, Owned
  <2>4. \A u \in Scheduling : ret[u] = "rejoin" /\ u # t => target[u] \in Worker /\ target[u] # w
    BY <1>2, ThreadKinds DEF ThreadInv, ClaimInv, TargetsInv
  <2> QED
    BY <1>1, <1>5, <2>2, <2>3, <2>4, ThreadKinds DEF ThreadInv, ResumeInv
<1>17. JoinAfterExit'
  <2>1. state'[w] \in Finished \/ phase[p] = "detach"
    BY <1>1, <1>4, <1>5 DEF Finished
  <2>2. \A v \in Worker : state[v] \in Finished => state'[v] \in Finished
    BY <1>5, ThreadKinds DEF Finished
  <2>3. joined \subseteq Worker
    BY DEF Types
  <2> QED
    BY <1>1, <2>1, <2>2, <2>3 DEF ThreadInv, JoinAfterExit
<1> QED
  BY <1>9, <1>10, <1>11, <1>12, <1>13, <1>14, <1>15, <1>16, <1>17 DEF ThreadInv

\* Steps of the locks and of sleeping processors do not change what the threads do.
LEMMA QuietKeeps ==
  ASSUME ThreadInv, phase' = phase,
         UNCHANGED <<state, joiner, ready_queue, run, from, to, stop, ret, target, claimed, joined, parked>>
  PROVE  ThreadInv'
<1>1. \A u : SameOwners(u)
  BY DEF SameOwners, RunBy, ToBy, FromBy, JoinBy, InQueue, IsParked, Leaving, Left
<1>2. OwnerInv'
  BY <1>1, OwnersKept DEF ThreadInv, OwnerInv
<1>3. StackInv' /\ BaseInv' /\ JoinAfterExit'
  BY DEF ThreadInv, StackInv, BaseInv, JoinAfterExit, Left
<1>4. RoleInv'
  BY DEF ThreadInv, RoleInv, MayStop, Leaving, Left, Exiting
<1>5. StateInv' /\ LateInv'
  BY DEF ThreadInv, StateInv, LateInv, Working, Exiting, Resuming, Left
<1>6. ClaimInv'
  BY DEF ThreadInv, ClaimInv, Target
<1>7. WaitInv' /\ RetInv'
  BY DEF ThreadInv, WaitInv, RetInv, Active, Working, Exiting, Leaving, Left
<1>8. ResumeInv'
  BY DEF ThreadInv, ResumeInv, Resumes, Resuming, InQueue, ToBy
<1> QED
  BY <1>2, <1>3, <1>4, <1>5, <1>6, <1>7, <1>8 DEF ThreadInv

\* They do not change phases either.
LEMMA QuietPhase ==
  ASSUME Types, NEW p \in Proc,
         SignalIdle(p) \/ LockIdle(p) \/ Sleep(p) \/ WakeUp(p) \/ SpuriousWakeup(p) \/ (Dequeue(p) /\ StartIdle(p))
  PROVE  /\ phase' = phase
         /\ UNCHANGED <<state, joiner, ready_queue, run, from, to, stop, ret, target, claimed, joined, parked>>
<1> USE DEF tcb, queue, idle, switch, client
<1> DEFINE At_(q, place, next) == CASE place = "signal" -> next [] place \in Idle -> "dequeue" [] OTHER -> place
<1>1. /\ after' = after
      /\ UNCHANGED <<state, joiner, ready_queue, run, from, to, stop, ret, target, claimed, joined, parked>>
  BY DEF SignalIdle, StartIdle, Dequeue, LockIdle, Sleep, WakeUp, SpuriousWakeup
<1>2. phase = [q \in Proc |-> At_(q, pc[q], after[q])] /\ phase' = [q \in Proc |-> At_(q, pc'[q], after'[q])]
  BY DEF phase
<1>3. \A q \in Proc : At_(q, pc'[q], after[q]) = At_(q, pc[q], after[q])
  <2>1. CASE SignalIdle(p) /\ MustSignal
    <3>1. PICK r \in Proc : pc[r] = "asleep" /\ pc[p] = "signal" /\ pc' = [pc EXCEPT ![p] = after[p], ![r] = "woken"]
      BY <2>1 DEF SignalIdle, At
    <3>2. /\ pc'[p] = after[p] /\ pc'[r] = "woken" /\ \A q \in Proc : q # p /\ q # r => pc'[q] = pc[q]
          /\ after[p] \in {"run", "enter", "exited"}
      BY <3>1 DEF Types
    <3> QED
      BY <3>1, <3>2 DEF Idle
  <2>2. CASE SignalIdle(p) /\ ~MustSignal
    <3>1. /\ pc[p] = "signal" /\ pc'[p] = after[p] /\ \A q \in Proc : q # p => pc'[q] = pc[q]
          /\ after[p] \in {"run", "enter", "exited"}
      BY <2>2 DEF SignalIdle, Go, Types
    <3> QED
      BY <3>1 DEF Idle
  <2>3. CASE ~SignalIdle(p)
    <3>1. /\ pc[p] \in {"dequeue"} \cup Idle /\ pc'[p] \in {"dequeue"} \cup Idle
          /\ \A q \in Proc : q # p => pc'[q] = pc[q]
      BY <2>3 DEF StartIdle, Dequeue, LockIdle, Sleep, WakeUp, SpuriousWakeup, Go, Types, Idle
    <3> QED
      BY <3>1 DEF Idle
  <2> QED
    BY <2>1, <2>2, <2>3
<1> HIDE DEF At_
<1> QED
  BY <1>1, <1>2, <1>3

\* Every step of a processor keeps the threads in order.
LEMMA ThreadStep ==
  ASSUME QuietBlockers, Types, TargetsInv, ThreadInv, NEW p \in Proc, Step(p) \/ SpuriousWakeup(p)
  PROVE  ThreadInv'
<1>1. CASE SignalIdle(p) \/ LockIdle(p) \/ Sleep(p) \/ WakeUp(p) \/ SpuriousWakeup(p) \/ (Dequeue(p) /\ StartIdle(p))
  <2>1. /\ phase' = phase
        /\ UNCHANGED <<state, joiner, ready_queue, run, from, to, stop, ret, target, claimed, joined, parked>>
    BY <1>1, QuietPhase
  <2> QED
    BY <2>1, QuietKeeps
<1>2. CASE Dequeue(p) /\ ~StartIdle(p)
  <2>1. TakeNext(p) \/ TakeBase(p)
    BY <1>2 DEF Dequeue
  <2> QED
    BY <1>2, <2>1, TakeNextKeeps, TakeBaseKeeps
<1>3. CASE SaveFrom(p) \/ SwitchTo(p) \/ CheckFrom(p) \/ Requeue(p) \/ Reap(p) \/ Enter(p)
  BY <1>3, SaveFromKeeps, SwitchToKeeps, CheckFromKeeps, RequeueKeeps, ReapKeeps, EnterKeeps
<1>4. CASE Exit(p) \/ WakeJoiner(p) \/ StopDying(p) \/ BaseLoop(p)
  BY <1>4, ExitKeeps, WakeJoinerKeeps, StopDyingKeeps, BaseLoopKeeps
<1>5. CASE uthread_yield(p) \/ uthread_block(p) \/ JoinWait(p) \/ JoinReturn(p) \/ DetachReturn(p)
  BY <1>5, YieldKeeps, BlockKeeps, JoinWaitKeeps, ReleaseKeeps
<1>6. CASE \E w \in Worker : uthread_create(p, w)
  BY <1>6, CreateKeeps
<1>7. CASE \E w \in Worker : uthread_join(p, w) \/ uthread_detach(p, w)
  BY <1>7, ClaimKeeps DEF uthread_join, uthread_detach
<1>8. CASE \E t \in Thread : uthread_unblock(p, t)
  BY <1>8, UnblockKeeps
<1> QED
  BY <1>1, <1>2, <1>3, <1>4, <1>5, <1>6, <1>7, <1>8 DEF Step

\* At first main and the base threads run, each on its processor.
LEMMA ThreadInit == Init => ThreadInv
<1> SUFFICES ASSUME Init PROVE ThreadInv
  OBVIOUS
<1>1. /\ phase = [q \in Proc |-> "run"] /\ run = [q \in Proc |-> IF q = First THEN Main ELSE q]
      /\ state = [t \in Thread |-> CASE t \in Worker -> "UNUSED" [] t = First -> "NASCENT" [] OTHER -> "RUNNING"]
      /\ joiner = [t \in Thread |-> NoThread] /\ target = [t \in Thread |-> NoThread]
      /\ stop = [q \in Proc |-> "BLOCKED"] /\ ret = [t \in Thread |-> "run"]
      /\ ready_queue = <<>> /\ parked = {} /\ claimed = {} /\ joined = {}
  <2>1. pc = [q \in Proc |-> "run"]
    BY DEF Init, InitWith
  <2>2. \A q \in Proc : phase[q] = "run"
    BY <2>1 DEF phase, Idle
  <2>3. phase = [q \in Proc |-> phase[q]]
    BY DEF phase
  <2>4. phase = [q \in Proc |-> "run"]
    BY <2>2, <2>3
  <2> QED
    BY <2>4 DEF Init, InitWith, uthread_initqueue
<1>2. /\ \A q \in Proc : phase[q] = "run" /\ stop[q] = "BLOCKED" /\ state[q] = IF q = First THEN "NASCENT" ELSE "RUNNING"
      /\ \A q \in Proc : run[q] = IF q = First THEN Main ELSE q
      /\ \A t \in Thread : joiner[t] = NoThread /\ target[t] = NoThread /\ ret[t] = "run"
      /\ \A w \in Worker : state[w] = "UNUSED"
      /\ state[Main] = "RUNNING"
      /\ Queued(ready_queue) = {} /\ NoDuplicates(ready_queue)
  BY <1>1, ThreadKinds, WorkerAssumption, ProcAssumption DEF Queued, NoDuplicates
<1>3. /\ \A t : ToBy(t) = {} /\ FromBy(t) = {} /\ ~InQueue(t) /\ ~IsParked(t)
      /\ \A t \in Thread : JoinBy(t) = {}
      /\ RunBy(Main) = {First} /\ \A w \in Worker : RunBy(w) = {}
  <2>1. \A t : ToBy(t) = {} /\ FromBy(t) = {} /\ ~InQueue(t) /\ ~IsParked(t)
    BY <1>1, <1>2 DEF ToBy, FromBy, Left, InQueue, IsParked
  <2>2. \A t \in Thread : JoinBy(t) = {}
    BY <1>2, ThreadKinds DEF JoinBy
  <2>3. RunBy(Main) = {First} /\ \A w \in Worker : RunBy(w) = {}
    BY <1>2, WorkerAssumption, ProcAssumption DEF RunBy, Leaving
  <2> QED
    BY <2>1, <2>2, <2>3
<1>4. OwnerInv
  <2>1. OwnerOf(Main)
    BY <1>2, <1>3, ThreadKinds, ProcAssumption DEF OwnerOf, RunOnly, Owned
  <2>2. \A w \in Worker : OwnerOf(w)
    BY <1>2, <1>3, ThreadKinds DEF OwnerOf, Nowhere, Owned
  <2> QED
    BY <1>2, <2>1, <2>2 DEF OwnerInv, Scheduling
<1>5. StackInv /\ BaseInv
  <2>1. StackInv
    BY <1>2, WorkerAssumption DEF StackInv
  <2>2. BaseInv
    BY <1>1, <1>2, ThreadKinds, WorkerAssumption DEF BaseInv, Left
  <2> QED
    BY <2>1, <2>2
<1>6. RoleInv /\ LateInv
  BY <1>2 DEF RoleInv, LateInv, Leaving, Left, Exiting
<1>7. StateInv
  BY <1>2, ThreadKinds, ProcAssumption DEF StateInv, Working, Exiting, Resuming, Left
<1>8. ClaimInv
  BY <1>2, ThreadKinds, PointerAssumption DEF ClaimInv
<1>9. WaitInv /\ RetInv /\ ResumeInv /\ JoinAfterExit
  BY <1>1, <1>2, ThreadKinds DEF WaitInv, RetInv, ResumeInv, JoinAfterExit, Leaving, Left
<1> QED
  BY <1>4, <1>5, <1>6, <1>7, <1>8, <1>9 DEF ThreadInv

(***************************************************************************)
(* What follows for the threads                                            *)
(***************************************************************************)
\* A processor that another is on the same stack with has saved its registers.
LEMMA StacksApart == Types /\ ThreadInv => OneProcessor
<1> SUFFICES ASSUME Types, ThreadInv PROVE OneProcessor
  OBVIOUS
<1>1. \A p \in Proc : phase[p] = "spin" => pc[p] = "spin"
  BY PhaseType DEF Types, Place, Idle
<1> QED
  BY <1>1 DEF ThreadInv, StackInv, OneProcessor

\* Who is queued, who a processor goes to, and who a thread joins or detaches is not freed.
LEMMA NothingFreed == Types /\ TargetsInv /\ ThreadInv => NoUseAfterFree
<1> SUFFICES ASSUME Types, TargetsInv, ThreadInv PROVE NoUseAfterFree
  OBVIOUS
<1>1. ASSUME NEW t \in Queued(ready_queue) PROVE state[t] # "FREED"
  <2>1. t \in Scheduling /\ InQueue(t)
    BY <1>1 DEF ThreadInv, BaseInv, InQueue
  <2> QED
    BY <2>1, OneOwner DEF ThreadInv, OwnerInv
<1>2. ASSUME NEW p \in Proc, NEW t \in Touched(p) PROVE state[t] # "FREED"
  <2>1. \A place \in {"spin", "arrived", "reap", "requeue", "join", "rejoin", "detach"} :
          pc[p] = place => phase[p] = place
    BY PhaseType DEF Idle
  <2>2. CASE t = run[p] \/ (t = from[p] /\ pc[p] \in {"arrived", "reap", "requeue"})
    BY <2>1, <2>2, DeadAway DEF Left
  <2>3. CASE t = to[p] /\ pc[p] = "spin"
    <3>1. phase[p] = "spin" /\ to[p] \in Thread
      BY <2>1, <2>3 DEF Types
    <3>2. CASE t \in Proc
      BY <3>2 DEF ThreadInv, BaseInv
    <3>3. CASE t \in Scheduling
      <4>1. p \in ToBy(t)
        BY <2>3, <3>1 DEF ToBy
      <4> QED
        BY <3>3, <4>1, OneOwner DEF ThreadInv, OwnerInv
    <3> QED
      BY <2>3, <3>1, <3>2, <3>3, ThreadKinds
  <2>4. CASE t = Target(p) /\ pc[p] \in {"join", "detach"}
    BY <2>1, <2>4 DEF ThreadInv, ClaimInv
  <2>5. CASE t = Target(p) /\ pc[p] = "rejoin"
    <3>1. phase[p] = "rejoin"
      BY <2>1, <2>5
    <3>2. run[p] \in Scheduling /\ ret[run[p]] = "rejoin" /\ Resumes(run[p])
      BY <3>1, ThreadKinds DEF ThreadInv, RoleInv, RetInv, Resumes
    <3> QED
      BY <2>5, <3>2 DEF ThreadInv, ResumeInv, Target
  <2> QED
    BY <1>2, <2>2, <2>3, <2>4, <2>5 DEF Touched
<1> QED
  BY <1>1, <1>2 DEF NoUseAfterFree

\* A thread is of one kind when exactly one of the kinds fits.
LEMMA OneKind ==
  ASSUME NEW e \in BOOLEAN, NEW k \in BOOLEAN, NEW j \in BOOLEAN, NEW s \in BOOLEAN,
         e \/ k \/ j \/ s, ~(e /\ k), ~(e /\ j), ~(e /\ s), ~(k /\ j), ~(k /\ s), ~(j /\ s)
  PROVE  Cardinality({b \in {"executing", "blocked", "joining", "scheduled"} :
            CASE b = "executing" -> e
              [] b = "blocked"   -> k
              [] b = "joining"   -> j
              [] b = "scheduled" -> s}) = 1
<1> DEFINE kinds == {b \in {"executing", "blocked", "joining", "scheduled"} :
            CASE b = "executing" -> e
              [] b = "blocked"   -> k
              [] b = "joining"   -> j
              [] b = "scheduled" -> s}
<1>1. kinds = {"executing"} \/ kinds = {"blocked"} \/ kinds = {"joining"} \/ kinds = {"scheduled"}
  <2>1. CASE e
    BY <2>1
  <2>2. CASE k
    BY <2>2
  <2>3. CASE j
    BY <2>3
  <2>4. CASE s
    BY <2>4
  <2> QED
    BY <2>1, <2>2, <2>3, <2>4
<1> HIDE DEF kinds
<1>2. Cardinality(kinds) = 1
  BY <1>1, FS_Singleton
<1> QED
  BY <1>2 DEF kinds

\* The one owner of a live thread says where the thread is.
LEMMA NobodyLost == Types /\ IdleInv /\ ThreadInv => ThreadConserved
<1> SUFFICES ASSUME Types, IdleInv, ThreadInv,
                    NEW t \in Scheduling, state[t] \notin Finished \cup {"UNUSED"}
             PROVE  /\ Cardinality({b \in {"executing", "blocked", "joining", "scheduled"} :
                          CASE b = "executing" -> Executing(t)
                            [] b = "blocked"   -> t \in parked
                            [] b = "joining"   -> AwaitsJoin(t)
                            [] b = "scheduled" -> Scheduled(t) # {}}) = 1
                    /\ Cardinality(Scheduled(t)) =< 1
  BY DEF ThreadConserved, Scheduling
<1> DEFINE spinning == {p \in RunBy(t) : phase[p] = "spin"}
<1>1. \A p \in Proc : /\ pc[p] \notin Idle \cup {"signal"} => phase[p] = pc[p]
                      /\ pc[p] = "signal" => phase[p] \in {"run", "enter", "exited"}
                      /\ pc[p] \in Idle => phase[p] = "dequeue"
                      /\ run[p] = t => pc[p] \notin Idle
                      /\ stop[p] \in {"RUNABLE", "BLOCKED", "DYING"}
  <2>1. \A p \in Proc : run[p] = t => pc[p] \notin Idle
    BY ThreadKinds DEF IdleInv, Idle
  <2> QED
    BY <2>1, PhaseType DEF Types
<1>2. Executing(t) <=> \E p \in RunBy(t) : phase[p] # "spin"
  BY <1>1 DEF Executing, RunBy, Leaving, Idle
<1>3. AwaitsJoin(t) <=> JoinBy(t) # {}
  <2>1. At("exit") = {p \in Proc : phase[p] = "exit"}
    BY <1>1 DEF At, Idle
  <2> QED
    BY <2>1 DEF AwaitsJoin, JoinBy
<1>4. Scheduled(t) = (IF InQueue(t) THEN {"queue"} ELSE {}) \cup ToBy(t) \cup FromBy(t) \cup spinning
  <2>1. {p \in At("switch") \cup At("spin") : to[p] = t} = ToBy(t)
    BY <1>1 DEF At, ToBy, Idle
  <2>2. {p \in At("arrived") \cup At("requeue") : from[p] = t /\ stop[p] = "RUNABLE"} = FromBy(t)
    <3>1. \A p \in Proc : Left(p) /\ from[p] = t /\ stop[p] # "BLOCKED" => stop[p] = "RUNABLE" /\ phase[p] # "reap"
      BY <1>1 DEF ThreadInv, StateInv, Finished
    <3> QED
      BY <1>1, <3>1 DEF At, FromBy, Left, Idle
  <2>3. {p \in At("spin") : run[p] = t /\ stop[p] = "RUNABLE"} = spinning
    <3>1. \A p \in Proc : phase[p] = "spin" /\ run[p] = t /\ stop[p] # "BLOCKED" => stop[p] = "RUNABLE"
      BY <1>1 DEF ThreadInv, StateInv, Finished
    <3> QED
      BY <1>1, <3>1 DEF At, RunBy, Leaving, Idle
  <2> QED
    BY <2>1, <2>2, <2>3 DEF Scheduled, InQueue
<1>5. RunOnly(t) \/ ToOnly(t) \/ FromOnly(t) \/ JoinOnly(t) \/ QueueOnly(t) \/ ParkOnly(t)
  BY DEF ThreadInv, OwnerInv, OwnerOf, Finished
<1> DEFINE e == Executing(t)
           k == t \in parked
           j == AwaitsJoin(t)
           s == Scheduled(t) # {}
<1>6. /\ e \/ k \/ j \/ s
      /\ ~(e /\ k) /\ ~(e /\ j) /\ ~(e /\ s) /\ ~(k /\ j) /\ ~(k /\ s) /\ ~(j /\ s)
      /\ Scheduled(t) = {} \/ \E x : Scheduled(t) = {x}
  <2>1. CASE RunOnly(t)
    <3>1. PICK p \in Proc : Owned(t, {p}, {}, {}, {}, FALSE, FALSE)
      BY <2>1 DEF RunOnly
    <3>2. CASE phase[p] = "spin"
      BY <1>2, <1>3, <1>4, <3>1, <3>2 DEF Owned, IsParked
    <3>3. CASE phase[p] # "spin"
      BY <1>2, <1>3, <1>4, <3>1, <3>3 DEF Owned, IsParked
    <3> QED
      BY <3>2, <3>3
  <2>2. CASE ToOnly(t)
    BY <1>2, <1>3, <1>4, <2>2 DEF ToOnly, Owned, IsParked
  <2>3. CASE FromOnly(t)
    BY <1>2, <1>3, <1>4, <2>3 DEF FromOnly, Owned, IsParked
  <2>4. CASE JoinOnly(t)
    BY <1>2, <1>3, <1>4, <2>4 DEF JoinOnly, Owned, IsParked
  <2>5. CASE QueueOnly(t)
    BY <1>2, <1>3, <1>4, <2>5 DEF QueueOnly, Owned, IsParked
  <2>6. CASE ParkOnly(t)
    BY <1>2, <1>3, <1>4, <2>6 DEF ParkOnly, Owned, IsParked
  <2> QED
    BY <1>5, <2>1, <2>2, <2>3, <2>4, <2>5, <2>6
<1>7. e \in BOOLEAN /\ k \in BOOLEAN /\ j \in BOOLEAN /\ s \in BOOLEAN
  BY DEF Executing, AwaitsJoin
<1>8. Cardinality(Scheduled(t)) =< 1
  <2>1. Cardinality(Scheduled(t)) = 0 \/ Cardinality(Scheduled(t)) = 1
    BY <1>6, FS_EmptySet, FS_Singleton
  <2> QED
    BY <2>1
<1> HIDE DEF e, k, j, s
<1>9. Cardinality({b \in {"executing", "blocked", "joining", "scheduled"} :
        CASE b = "executing" -> e
          [] b = "blocked"   -> k
          [] b = "joining"   -> j
          [] b = "scheduled" -> s}) = 1
  BY <1>6, <1>7, OneKind
<1> QED
  BY <1>8, <1>9 DEF e, k, j, s

\* Threads have one owner, one stack and one joiner in every behaviour.
THEOREM ThreadsKeepInvariant == ASSUME QuietBlockers PROVE Spec => [](Inv /\ ThreadInv)
<1>1. Init => ThreadInv
  BY ThreadInit
<1>2. Inv /\ ThreadInv /\ [Next]_vars => ThreadInv'
  <2> SUFFICES ASSUME Inv, ThreadInv, [Next]_vars PROVE ThreadInv'
    OBVIOUS
  <2>1. Types /\ TargetsInv
    BY DEF Inv, TypeOK, Types
  <2>2. CASE Next
    BY <2>1, <2>2, ThreadStep DEF Next
  <2>3. CASE UNCHANGED vars
    <3>1. phase' = phase
      BY <2>3 DEF vars, phase
    <3> QED
      BY <2>3, <3>1, QuietKeeps DEF vars, tcb, queue, switch, client
  <2> QED
    BY <2>2, <2>3
<1> QED
  BY <1>1, <1>2, SchedulerKeepsInvariant, PTL DEF Spec

\* Two processors never execute on one stack, for any number of processors and threads
\* (uthread_switch waits for the thread to stop).
THEOREM StacksAreNotShared == ASSUME QuietBlockers PROVE Spec => []OneProcessor
<1>1. Inv /\ ThreadInv => OneProcessor
  BY StacksApart DEF Inv, TypeOK, Types
<1> QED
  BY <1>1, ThreadsKeepInvariant, PTL

\* No processor executes on a freed stack or reads a freed TCB (uthread_switch, uthread_join,
\* uthread_detach, uthread_exit).
THEOREM FreedThreadsAreLeftAlone == ASSUME QuietBlockers PROVE Spec => []NoUseAfterFree
<1>1. Inv /\ ThreadInv => NoUseAfterFree
  BY NothingFreed DEF Inv, TypeOK, Types
<1> QED
  BY <1>1, ThreadsKeepInvariant, PTL

\* uthread_join returns only after its target has exited, though it does not look at the
\* state again when it resumes.
THEOREM JoinWaitsForExit == ASSUME QuietBlockers PROVE Spec => []JoinAfterExit
<1>1. Inv /\ ThreadInv => JoinAfterExit
  BY DEF ThreadInv
<1> QED
  BY <1>1, ThreadsKeepInvariant, PTL

\* No thread is lost and none is scheduled twice (uthread_switch, ready_queue_enqueue,
\* ready_queue_dequeue, uthread_exit).
THEOREM ThreadsAreConserved == ASSUME QuietBlockers PROVE Spec => []ThreadConserved
<1>1. Inv /\ ThreadInv => ThreadConserved
  BY NobodyLost DEF Inv, TypeOK, Types
<1> QED
  BY <1>1, ThreadsKeepInvariant, PTL
=============================================================================
