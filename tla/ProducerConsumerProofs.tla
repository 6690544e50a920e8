----------------------- MODULE ProducerConsumerProofs -----------------------
(***************************************************************************)
(* The limits of pc.c hold and no signal is lost, for any number of         *)
(* producers, consumers, items and iterations.                              *)
(***************************************************************************)
EXTENDS ProducerConsumer, FiniteSetTheorems, TLAPS

\* Who may be where: the mutex excludes, each condition has waiters of one kind, and
\* nobody waits for two things.
Placed ==
  /\ \A s, t \in writers : s = t
  /\ \A t \in writers : pc[t] # "outside"
  /\ \A t \in lockers : pc[t] = "test"
  /\ writers \cap lockers = {}
  /\ waiters["MAX"] \subseteq Producer
  /\ waiters["MIN"] \subseteq Consumer
  /\ \A c \in Cond : waiters[c] \cap (writers \cup lockers) = {}
  /\ \A c \in Cond : \A t \in waiters[c] : pc[t] = "test"
  /\ \A t \in Thread : pc[t] # "outside" => i[t] < NUM_ITERATIONS

IInv == TypeOK /\ Placed /\ ItemsInRange /\ NoLostSignal

\* What a signal of condition c does: it moves one waiter, if there is one, to lockers.
Signalled(c) ==
  /\ UNCHANGED <<writers, readers, rlockers>>
  /\ IF waiters[c] = {}
     THEN UNCHANGED <<lockers, waiters>>
     ELSE \E s \in waiters[c] :
            /\ waiters' = [waiters EXCEPT ![c] = @ \ {s}]
            /\ lockers' = lockers \cup {s}

\* The threads of a finite program are finitely many.
LEMMA ComingFinite ==
  ASSUME NEW S, S = Producer \/ S = Consumer
  PROVE  /\ IsFiniteSet(Coming(S))
         /\ Cardinality(Coming(S)) \in Nat
<1>1. IsFiniteSet(S) /\ Coming(S) \subseteq S
  BY ThreadAssumption DEF Coming
<1> QED
  BY <1>1, FS_Subset, FS_CardinalityType

\* The initial state satisfies the invariant.
LEMMA InitIInv == Init => IInv
<1> SUFFICES ASSUME Init PROVE IInv
  OBVIOUS
<1> USE DEF Init, mx!Init
<1>1. TypeOK
  BY LimitAssumption DEF TypeOK, Cond
<1>2. Placed
  BY DEF Placed, Cond
<1>3. ItemsInRange
  BY LimitAssumption DEF ItemsInRange
<1>4. NoLostSignal
  BY DEF NoLostSignal, Cond
<1> QED
  BY <1>1, <1>2, <1>3, <1>4 DEF IInv

\* Types and places are kept by every step.
LEMMA NextPlaced ==
  ASSUME TypeOK, Placed, Next
  PROVE  TypeOK' /\ Placed'
<1> USE LimitAssumption DEF TypeOK, Placed, Cond, Go, Thread
<1>1. PICK t \in Thread : Step(t) \/ Locked(t)
  BY DEF Next
<1>2. CASE Lock(t)
  BY <1>2 DEF Lock, mx!Await
<1>3. CASE Locked(t)
  BY <1>3 DEF Locked, mx!Acquire, mx!Free
<1>4. CASE WaitMax(t)
  BY <1>4 DEF WaitMax, mx!Wait
<1>5. CASE WaitMin(t)
  BY <1>5 DEF WaitMin, mx!Wait
<1>6. CASE Produce(t)
  <2>1. Signalled("MIN")
    BY <1>6 DEF Produce, mx!Signal, mx!Wake, mx!vars, Signalled
  <2> QED
    BY <1>6, <2>1, ThreadAssumption DEF Produce, Signalled
<1>7. CASE Consume(t)
  <2>1. Signalled("MAX")
    BY <1>7 DEF Consume, mx!Signal, mx!Wake, mx!vars, Signalled
  <2> QED
    BY <1>7, <2>1, ThreadAssumption DEF Consume, Signalled
<1>8. CASE Unlock(t)
  BY <1>8 DEF Unlock, mx!Release
<1> QED
  BY <1>1, <1>2, <1>3, <1>4, <1>5, <1>6, <1>7, <1>8 DEF Step

\* The condition that each loop tests keeps items in its range.
LEMMA NextRange ==
  ASSUME TypeOK, ItemsInRange, Next
  PROVE  ItemsInRange'
<1> USE LimitAssumption DEF ItemsInRange, TypeOK
<1>1. PICK t \in Thread : Step(t) \/ Locked(t)
  BY DEF Next
<1>2. CASE Produce(t)
  BY <1>2 DEF Produce, Full
<1>3. CASE Consume(t)
  BY <1>3 DEF Consume, Empty
<1>4. CASE ~Produce(t) /\ ~Consume(t)
  BY <1>1, <1>4 DEF Step, Lock, Locked, WaitMax, WaitMin, Unlock
<1> QED
  BY <1>2, <1>3, <1>4

\* One member more.
LEMMA CountAdd ==
  ASSUME NEW S, NEW x, IsFiniteSet(S), x \notin S
  PROVE  Cardinality(S \cup {x}) = Cardinality(S) + 1
BY FS_AddElement

\* One member less.
LEMMA CountRemove ==
  ASSUME NEW S, NEW x, IsFiniteSet(S), x \in S
  PROVE  Cardinality(S \ {x}) = Cardinality(S) - 1
BY FS_RemoveElement

\* A set that grows does not get fewer members.
LEMMA CountGrows ==
  ASSUME NEW S, NEW T, IsFiniteSet(T), S \subseteq T
  PROVE  Cardinality(S) =< Cardinality(T)
BY FS_Subset

\* No signal is lost, whichever thread takes the next step.
LEMMA NextNoLostSignal ==
  ASSUME IInv, Next, TypeOK', Placed', ItemsInRange'
  PROVE  NoLostSignal'
<1> USE ThreadAssumption, LimitAssumption DEF IInv, TypeOK, Placed, ItemsInRange, Cond, Thread
<1>1. PICK t \in Thread : Step(t) \/ Locked(t)
  BY DEF Next
<1>2. /\ \A S \in {Producer, Consumer} : IsFiniteSet(Coming(S)) /\ Cardinality(Coming(S)) \in Nat
      /\ \A S \in {Producer, Consumer} : IsFiniteSet(Coming(S)')
  <2>1. \A S \in {Producer, Consumer} : Coming(S)' \subseteq S
    BY DEF Coming
  <2> QED
    BY <2>1, ComingFinite, FS_Subset
<1>3. CASE Lock(t)
  <2>1. Coming(Producer) \subseteq Coming(Producer)' /\ Coming(Consumer) \subseteq Coming(Consumer)'
    BY <1>3 DEF Lock, mx!Await, Go, Coming
  <2>2. /\ Cardinality(Coming(Producer)) =< Cardinality(Coming(Producer)')
        /\ Cardinality(Coming(Consumer)) =< Cardinality(Coming(Consumer)')
        /\ Cardinality(Coming(Producer)') \in Nat /\ Cardinality(Coming(Consumer)') \in Nat
    BY <1>2, <2>1, CountGrows, FS_CardinalityType
  <2> QED
    BY <1>2, <1>3, <2>2 DEF Lock, mx!Await, NoLostSignal
<1>4. CASE Locked(t)
  <2>1. Coming(Producer)' = Coming(Producer) /\ Coming(Consumer)' = Coming(Consumer)
    BY <1>4 DEF Locked, mx!Acquire, mx!Free, Coming
  <2> QED
    BY <1>4, <2>1 DEF Locked, mx!Acquire, NoLostSignal
<1>5. CASE Unlock(t)
  <2>1. Coming(Producer)' = Coming(Producer) /\ Coming(Consumer)' = Coming(Consumer)
    BY <1>5 DEF Unlock, mx!Release, Go, Coming
  <2> QED
    BY <1>5, <2>1 DEF Unlock, mx!Release, NoLostSignal
<1>6. CASE WaitMax(t)
  <2>1. Coming(Consumer)' = Coming(Consumer)
    BY <1>6 DEF WaitMax, mx!Wait, Coming
  <2>2. Cardinality(Coming(Producer)') \in Nat
    BY <1>2, FS_CardinalityType
  <2> QED
    BY <1>6, <2>1, <2>2 DEF WaitMax, mx!Wait, Full, NoLostSignal
<1>7. CASE WaitMin(t)
  <2>1. Coming(Producer)' = Coming(Producer)
    BY <1>7 DEF WaitMin, mx!Wait, Coming
  <2>2. Cardinality(Coming(Consumer)') \in Nat
    BY <1>2, FS_CardinalityType
  <2> QED
    BY <1>7, <2>1, <2>2 DEF WaitMin, mx!Wait, Empty, NoLostSignal
<1>8. CASE Produce(t)
  <2>1. Signalled("MIN")
    BY <1>8 DEF Produce, mx!Signal, mx!Wake, mx!vars, Signalled
  <2>2. t \in Coming(Producer) /\ Coming(Producer)' = Coming(Producer) \ {t}
    BY <1>8, <2>1 DEF Produce, Go, Signalled, Coming
  <2>3. Cardinality(Coming(Producer)') = Cardinality(Coming(Producer)) - 1
    BY <1>2, <2>2, CountRemove
  <2>4. CASE waiters["MIN"] = {}
    BY <1>8, <2>1, <2>3, <2>4, <1>2 DEF Produce, Signalled, NoLostSignal
  <2>5. CASE waiters["MIN"] # {}
    <3>1. PICK s \in waiters["MIN"] :
            /\ waiters' = [waiters EXCEPT !["MIN"] = @ \ {s}]
            /\ lockers' = lockers \cup {s}
      BY <2>1, <2>5 DEF Signalled
    <3>2. s \notin Coming(Consumer) /\ Coming(Consumer)' = Coming(Consumer) \cup {s}
      BY <1>8, <2>1, <3>1 DEF Produce, Go, Signalled, Coming
    <3>3. Cardinality(Coming(Consumer)') = Cardinality(Coming(Consumer)) + 1
      BY <1>2, <3>2, CountAdd
    <3> QED
      BY <1>2, <1>8, <2>3, <2>5, <3>1, <3>3 DEF Produce, NoLostSignal
  <2> QED
    BY <2>4, <2>5
<1>9. CASE Consume(t)
  <2>1. Signalled("MAX")
    BY <1>9 DEF Consume, mx!Signal, mx!Wake, mx!vars, Signalled
  <2>2. t \in Coming(Consumer) /\ Coming(Consumer)' = Coming(Consumer) \ {t}
    BY <1>9, <2>1 DEF Consume, Go, Signalled, Coming
  <2>3. Cardinality(Coming(Consumer)') = Cardinality(Coming(Consumer)) - 1
    BY <1>2, <2>2, CountRemove
  <2>4. CASE waiters["MAX"] = {}
    BY <1>9, <2>1, <2>3, <2>4, <1>2 DEF Consume, Signalled, NoLostSignal
  <2>5. CASE waiters["MAX"] # {}
    <3>1. PICK s \in waiters["MAX"] :
            /\ waiters' = [waiters EXCEPT !["MAX"] = @ \ {s}]
            /\ lockers' = lockers \cup {s}
      BY <2>1, <2>5 DEF Signalled
    <3>2. s \notin Coming(Producer) /\ Coming(Producer)' = Coming(Producer) \cup {s}
      BY <1>9, <2>1, <3>1 DEF Consume, Go, Signalled, Coming
    <3>3. Cardinality(Coming(Producer)') = Cardinality(Coming(Producer)) + 1
      BY <1>2, <3>2, CountAdd
    <3> QED
      BY <1>2, <1>9, <2>3, <2>5, <3>1, <3>3 DEF Consume, NoLostSignal
  <2> QED
    BY <2>4, <2>5
<1> QED
  BY <1>1, <1>3, <1>4, <1>5, <1>6, <1>7, <1>8, <1>9 DEF Step

\* The invariant is inductive.
LEMMA Inductive == Spec => []IInv
<1>1. Init => IInv
  BY InitIInv
<1>2. IInv /\ [Next]_vars => IInv'
  <2> SUFFICES ASSUME IInv, [Next]_vars PROVE IInv'
    OBVIOUS
  <2>1. CASE Next
    <3>1. TypeOK' /\ Placed'
      BY <2>1, NextPlaced DEF IInv
    <3>2. ItemsInRange'
      BY <2>1, NextRange DEF IInv
    <3>3. NoLostSignal'
      BY <2>1, <3>1, <3>2, NextNoLostSignal
    <3> QED
      BY <3>1, <3>2, <3>3 DEF IInv
  <2>2. CASE UNCHANGED vars
    BY <2>2 DEF vars, monitor, IInv, TypeOK, Placed, ItemsInRange, NoLostSignal, Coming
  <2> QED
    BY <2>1, <2>2
<1> QED
  BY <1>1, <1>2, PTL DEF Spec

\* The counter stays within 0 .. MAX_ITEMS, so that the asserts of producer and consumer
\* in pc.c hold.
THEOREM Bounded == Spec => []ItemsInRange
<1>1. IInv => ItemsInRange
  BY DEF IInv
<1> QED
  BY <1>1, Inductive, PTL

\* Every free slot and every item for which somebody waits is about to be looked at, so
\* that signalling one thread for each change suffices in pc.c.
THEOREM NoSignalLost == Spec => []NoLostSignal
<1>1. IInv => NoLostSignal
  BY DEF IInv
<1> QED
  BY <1>1, Inductive, PTL
=============================================================================
