---------------------------- MODULE ProofLemmas -----------------------------
(***************************************************************************)
(* Lemmas that several proofs need: induction on the numbers and functions  *)
(* defined by recursion, what the operators of UThreadQueue do to a queue,  *)
(* and what a step of one thread does to the number of threads at some      *)
(* places.                                                                  *)
(***************************************************************************)
EXTENDS UThreadQueue, Integers, FiniteSetTheorems, TLAPS

(***************************************************************************)
(* Numbers                                                                 *)
(***************************************************************************)
\* A set of numbers that holds 0 and, with each number, the next, holds all: else the numbers in it
\* up to one that is missing would be as many as those of them that are not 0.
LEMMA Induction ==
  ASSUME NEW A, A \subseteq Nat, 0 \in A, \A n \in A : n + 1 \in A
  PROVE  A = Nat
<1> SUFFICES ASSUME NEW k \in Nat, k \notin A PROVE FALSE
  OBVIOUS
<1> DEFINE S == {n \in A : n < k}
           next == [n \in S |-> n + 1]
<1>1. \A n \in S : n \in 0 .. k
  OBVIOUS
<1>2. IsFiniteSet(S) /\ 0 \in S
  <2>1. IsFiniteSet(0 .. k)
    BY FS_Interval
  <2>2. k # 0
    OBVIOUS
  <2>3. QED
    <3>1. S \in SUBSET (0 .. k)
      BY <1>1
    <3>2. 0 \in S
      BY <2>2
    <3> HIDE DEF S
    <3> QED
      BY <2>1, <3>1, <3>2, FS_Subset
<1>3. IsFiniteSet(S \ {0}) /\ Cardinality(S \ {0}) = Cardinality(S) - 1 /\ Cardinality(S) \in Nat
  BY <1>2, FS_RemoveElement, FS_CardinalityType
<1>4. \A n \in S : n + 1 \in S \ {0} /\ n \in Nat
  <2> TAKE n \in S
  <2>1. n \in Nat /\ n < k /\ n + 1 \in A
    OBVIOUS
  <2>2. n + 1 # k
    BY <2>1
  <2> QED
    BY <2>1, <2>2
<1>5. next \in [S -> S \ {0}]
  BY <1>4
<1>6. Cardinality(S \ {0}) < Cardinality(S)
  BY <1>3
<1> HIDE DEF S
<1>7. \E x, y \in S : x # y /\ next[x] = next[y]
  <2> HIDE DEF next
  <2> QED
    BY <1>2, <1>3, <1>5, <1>6, FS_PigeonHole
<1> QED
  BY <1>4, <1>7

\* The functions on the numbers to n that take each step of a recursion.
Runs(base, step, n) ==
  {f \in [0 .. n -> DOMAIN step[0]] :
     f[0] = base /\ \A m \in 0 .. n - 1 : f[m + 1] = step[m][f[m]]}

\* Those on all numbers.
Recursive(S, base, step) ==
  {F \in [Nat -> S] : F[0] = base /\ \A n \in Nat : F[n + 1] = step[n][F[n]]}

\* A function can be defined on the numbers by its first value and its next.
LEMMA Recursion ==
  ASSUME NEW S, NEW base \in S, NEW step \in [Nat -> [S -> S]]
  PROVE  Recursive(S, base, step) # {}
<1>0. DOMAIN step[0] = S
  OBVIOUS
<1>1. \A n \in Nat : Runs(base, step, n) # {}
  <2> DEFINE A == {n \in Nat : Runs(base, step, n) # {}}
  <2>1. 0 \in A
    <3> DEFINE f == [m \in 0 .. 0 |-> base]
    <3>1. f \in Runs(base, step, 0)
      BY <1>0 DEF Runs
    <3> QED
      BY <3>1
  <2>2. ASSUME NEW n \in A PROVE n + 1 \in A
    <3>1. PICK f \in Runs(base, step, n) : TRUE
      OBVIOUS
    <3> DEFINE g == [m \in 0 .. n + 1 |-> IF m = n + 1 THEN step[n][f[n]] ELSE f[m]]
    <3>n. n \in Nat
      OBVIOUS
    <3>2. f \in [0 .. n -> S] /\ f[0] = base /\ \A m \in 0 .. n - 1 : f[m + 1] = step[m][f[m]]
      BY <1>0 DEF Runs
    <3>3. step[n][f[n]] \in S
      BY <3>n, <3>2
    <3>4. g \in [0 .. n + 1 -> S]
      BY <3>n, <3>2, <3>3
    <3>5. g[0] = base
      BY <3>n, <3>2
    <3>6. ASSUME NEW m \in 0 .. n PROVE g[m + 1] = step[m][g[m]]
      <4>1. g[m] = f[m] /\ m + 1 \in 0 .. n + 1
        BY <3>n
      <4>2. CASE m = n
        BY <3>n, <4>1, <4>2
      <4>3. CASE m # n
        <5>1. m \in 0 .. n - 1 /\ m + 1 # n + 1
          BY <3>n, <4>3
        <5>2. g[m + 1] = f[m + 1]
          BY <4>1, <5>1
        <5> QED
          BY <3>2, <4>1, <5>1, <5>2
      <4> QED
        BY <4>2, <4>3
    <3> HIDE DEF g
    <3>7. g \in Runs(base, step, n + 1)
      BY <1>0, <3>n, <3>4, <3>5, <3>6 DEF Runs
    <3> QED
      BY <3>n, <3>7
  <2> HIDE DEF A
  <2>3. A \subseteq Nat
    BY DEF A
  <2>4. A = Nat
    BY <2>1, <2>2, <2>3, Induction
  <2> QED
    BY <2>4 DEF A
<1>2. ASSUME NEW n \in Nat, NEW k \in Nat, n =< k,
             NEW f \in Runs(base, step, n), NEW g \in Runs(base, step, k)
      PROVE  f[n] = g[n]
  <2> DEFINE A == {m \in Nat : m =< n => f[m] = g[m]}
  <2>0. /\ f[0] = base /\ \A m \in 0 .. n - 1 : f[m + 1] = step[m][f[m]]
        /\ g[0] = base /\ \A m \in 0 .. k - 1 : g[m + 1] = step[m][g[m]]
    BY DEF Runs
  <2>1. 0 \in A
    BY <2>0
  <2>2. ASSUME NEW m \in A PROVE m + 1 \in A
    <3>1. m \in Nat /\ (m =< n => f[m] = g[m])
      OBVIOUS
    <3>2. m + 1 =< n => m \in 0 .. n - 1 /\ m \in 0 .. k - 1
      BY <1>2, <3>1
    <3> QED
      BY <2>0, <3>1, <3>2
  <2> HIDE DEF A
  <2>3. A \subseteq Nat
    BY DEF A
  <2>4. A = Nat
    BY <2>1, <2>2, <2>3, Induction
  <2> QED
    BY <2>4 DEF A
<1> DEFINE run(n) == CHOOSE f \in Runs(base, step, n) : TRUE
           F == [n \in Nat |-> run(n)[n]]
<1>3. \A n \in Nat : run(n) \in Runs(base, step, n)
  BY <1>1
<1> HIDE DEF run
<1>4. \A n \in Nat : run(n)[n] \in S /\ run(n)[0] = base
  BY <1>0, <1>3 DEF Runs
<1>5. ASSUME NEW n \in Nat PROVE F[n + 1] = step[n][F[n]]
  <2>1. run(n + 1) \in Runs(base, step, n + 1) /\ run(n) \in Runs(base, step, n) /\ n + 1 \in Nat
    BY <1>3
  <2>2. run(n + 1)[n + 1] = step[n][run(n + 1)[n]]
    <3>1. n \in 0 .. (n + 1) - 1
      OBVIOUS
    <3> QED
      BY <2>1, <3>1 DEF Runs
  <2>3. run(n)[n] = run(n + 1)[n]
    BY <1>2, <2>1
  <2> QED
    BY <2>1, <2>2, <2>3
<1>6. F \in [Nat -> S] /\ F[0] = base
  BY <1>4
<1> HIDE DEF F
<1>7. F \in Recursive(S, base, step)
  BY <1>5, <1>6 DEF Recursive
<1> QED
  BY <1>7

(***************************************************************************)
(* Thread queues                                                           *)
(***************************************************************************)
\* uthread_enqueue keeps the type of a queue.
LEMMA EnqueueType ==
  ASSUME NEW S, NEW queue \in Seq(S), NEW thread \in S
  PROVE  uthread_enqueue(queue, thread) \in Seq(S)
BY DEF uthread_enqueue

\* uthread_enqueue adds the thread, and only it.
LEMMA EnqueueSet ==
  ASSUME NEW S, NEW queue \in Seq(S), NEW thread \in S
  PROVE  Queued(uthread_enqueue(queue, thread)) = Queued(queue) \cup {thread}
<1>1. CASE thread \in Queued(queue)
  BY <1>1 DEF uthread_enqueue
<1>2. CASE thread \notin Queued(queue)
  <2> DEFINE q == Append(queue, thread)
  <2>1. /\ DOMAIN q = 1 .. Len(queue) + 1
        /\ DOMAIN queue = 1 .. Len(queue)
        /\ Len(queue) \in Nat
        /\ \A i \in DOMAIN queue : q[i] = queue[i]
        /\ q[Len(queue) + 1] = thread
    OBVIOUS
  <2>2. Queued(q) = Queued(queue) \cup {thread}
    <3>1. ASSUME NEW i \in DOMAIN q PROVE q[i] \in Queued(queue) \cup {thread}
      <4>1. i \in DOMAIN queue \/ i = Len(queue) + 1
        BY <2>1
      <4> QED
        BY <2>1, <4>1 DEF Queued
    <3>2. \A i \in DOMAIN queue : i \in DOMAIN q
      BY <2>1
    <3>3. Len(queue) + 1 \in DOMAIN q
      BY <2>1
    <3> QED
      BY <2>1, <3>1, <3>2, <3>3 DEF Queued
  <2> QED
    BY <1>2, <2>2 DEF uthread_enqueue
<1> QED
  BY <1>1, <1>2

\* uthread_enqueue never puts a thread in a queue twice.
LEMMA EnqueueNoDuplicates ==
  ASSUME NEW S, NEW queue \in Seq(S), NEW thread \in S, NoDuplicates(queue)
  PROVE  NoDuplicates(uthread_enqueue(queue, thread))
BY DEF uthread_enqueue, NoDuplicates, Queued

\* uthread_dequeue removes the thread that it returns, and only that one.
LEMMA DequeueSet ==
  ASSUME NEW S, NEW queue \in Seq(S), NoDuplicates(queue)
  PROVE  /\ NoDuplicates(Dequeued(queue))
         /\ Queued(Dequeued(queue)) = Queued(queue) \ uthread_dequeue(queue)
         /\ uthread_dequeue(queue) \subseteq Queued(queue)
<1>1. CASE queue = <<>>
  BY <1>1 DEF Dequeued, uthread_dequeue, Queued
<1>2. CASE queue # <<>>
  <2> DEFINE q == Tail(queue)
  <2>1. /\ Len(queue) \in Nat \ {0}
        /\ DOMAIN queue = 1 .. Len(queue)
        /\ DOMAIN q = 1 .. Len(queue) - 1
        /\ \A i \in DOMAIN q : q[i] = queue[i + 1]
        /\ Head(queue) = queue[1]
    BY <1>2
  <2> HIDE DEF q
  <2>2. NoDuplicates(q)
    <3> SUFFICES ASSUME NEW i \in DOMAIN q, NEW j \in DOMAIN q, q[i] = q[j]
                 PROVE  i = j
      BY DEF NoDuplicates
    <3>1. i + 1 \in DOMAIN queue /\ j + 1 \in DOMAIN queue
      BY <2>1
    <3>2. i + 1 = j + 1
      BY <2>1, <3>1 DEF NoDuplicates
    <3> QED
      BY <2>1, <3>2
  <2>3. Queued(q) = Queued(queue) \ {Head(queue)}
    <3>1. ASSUME NEW i \in DOMAIN q
          PROVE  q[i] \in Queued(queue) /\ q[i] # Head(queue)
      <4>1. i + 1 \in DOMAIN queue /\ 1 \in DOMAIN queue /\ i + 1 # 1
        BY <2>1
      <4> QED
        BY <2>1, <4>1 DEF Queued, NoDuplicates
    <3>2. ASSUME NEW i \in DOMAIN queue, queue[i] # Head(queue)
          PROVE  queue[i] \in Queued(q)
      <4>1. i # 1
        BY <2>1, <3>2
      <4>2. i - 1 \in DOMAIN q /\ q[i - 1] = queue[i]
        BY <2>1, <4>1
      <4> QED
        BY <4>2 DEF Queued
    <3>3. Queued(q) \subseteq Queued(queue) \ {Head(queue)}
      BY <3>1 DEF Queued
    <3>4. Queued(queue) \ {Head(queue)} \subseteq Queued(q)
      BY <3>2 DEF Queued
    <3> QED
      BY <3>3, <3>4
  <2>4. Head(queue) \in Queued(queue)
    BY <2>1 DEF Queued
  <2> QED
    BY <1>2, <2>2, <2>3, <2>4 DEF Dequeued, uthread_dequeue, q
<1> QED
  BY <1>1, <1>2

\* uthread_dequeue keeps the type of a queue and returns one of its threads.
LEMMA DequeueType ==
  ASSUME NEW S, NEW queue \in Seq(S)
  PROVE  /\ Dequeued(queue) \in Seq(S)
         /\ uthread_dequeue(queue) \subseteq S
         /\ uthread_dequeue(queue) = {} <=> queue = <<>>
<1>1. CASE queue = <<>>
  BY <1>1 DEF Dequeued, uthread_dequeue
<1>2. CASE queue # <<>>
  <2>1. Head(queue) \in S /\ Tail(queue) \in Seq(S)
    BY <1>2
  <2> QED
    BY <1>2, <2>1 DEF Dequeued, uthread_dequeue
<1> QED
  BY <1>1, <1>2

(***************************************************************************)
(* Counting the threads in some places of pc                               *)
(***************************************************************************)
\* How many threads of Group are at one of the places.
CountIn(Group, f, places) == Cardinality({t \in Group : f[t] \in places})

\* Finitely many threads have a count.
LEMMA CountType ==
  ASSUME NEW Group, IsFiniteSet(Group), NEW f, NEW places
  PROVE  /\ IsFiniteSet({t \in Group : f[t] \in places})
         /\ CountIn(Group, f, places) \in Nat
         /\ CountIn(Group, f, places) = 0 <=> \A t \in Group : f[t] \notin places
BY FS_Subset, FS_CardinalityType, FS_EmptySet DEF CountIn

\* What a step of thread t does to a count: it leaves some places and comes to others.
LEMMA CountMove ==
  ASSUME NEW Group, IsFiniteSet(Group), NEW T, Group \subseteq T, NEW f, f = [u \in T |-> f[u]],
         NEW t \in T, NEW b, NEW places
  PROVE  CountIn(Group, [f EXCEPT ![t] = b], places) =
           CountIn(Group, f, places)
             + (IF t \in Group /\ b \in places THEN 1 ELSE 0)
             - (IF t \in Group /\ f[t] \in places THEN 1 ELSE 0)
<1> DEFINE next == [f EXCEPT ![t] = b]
           old == {u \in Group : f[u] \in places}
           new == {u \in Group : next[u] \in places}
<1> SUFFICES Cardinality(new) =
               Cardinality(old)
                 + (IF t \in Group /\ b \in places THEN 1 ELSE 0)
                 - (IF t \in Group /\ f[t] \in places THEN 1 ELSE 0)
  BY DEF CountIn
<1>1. \A u \in Group : next[u] = IF u = t THEN b ELSE f[u]
  OBVIOUS
<1>2. /\ IsFiniteSet(old) /\ IsFiniteSet(new)
      /\ Cardinality(old) \in Nat
  BY FS_Subset, FS_CardinalityType
<1> HIDE DEF next
<1>3. CASE t \in Group /\ b \in places /\ f[t] \notin places
  <2>1. new = old \cup {t} /\ t \notin old
    BY <1>1, <1>3
  <2>2. Cardinality(new) = Cardinality(old) + 1
    BY <1>2, <2>1, FS_AddElement
  <2> HIDE DEF new, old
  <2> QED
    BY <1>2, <1>3, <2>2
<1>4. CASE t \in Group /\ b \notin places /\ f[t] \in places
  <2>1. new = old \ {t} /\ t \in old
    BY <1>1, <1>4
  <2> HIDE DEF new, old
  <2>2. Cardinality(old \ {t}) = Cardinality(old) - 1
    BY <1>2, <2>1, FS_RemoveElement
  <2> QED
    BY <1>2, <1>4, <2>1, <2>2
<1>5. CASE t \notin Group \/ (b \in places <=> f[t] \in places)
  <2>1. Cardinality(new) = Cardinality(old)
    BY <1>1, <1>5
  <2> HIDE DEF new, old
  <2> QED
    BY <1>2, <1>5, <2>1
<1> QED
  BY <1>3, <1>4, <1>5
=============================================================================
