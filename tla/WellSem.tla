------------------------------ MODULE WellSem ------------------------------
(***************************************************************************)
(* soln/well_sem.c: whoever leaves the well lets others in on their behalf, *)
(* counts them and passes each a permit.  The semaphore mutex is only held  *)
(* over statements that do not wait, which are one step together.           *)
(***************************************************************************)
EXTENDS Integers, FiniteSets

CONSTANTS Little, Big, MAX_OCCUPANCY, NUM_ITERATIONS

VARIABLES
  g,    \* struct Well
  my,   \* the loop counter of each person
  pc,   \* "outside", "waiting" for canEnter, "inside"
  sem   \* canEnter

vars == <<g, my, pc, sem>>

Thread == Little \cup Big
Endianness(p) == IF p \in Big THEN "BIG" ELSE "LITTLE"
otherEndianness(e) == IF e = "BIG" THEN "LITTLE" ELSE "BIG"

INSTANCE Semaphores

Init ==
  /\ g = [occupantCount |-> 0, occupantEndianness |-> "LITTLE",
          waitersCount |-> [LITTLE |-> 0, BIG |-> 0]]
  /\ my = [p \in Thread |-> 0]
  /\ pc = [p \in Thread |-> "outside"]
  /\ sem = [LITTLE |-> 0, BIG |-> 0]

\* n more people of one endianness.
recordEntry(well, e, n) ==
  [well EXCEPT !.occupantCount = @ + n, !.occupantEndianness = IF n = 0 THEN @ ELSE e]

canEnter(p) ==
  \/ g.occupantCount = 0
  \/ /\ g.occupantCount < MAX_OCCUPANCY
     /\ g.occupantEndianness = Endianness(p)
     /\ g.waitersCount[otherEndianness(Endianness(p))] = 0

enterWell(p) ==
  /\ pc[p] = "outside" /\ my[p] < NUM_ITERATIONS
  /\ IF canEnter(p)
     THEN /\ g' = recordEntry(g, Endianness(p), 1)
          /\ pc' = [pc EXCEPT ![p] = "inside"]
     ELSE /\ g' = [g EXCEPT !.waitersCount[Endianness(p)] = @ + 1]
          /\ pc' = [pc EXCEPT ![p] = "waiting"]
  /\ UNCHANGED <<my, sem>>

LetIn(p) ==
  /\ pc[p] = "waiting"
  /\ P(Endianness(p))
  /\ pc' = [pc EXCEPT ![p] = "inside"]
  /\ UNCHANGED <<g, my>>

\* The loop tests i < waitersCount while it counts waitersCount down: half of them, rounded
\* up, and no more than MAX_OCCUPANCY.
Admitted(waiting) ==
  IF (waiting + 1) \div 2 > MAX_OCCUPANCY THEN MAX_OCCUPANCY ELSE (waiting + 1) \div 2

\* The well after n waiters of one endianness were counted out of the line and in.
Admit(well, e, n) == [recordEntry(well, e, n) EXCEPT !.waitersCount[e] = @ - n]

\* Mistake: waiters of the kind inside go first.
Turn_InsideFirst(well) ==
  LET in == well.occupantEndianness
      out == otherEndianness(in)
  IN  IF well.waitersCount[in] > 0 THEN <<in, 1>>
      ELSE IF well.occupantCount > 0 THEN <<out, 0>> ELSE <<out, Admitted(well.waitersCount[out])>>

\* Who is let in, and how many, by somebody who has just left.
Turn(well) ==
  LET in == well.occupantEndianness
      out == otherEndianness(in)
  IN  IF well.waitersCount[out] > 0
      THEN <<out, IF well.occupantCount = 0 THEN Admitted(well.waitersCount[out]) ELSE 0>>
      ELSE <<in, IF well.waitersCount[in] > 0 THEN 1 ELSE 0>>

leaveWell(p) ==
  /\ pc[p] = "inside"
  /\ LET left == [g EXCEPT !.occupantCount = @ - 1]
         e == Turn(left)[1]
         n == Turn(left)[2]
     IN  /\ g' = Admit(left, e, n)
         /\ sem' = [sem EXCEPT ![e] = @ + n]
  /\ pc' = [pc EXCEPT ![p] = "outside"]
  /\ my' = [my EXCEPT ![p] = @ + 1]

Step(p) == enterWell(p) \/ leaveWell(p)

Finished == \A p \in Thread : my[p] = NUM_ITERATIONS

Next == \E p \in Thread : Step(p) \/ LetIn(p)

\* A permit of canEnter lets some waiter in, not a given one.
Fairness ==
  /\ \A p \in Thread : WF_vars(Step(p))
  /\ WF_vars(\E p \in Little : LetIn(p)) /\ WF_vars(\E p \in Big : LetIn(p))

Spec == Init /\ [][Next]_vars /\ Fairness
-----------------------------------------------------------------------------
Inside == {p \in Thread : pc[p] = "inside"}
Waiting(e) == {p \in Thread : pc[p] = "waiting" /\ Endianness(p) = e}

\* People inside and those who have a permit to be are of one kind, not too many, and just
\* the ones that the well counts.
WellRule ==
  /\ \E e \in {"LITTLE", "BIG"} :
       /\ \A p \in Inside : Endianness(p) = e
       /\ sem[otherEndianness(e)] = 0
       /\ g.occupantCount = Cardinality(Inside) + sem[e]
  /\ g.occupantCount =< MAX_OCCUPANCY

\* Everybody in line is counted or has a permit, and at an empty well nobody is in line.
NobodyStranded ==
  /\ \A e \in {"LITTLE", "BIG"} : Cardinality(Waiting(e)) = g.waitersCount[e] + sem[e]
  /\ g.occupantCount = 0 => \A e \in {"LITTLE", "BIG"} : Waiting(e) = {}

\* While people wait at a well of the other kind, nobody of that kind walks in or is given a
\* permit: the well must change sides first.
TurnsKept ==
  \A e \in {"LITTLE", "BIG"} :
    g.waitersCount[otherEndianness(e)] > 0 /\ g.occupantEndianness = e /\ g'.occupantEndianness = e
      => g'.occupantCount =< g.occupantCount /\ sem'[e] =< sem[e]
=============================================================================
