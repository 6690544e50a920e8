------------------------------ MODULE SolnWell ------------------------------
(***************************************************************************)
(* soln/well.c: the well with a count of entries since somebody of the      *)
(* other endianness began to wait; from FAIR_WAITING_COUNT on, the kind     *)
(* inside lets nobody of its own in any more while the others wait.         *)
(* waitersCount follows from pc: it counts who is in uthread_cond_wait.     *)
(***************************************************************************)
EXTENDS Integers, FiniteSets

CONSTANTS Little, Big, MAX_OCCUPANCY, NUM_ITERATIONS, FAIR_WAITING_COUNT

VARIABLES
  g,     \* struct Well
  my,    \* the loop counter
  pc,
  writers, readers, lockers, rlockers, waiters

monitor == <<writers, readers, lockers, rlockers, waiters>>
vars == <<g, my, pc, monitor>>

Thread == Little \cup Big
Cond == {"LITTLE", "BIG"}   \* canEnter
Endianness(p) == IF p \in Big THEN "BIG" ELSE "LITTLE"
oppositeEnd(e) == IF e = "BIG" THEN "LITTLE" ELSE "BIG"

mx == INSTANCE Monitor

Init ==
  /\ g = [occupantCount |-> 0, occupantEndianness |-> "LITTLE", outEndiannessWaitingCount |-> 0]
  /\ my = [p \in Thread |-> 0]
  /\ pc = [p \in Thread |-> "outside"]
  /\ mx!Init

waitersCount(e) == Cardinality({p \in Thread : pc[p] = "waiting" /\ Endianness(p) = e})
waitingNotFair == g.outEndiannessWaitingCount = FAIR_WAITING_COUNT

Entering(p) ==
  \/ pc[p] = "outside" /\ my[p] < NUM_ITERATIONS
  \/ pc[p] = "waiting" /\ p \in lockers

\* Mistake: an empty well may be full of its own kind.
MayEnter_AnyRoom(p) ==
  g.occupantCount = 0 \/ g.occupantCount < MAX_OCCUPANCY

MayEnter(p) ==
  LET e == Endianness(p) IN
    \/ g.occupantCount = 0
    \/ /\ g.occupantCount < MAX_OCCUPANCY
       /\ g.occupantEndianness = e
       /\ ~(waitersCount(oppositeEnd(e)) > 0 /\ waitingNotFair)

\* Only whether it has reached FAIR_WAITING_COUNT matters of this count.
NextCount(p) ==
  IF g.occupantEndianness # Endianness(p) THEN 0
  ELSE IF waitingNotFair THEN FAIR_WAITING_COUNT ELSE g.outEndiannessWaitingCount + 1

enterWell(p) ==
  /\ Entering(p) /\ MayEnter(p)
  /\ g' = [occupantCount |-> g.occupantCount + 1, occupantEndianness |-> Endianness(p),
           outEndiannessWaitingCount |-> NextCount(p)]
  /\ pc' = [pc EXCEPT ![p] = "inside"]
  /\ UNCHANGED my
  /\ mx!Section(p, {})

\* A woken thread leaves the waiters before it tests, so that the first of them may be itself.
StayOut(p) ==
  /\ Entering(p) /\ ~MayEnter(p)
  /\ LET others == waitersCount(Endianness(p)) - (IF pc[p] = "waiting" THEN 1 ELSE 0) IN
     g' = [g EXCEPT !.outEndiannessWaitingCount =
             IF g.occupantEndianness # Endianness(p) /\ others = 0 THEN 0 ELSE @]
  /\ pc' = [pc EXCEPT ![p] = "waiting"]
  /\ UNCHANGED my
  /\ mx!SectionWait(p, {}, Endianness(p))

\* Up to MAX_OCCUPANCY of the others once the well is empty, or one of the kind inside.
Woken ==
  LET in == g.occupantEndianness
      out == oppositeEnd(in)
  IN  IF waitersCount(out) > 0 /\ (waitingNotFair \/ waitersCount(in) = 0)
      THEN IF g.occupantCount = 1
           THEN {s \in SUBSET waiters[out] :
                   \/ Cardinality(s) = MAX_OCCUPANCY
                   \/ s = waiters[out] /\ Cardinality(s) < MAX_OCCUPANCY}
           ELSE {{}}
      ELSE IF waitersCount(in) > 0 THEN mx!Signalled(in) ELSE {{}}

leaveWell(p) ==
  /\ pc[p] = "inside"
  /\ \E woken \in Woken : mx!Section(p, woken)
  /\ g' = [g EXCEPT !.occupantCount = @ - 1]
  /\ pc' = [pc EXCEPT ![p] = "outside"]
  /\ my' = [my EXCEPT ![p] = @ + 1]

person(p) == enterWell(p) \/ StayOut(p) \/ leaveWell(p)

Finished == \A p \in Thread : my[p] = NUM_ITERATIONS

Next == \E p \in Thread : person(p)

Spec == Init /\ [][Next]_vars /\ (\A p \in Thread : WF_vars(person(p)))
-----------------------------------------------------------------------------
Inside == {p \in Thread : pc[p] = "inside"}

\* Who believes to be inside: never more than the well holds and never of both kinds.
WellRule ==
  /\ g.occupantCount = Cardinality(Inside) /\ g.occupantCount =< MAX_OCCUPANCY
  /\ Inside \subseteq Little \/ Inside \subseteq Big

\* Nobody waits at an empty well unless somebody that was woken will look at it.
NobodyStranded == g.occupantCount = 0 /\ mx!Waiting # {} => lockers # {}
=============================================================================
