-------------------------------- MODULE Well --------------------------------
(***************************************************************************)
(* well.c: people of two endiannesses share a well that holds a few people  *)
(* of one kind at a time.  Each call of enterWell and leaveWell is a        *)
(* section of the Monitor; who waited for FAIR_WAITING_COUNT entries waits  *)
(* on a condition of its own, which leaveWell serves first.  Of the ticker  *)
(* that counts entries the model keeps how much of it each person in line   *)
(* has seen, up to FAIR_WAITING_COUNT.                                      *)
(***************************************************************************)
EXTENDS Integers, FiniteSets

CONSTANTS Little, Big, MAX_OCCUPANCY, NUM_ITERATIONS, FAIR_WAITING_COUNT

VARIABLES
  g,     \* struct Well
  my,    \* the loop counter, and entryTicker - lineStart while in line
  pc,
  writers, readers, lockers, rlockers, waiters

monitor == <<writers, readers, lockers, rlockers, waiters>>
vars == <<g, my, pc, monitor>>

Thread == Little \cup Big
Cond == {"littleWaiting", "bigWaiting", "impatient_little", "impatient_big"}

mx == INSTANCE Monitor

Init ==
  /\ g = [endianness |-> 0, occupancy |-> 0, impatient_big_size |-> 0,
          impatient_little_size |-> 0]
  /\ my = [p \in Thread |-> [i |-> 0, seen |-> 0]]
  /\ pc = [p \in Thread |-> "outside"]
  /\ mx!Init

Go(p, place) == pc' = [pc EXCEPT ![p] = place]

is_wait(p) == IF p \in Little THEN g.endianness = 2 ELSE g.endianness = 1

MustWait(p) == g.occupancy >= MAX_OCCUPANCY \/ is_wait(p)

Impatient(p) == IF p \in Big THEN "impatient_big" ELSE "impatient_little"
Patient(p) == IF p \in Big THEN "bigWaiting" ELSE "littleWaiting"

\* The sizes count who is in uthread_cond_wait of an impatient condition, woken or not.
Resized(p, n) ==
  IF p \in Big THEN [g EXCEPT !.impatient_big_size = @ + n]
               ELSE [g EXCEPT !.impatient_little_size = @ + n]

\* The well as p finds it when it has the mutex.
AtTest(p) == IF pc[p] = "impatient" THEN Resized(p, -1) ELSE g

InLine == {"waiting", "impatient"}

\* p is at the head of enterWell, or was woken in it.
Entering(p) ==
  \/ pc[p] = "outside" /\ my[p].i < NUM_ITERATIONS
  \/ pc[p] \in InLine /\ p \in lockers

StayOut(p) ==
  /\ Entering(p) /\ MustWait(p)
  /\ UNCHANGED my
  /\ IF my[p].seen >= FAIR_WAITING_COUNT
     THEN /\ g' = IF pc[p] = "impatient" THEN g ELSE Resized(p, 1)
          /\ Go(p, "impatient")
          /\ mx!SectionWait(p, {}, Impatient(p))
     ELSE /\ g' = AtTest(p)
          /\ Go(p, "waiting")
          /\ mx!SectionWait(p, {}, Patient(p))

\* An entry is seen by everybody in line.
Seen(p, q) ==
  IF q = p THEN 0
  ELSE IF pc[q] \in InLine /\ my[q].seen < FAIR_WAITING_COUNT THEN my[q].seen + 1
  ELSE my[q].seen

enterWell(p) ==
  /\ Entering(p) /\ ~MustWait(p)
  /\ g' = [AtTest(p) EXCEPT
             !.endianness = IF g.occupancy # 0 THEN @ ELSE IF p \in Big THEN 2 ELSE 1,
             !.occupancy = @ + 1]
  /\ my' = [q \in Thread |-> [my[q] EXCEPT !.seen = Seen(p, q)]]
  /\ Go(p, "inside")
  /\ mx!Section(p, {})

\* Mistake: the last one wakes its own kind only.
Woken_OwnKind ==
  IF g.impatient_little_size > 0 \/ g.impatient_big_size > 0
  THEN IF g.impatient_big_size >= g.impatient_little_size
       THEN mx!Signalled("impatient_big") ELSE mx!Signalled("impatient_little")
  ELSE IF g.endianness = 2 THEN {waiters["bigWaiting"]} ELSE {waiters["littleWaiting"]}

\* Whom leaveWell wakes: one of the larger group of impatient people, or else all of the
\* kind inside, or all when the last one leaves.
Woken ==
  IF g.impatient_little_size > 0 \/ g.impatient_big_size > 0
  THEN IF g.impatient_big_size >= g.impatient_little_size
       THEN mx!Signalled("impatient_big") ELSE mx!Signalled("impatient_little")
  ELSE CASE g.endianness = 2 /\ g.occupancy # 1 -> {waiters["bigWaiting"]}
         [] g.endianness = 1 /\ g.occupancy # 1 -> {waiters["littleWaiting"]}
         [] OTHER -> {waiters["littleWaiting"] \cup waiters["bigWaiting"]}

leaveWell(p) ==
  /\ pc[p] = "inside"
  /\ \E woken \in Woken : mx!Section(p, woken)
  /\ g' = [g EXCEPT !.occupancy = @ - 1, !.endianness = IF g.occupancy = 1 THEN 0 ELSE @]
  /\ my' = [my EXCEPT ![p].i = @ + 1]
  /\ Go(p, "outside")

person(p) == StayOut(p) \/ enterWell(p) \/ leaveWell(p)

Finished == \A p \in Thread : my[p].i = NUM_ITERATIONS

Next == \E p \in Thread : person(p)

Spec == Init /\ [][Next]_vars /\ (\A p \in Thread : WF_vars(person(p)))
-----------------------------------------------------------------------------
Inside == {p \in Thread : pc[p] = "inside"}

\* Who believes to be inside: never more than the well holds, never of both kinds, and
\* the well knows them.
WellRule ==
  /\ g.occupancy = Cardinality(Inside) /\ g.occupancy =< MAX_OCCUPANCY
  /\ Inside \subseteq Little \/ Inside \subseteq Big
  /\ g.endianness = IF Inside = {} THEN 0 ELSE IF Inside \subseteq Big THEN 2 ELSE 1

\* Nobody waits at an empty well unless somebody, woken or just come, is about to look at it.
NobodyStranded == g.occupancy = 0 /\ mx!Waiting # {} => lockers # {}

\* The queue sizes, on which leaveWell decides whom to wake, count the impatient people.
QueueSizes ==
  LET impatient == {p \in Thread : pc[p] = "impatient"} IN
  /\ g.impatient_big_size = Cardinality(impatient \cap Big)
  /\ g.impatient_little_size = Cardinality(impatient \cap Little)
=============================================================================
