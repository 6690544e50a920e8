--------------------------- MODULE ProgramsProofs ---------------------------
(***************************************************************************)
(* What the programs of the suite keep, for any number of people, any       *)
(* limits and any number of iterations.  Each program has an inductive      *)
(* invariant of its own; those of the others say nothing while it runs.     *)
(***************************************************************************)
EXTENDS Programs, Sequences, ProofLemmas, FiniteSetTheorems, TLAPS


\* One place only.
LEMMA CountOne ==
  ASSUME NEW Group, NEW f, NEW place
  PROVE  CountIn(Group, f, {place}) = Cardinality({t \in Group : f[t] = place})
<1>1. {t \in Group : f[t] \in {place}} = {t \in Group : f[t] = place}
  OBVIOUS
<1> QED
  BY <1>1 DEF CountIn

\* The Cardinality that a program takes from FiniteSets is the one of this module.
LEMMA SameCardinality ==
  ASSUME NEW Group
  PROVE  /\ W!Cardinality(Group) = Cardinality(Group)
         /\ SW!Cardinality(Group) = Cardinality(Group)
         /\ WS!Cardinality(Group) = Cardinality(Group)
         /\ Pool!Cardinality(Group) = Cardinality(Group)
BY DEF Cardinality, W!Cardinality, SW!Cardinality, WS!Cardinality, Pool!Cardinality

Person == Little \cup Big

\* There are finitely many people.
LEMMA PersonFinite == IsFiniteSet(Person)
BY PeopleAssumption, FS_Union DEF Person

(***************************************************************************)
(* well.c                                                                  *)
(***************************************************************************)
\* The fields of struct Well.
WellVars ==
  /\ DOMAIN g = {"endianness", "occupancy", "impatient_big_size", "impatient_little_size"}
  /\ g.endianness \in 0 .. 2 /\ g.occupancy \in Int
  /\ g.impatient_big_size \in Int /\ g.impatient_little_size \in Int

WellType ==
  /\ WellVars
  /\ my \in [Person -> [i : Nat, seen : Nat]]
  /\ pc \in [Person -> {"outside", "waiting", "impatient", "inside"}]
  /\ writers = {} /\ readers = {}
  /\ lockers \subseteq Person
  /\ waiters \in [W!Cond -> SUBSET Person]

\* Who is in line waits on the condition of its kind and patience, or was woken there.
WellLine ==
  /\ \A p \in lockers : pc[p] \in W!InLine /\ \A c \in W!Cond : p \notin waiters[c]
  /\ \A p \in Person : pc[p] = "waiting" => p \in lockers \cup waiters[W!Patient(p)]
  /\ \A p \in Person : pc[p] = "impatient" => p \in lockers \cup waiters[W!Impatient(p)]
  /\ \A p \in waiters["littleWaiting"] : pc[p] = "waiting" /\ p \in Little
  /\ \A p \in waiters["bigWaiting"] : pc[p] = "waiting" /\ p \in Big
  /\ \A p \in waiters["impatient_little"] : pc[p] = "impatient" /\ p \in Little
  /\ \A p \in waiters["impatient_big"] : pc[p] = "impatient" /\ p \in Big

WellInv == WellType /\ WellLine /\ W!WellRule /\ W!QueueSizes /\ W!NobodyStranded

\* The sets of people that the invariants of the wells count, as counts of places.
LEMMA WellCounts ==
  ASSUME NEW f
  PROVE  /\ Cardinality({p \in Person : f[p] = "inside"}) = CountIn(Person, f, {"inside"})
         /\ Cardinality({p \in Person : f[p] = "impatient"} \cap Big) = CountIn(Big, f, {"impatient"})
         /\ Cardinality({p \in Person : f[p] = "impatient"} \cap Little) = CountIn(Little, f, {"impatient"})
         /\ {p \in Person : f[p] = "inside"} = {} <=> CountIn(Person, f, {"inside"}) = 0
<1>1. CountIn(Person, f, {"inside"}) = Cardinality({p \in Person : f[p] = "inside"})
  BY CountOne
<1>2. /\ {p \in Person : f[p] = "impatient"} \cap Big = {p \in Big : f[p] = "impatient"}
      /\ {p \in Person : f[p] = "impatient"} \cap Little = {p \in Little : f[p] = "impatient"}
  BY DEF Person
<1>3. {p \in Big : f[p] \in {"impatient"}} = {p \in Big : f[p] = "impatient"}
  OBVIOUS
<1>4. {p \in Little : f[p] \in {"impatient"}} = {p \in Little : f[p] = "impatient"}
  OBVIOUS
<1>5. CountIn(Person, f, {"inside"}) = 0 <=> \A p \in Person : f[p] # "inside"
  BY PersonFinite, CountType
<1> QED
  BY <1>1, <1>2, <1>3, <1>4, <1>5 DEF CountIn

\* What a step that moves p does to the counts.
WellMoved(p) ==
  /\ CountIn(Person, pc', {"inside"}) = CountIn(Person, pc, {"inside"})
       + (IF pc'[p] = "inside" THEN 1 ELSE 0) - (IF pc[p] = "inside" THEN 1 ELSE 0)
  /\ CountIn(Big, pc', {"impatient"}) = CountIn(Big, pc, {"impatient"})
       + (IF p \in Big /\ pc'[p] = "impatient" THEN 1 ELSE 0)
       - (IF p \in Big /\ pc[p] = "impatient" THEN 1 ELSE 0)
  /\ CountIn(Little, pc', {"impatient"}) = CountIn(Little, pc, {"impatient"})
       + (IF p \in Little /\ pc'[p] = "impatient" THEN 1 ELSE 0)
       - (IF p \in Little /\ pc[p] = "impatient" THEN 1 ELSE 0)
  /\ CountIn(Person, pc, {"inside"}) \in Nat
  /\ CountIn(Big, pc, {"impatient"}) \in Nat
  /\ CountIn(Little, pc, {"impatient"}) \in Nat

\* Every step that moves p does that.
LEMMA WellMove ==
  ASSUME NEW p \in Person, pc = [q \in Person |-> pc[q]], pc' = [pc EXCEPT ![p] = pc'[p]]
  PROVE  WellMoved(p)
<1> DEFINE place == pc'[p]
<1>1. pc = [q \in Person |-> pc[q]] /\ Big \subseteq Person /\ Little \subseteq Person
  BY DEF Person
<1>2. IsFiniteSet(Person) /\ IsFiniteSet(Big) /\ IsFiniteSet(Little)
  BY PersonFinite, PeopleAssumption
<1>3. CountIn(Person, pc', {"inside"}) = CountIn(Person, pc, {"inside"})
              + (IF p \in Person /\ place \in {"inside"} THEN 1 ELSE 0)
              - (IF p \in Person /\ pc[p] \in {"inside"} THEN 1 ELSE 0)
  BY <1>1, <1>2, CountMove
<1>4. CountIn(Big, pc', {"impatient"}) = CountIn(Big, pc, {"impatient"})
              + (IF p \in Big /\ place \in {"impatient"} THEN 1 ELSE 0)
              - (IF p \in Big /\ pc[p] \in {"impatient"} THEN 1 ELSE 0)
  BY <1>1, <1>2, CountMove
<1>5. CountIn(Little, pc', {"impatient"}) = CountIn(Little, pc, {"impatient"})
              + (IF p \in Little /\ place \in {"impatient"} THEN 1 ELSE 0)
              - (IF p \in Little /\ pc[p] \in {"impatient"} THEN 1 ELSE 0)
  BY <1>1, <1>2, CountMove
<1> QED
  BY <1>2, <1>3, <1>4, <1>5, CountType DEF WellMoved


\* The well is empty at first and all are outside.
LEMMA WellInit == W!Init => WellInv
<1> SUFFICES ASSUME W!Init PROVE WellInv
  OBVIOUS
<1> USE DEF W!Init, W!mx!Init
<1>1. WellType /\ WellLine
  BY DEF WellVars, WellType, WellLine, W!Thread, W!Cond, W!InLine, Person
<1>2. \A p \in Person : pc[p] = "outside"
  BY DEF W!Thread, Person
<1>3. W!Inside = {} /\ Cardinality(W!Inside) = 0
  BY <1>2, FS_EmptySet DEF W!Inside, W!Thread, Person
<1>4. W!WellRule
  BY <1>3, SameCardinality, LimitAssumption DEF W!WellRule
<1>5. CountIn(Big, pc, {"impatient"}) = 0 /\ CountIn(Little, pc, {"impatient"}) = 0
  BY <1>2, CountType, PeopleAssumption DEF Person
<1>6. W!QueueSizes
  BY <1>5, WellCounts, SameCardinality DEF W!QueueSizes, W!Thread, Person
<1>7. W!NobodyStranded
  BY DEF W!NobodyStranded, W!mx!Waiting, W!Cond
<1> QED
  BY <1>1, <1>4, <1>6, <1>7 DEF WellInv

\* Types and lines are kept by every step.
LEMMA WellStepLine ==
  ASSUME WellType, WellLine, W!Next
  PROVE  WellType' /\ WellLine'
<1>1. PICK p \in Person : W!person(p)
  BY DEF W!Next, W!Thread, Person
<1> USE DEF WellType, WellLine, Person, W!InLine, W!Go, W!Cond, W!Thread
<1>2. CASE W!StayOut(p)
  <2>1. WellVars'
    BY <1>2 DEF W!StayOut, W!AtTest, W!Resized, WellVars
  <2>2. WellType'
    BY <1>2, <2>1 DEF W!StayOut, W!mx!SectionWait
  <2>3. \A c \in W!Cond : p \notin waiters[c]
    BY <1>2 DEF W!StayOut, W!Entering
  <2>4. /\ pc[p] \in {"outside", "waiting", "impatient"}
        /\ lockers' = lockers \ {p}
    BY <1>2 DEF W!StayOut, W!Entering, W!mx!SectionWait
  <2>5. CASE my[p].seen >= FAIR_WAITING_COUNT
    <3> DEFINE c == IF p \in Big THEN "impatient_big" ELSE "impatient_little"
    <3>1. pc' = [pc EXCEPT ![p] = "impatient"]
      BY <1>2, <2>5 DEF W!StayOut
    <3>2. \A d \in W!Cond : waiters'[d] = waiters[d] \cup (IF d = c THEN {p} ELSE {})
      BY <1>2, <2>5 DEF W!StayOut, W!mx!SectionWait, W!Impatient
    <3> QED
      BY <2>2, <2>3, <2>4, <3>1, <3>2, PeopleAssumption DEF W!Patient, W!Impatient
  <2>6. CASE ~(my[p].seen >= FAIR_WAITING_COUNT)
    <3> DEFINE c == IF p \in Big THEN "bigWaiting" ELSE "littleWaiting"
    <3>1. pc' = [pc EXCEPT ![p] = "waiting"]
      BY <1>2, <2>6 DEF W!StayOut
    <3>2. \A d \in W!Cond : waiters'[d] = waiters[d] \cup (IF d = c THEN {p} ELSE {})
      BY <1>2, <2>6 DEF W!StayOut, W!mx!SectionWait, W!Patient
    <3> QED
      BY <2>2, <2>3, <2>4, <3>1, <3>2, PeopleAssumption DEF W!Patient, W!Impatient
  <2> QED
    BY <2>2, <2>5, <2>6
<1>3. CASE W!enterWell(p)
  <2>1. WellVars'
    BY <1>3 DEF W!enterWell, W!AtTest, W!Resized, WellVars
  <2>2. my' \in [Person -> [i : Nat, seen : Nat]]
    BY <1>3 DEF W!enterWell, W!Seen
  <2>3. WellType'
    BY <1>3, <2>1, <2>2 DEF W!enterWell, W!mx!Section
  <2>4. \A c \in W!Cond : p \notin waiters[c]
    BY <1>3 DEF W!enterWell, W!Entering
  <2>5. lockers' = lockers \ {p} /\ waiters' = waiters
    BY <1>3 DEF W!enterWell, W!mx!Section
  <2>6. WellLine'
    BY <1>3, <2>4, <2>5 DEF W!enterWell, W!Patient, W!Impatient
  <2> QED
    BY <2>3, <2>6
<1>4. CASE W!leaveWell(p)
  <2>1. PICK woken \in W!Woken : W!mx!Section(p, woken)
    BY <1>4 DEF W!leaveWell
  <2>2. \A q \in woken : \E c \in W!Cond : q \in waiters[c]
    BY <2>1 DEF W!Woken, W!mx!Signalled
  <2>3. WellVars'
    BY <1>4 DEF W!leaveWell, WellVars
  <2>4. my' \in [Person -> [i : Nat, seen : Nat]]
    BY <1>4 DEF W!leaveWell
  <2>5. WellType'
    BY <1>4, <2>1, <2>2, <2>3, <2>4 DEF W!leaveWell, W!mx!Section
  <2>6. \A c \in W!Cond : p \notin waiters[c]
    BY <1>4 DEF W!leaveWell
  <2>7. p \notin woken /\ p \notin lockers
    BY <1>4, <2>2, <2>6 DEF W!leaveWell
  <2>8. WellLine'
    BY <1>4, <2>1, <2>2, <2>7 DEF W!leaveWell, W!mx!Section, W!Patient, W!Impatient
  <2> QED
    BY <2>5, <2>8
<1> QED
  BY <1>1, <1>2, <1>3, <1>4 DEF W!person

\* The rule of the well and the sizes of its queues are kept by every step.
LEMMA WellStepRule ==
  ASSUME WellInv, W!Next
  PROVE  W!WellRule' /\ W!QueueSizes'
<1>1. PICK p \in Person : W!person(p)
  BY DEF W!Next, W!Thread, Person
<1>2. /\ WellType /\ WellLine
      /\ g.occupancy = CountIn(Person, pc, {"inside"})
      /\ g.occupancy =< MAX_OCCUPANCY
      /\ W!Inside \subseteq Little \/ W!Inside \subseteq Big
      /\ g.endianness = IF W!Inside = {} THEN 0 ELSE IF W!Inside \subseteq Big THEN 2 ELSE 1
      /\ g.impatient_big_size = CountIn(Big, pc, {"impatient"})
      /\ g.impatient_little_size = CountIn(Little, pc, {"impatient"})
  BY WellCounts, SameCardinality DEF WellInv, W!WellRule, W!QueueSizes, W!Inside, W!Thread, Person
<1>3. SUFFICES /\ g'.occupancy = CountIn(Person, pc', {"inside"})
               /\ g'.occupancy =< MAX_OCCUPANCY
               /\ W!Inside' \subseteq Little \/ W!Inside' \subseteq Big
               /\ g'.endianness = IF W!Inside' = {} THEN 0 ELSE IF W!Inside' \subseteq Big THEN 2 ELSE 1
               /\ g'.impatient_big_size = CountIn(Big, pc', {"impatient"})
               /\ g'.impatient_little_size = CountIn(Little, pc', {"impatient"})  BY WellCounts, SameCardinality DEF W!WellRule, W!QueueSizes, W!Inside, W!Thread, Person
<1>4. W!Inside = {} <=> g.occupancy = 0
  BY <1>2, WellCounts DEF W!Inside, W!Thread, Person
<1>5. /\ pc = [q \in Person |-> pc[q]]
      /\ g.occupancy \in Int /\ MAX_OCCUPANCY \in Nat \ {0}
      /\ g.impatient_big_size \in Int /\ g.impatient_little_size \in Int
      /\ DOMAIN g = {"endianness", "occupancy", "impatient_big_size", "impatient_little_size"}
  BY <1>2, LimitAssumption DEF WellType, WellVars, Person
<1>6. CASE W!StayOut(p)
  <2> DEFINE place == IF my[p].seen >= FAIR_WAITING_COUNT THEN "impatient" ELSE "waiting"
  <2>1. pc' = [pc EXCEPT ![p] = place] /\ pc[p] # "inside"
    BY <1>6 DEF W!StayOut, W!Go, W!Entering, W!InLine
  <2>2. /\ g'.occupancy = g.occupancy /\ g'.endianness = g.endianness
        /\ g'.impatient_big_size = g.impatient_big_size
             + (IF p \in Big /\ place = "impatient" THEN 1 ELSE 0)
             - (IF p \in Big /\ pc[p] = "impatient" THEN 1 ELSE 0)
        /\ g'.impatient_little_size = g.impatient_little_size
             + (IF p \in Little /\ place = "impatient" THEN 1 ELSE 0)
             - (IF p \in Little /\ pc[p] = "impatient" THEN 1 ELSE 0)
    BY <1>5, <1>6, <1>1, PeopleAssumption DEF Person, W!StayOut, W!Resized, W!AtTest
  <2>3. W!Inside' = W!Inside
    BY <1>1, <1>5, <2>1 DEF W!Inside, W!Thread, Person
  <2>4. place # "inside"
    OBVIOUS
  <2>5. pc'[p] = place
    BY <1>1, <1>5, <2>1
  <2>6. WellMoved(p)
    BY <1>1, <1>5, <2>1, <2>5, WellMove
  <2> HIDE DEF place
  <2> QED
    BY <1>1, <1>2, <2>1, <2>2, <2>3, <2>4, <2>5, <2>6 DEF WellMoved
<1>7. CASE W!enterWell(p)
  <2>1. /\ pc' = [pc EXCEPT ![p] = "inside"] /\ pc[p] # "inside" /\ ~W!MustWait(p)
        /\ pc'[p] = "inside"
    BY <1>1, <1>5, <1>7 DEF W!enterWell, W!Go, W!Entering, W!InLine
  <2>2. /\ g'.occupancy = g.occupancy + 1
        /\ g'.endianness =
             IF g.occupancy # 0 THEN g.endianness ELSE IF p \in Big THEN 2 ELSE 1
        /\ g'.impatient_big_size = g.impatient_big_size
             - (IF p \in Big /\ pc[p] = "impatient" THEN 1 ELSE 0)
        /\ g'.impatient_little_size = g.impatient_little_size
             - (IF p \in Little /\ pc[p] = "impatient" THEN 1 ELSE 0)
    BY <1>5, <1>7, <1>1, PeopleAssumption DEF Person, W!enterWell, W!Resized, W!AtTest
  <2>3. W!Inside' = W!Inside \cup {p}
    BY <1>1, <1>5, <2>1 DEF W!Inside, W!Thread, Person
  <2>4. g'.occupancy =< MAX_OCCUPANCY
    BY <1>5, <2>1, <2>2 DEF W!MustWait
  <2>5. /\ W!Inside' \subseteq Little \/ W!Inside' \subseteq Big
        /\ g'.endianness = IF W!Inside' = {} THEN 0 ELSE IF W!Inside' \subseteq Big THEN 2 ELSE 1
    BY <1>1, <1>2, <1>4, <2>1, <2>2, <2>3, PeopleAssumption DEF Person, W!MustWait, W!is_wait
  <2>6. WellMoved(p)
    BY <1>1, <1>5, <2>1, WellMove
  <2> QED
    BY <1>1, <1>2, <2>1, <2>2, <2>4, <2>5, <2>6 DEF WellMoved
<1>8. CASE W!leaveWell(p)
  <2>1. pc' = [pc EXCEPT ![p] = "outside"] /\ pc[p] = "inside" /\ pc'[p] = "outside"
    BY <1>1, <1>5, <1>8 DEF W!leaveWell, W!Go
  <2>2. /\ g'.occupancy = g.occupancy - 1
        /\ g'.endianness = IF g.occupancy = 1 THEN 0 ELSE g.endianness
        /\ g'.impatient_big_size = g.impatient_big_size
        /\ g'.impatient_little_size = g.impatient_little_size
    BY <1>5, <1>8 DEF W!leaveWell
  <2>3. W!Inside' = W!Inside \ {p} /\ p \in W!Inside
    BY <1>1, <1>5, <2>1 DEF W!Inside, W!Thread, Person
  <2>4. CountIn(Person, pc', {"inside"}) = CountIn(Person, pc, {"inside"}) - 1
        /\ CountIn(Big, pc', {"impatient"}) = CountIn(Big, pc, {"impatient"})
        /\ CountIn(Little, pc', {"impatient"}) = CountIn(Little, pc, {"impatient"})
    <3>1. WellMoved(p)
      BY <1>1, <1>5, <2>1, WellMove
    <3> QED
      BY <1>1, <1>2, <2>1, <3>1 DEF WellMoved
  <2>5. W!Inside' = {} <=> g.occupancy = 1
    <3>1. W!Inside' = {} <=> CountIn(Person, pc', {"inside"}) = 0
      BY WellCounts DEF W!Inside, W!Thread, Person
    <3> QED
      BY <1>2, <1>5, <2>4, <3>1
  <2>6. /\ W!Inside' \subseteq Little \/ W!Inside' \subseteq Big
        /\ W!Inside' # {} => (W!Inside' \subseteq Big <=> W!Inside \subseteq Big)
    BY <1>2, <2>3, PeopleAssumption
  <2>7. g'.endianness = IF W!Inside' = {} THEN 0 ELSE IF W!Inside' \subseteq Big THEN 2 ELSE 1
    BY <1>2, <2>2, <2>3, <2>5, <2>6
  <2> QED
    BY <1>2, <1>5, <2>2, <2>4, <2>6, <2>7
<1> QED
  BY <1>1, <1>6, <1>7, <1>8 DEF W!person

\* Nobody is left waiting at the empty well: a size above 0 stands for a person that a signal
\* or the mutex can reach, and without impatient people all the others are woken.
LEMMA WellStepStranded ==
  ASSUME WellInv, W!Next
  PROVE  W!NobodyStranded'
<1>1. PICK p \in Person : W!person(p)
  BY DEF W!Next, W!Thread, Person
<1>2. /\ WellType /\ WellLine
      /\ g.occupancy = CountIn(Person, pc, {"inside"})
      /\ W!Inside = {} <=> CountIn(Person, pc, {"inside"}) = 0
      /\ g.endianness = IF W!Inside = {} THEN 0 ELSE IF W!Inside \subseteq Big THEN 2 ELSE 1
      /\ g.impatient_big_size = CountIn(Big, pc, {"impatient"})
      /\ g.impatient_little_size = CountIn(Little, pc, {"impatient"})
  BY WellCounts, SameCardinality
  DEF WellInv, W!WellRule, W!QueueSizes, W!Inside, W!Thread, Person
<1>3. /\ CountIn(Person, pc, {"inside"}) \in Nat
      /\ CountIn(Big, pc, {"impatient"}) \in Nat
      /\ CountIn(Little, pc, {"impatient"}) \in Nat
      /\ CountIn(Big, pc, {"impatient"}) = 0 <=> \A q \in Big : pc[q] \notin {"impatient"}
      /\ CountIn(Little, pc, {"impatient"}) = 0 <=> \A q \in Little : pc[q] \notin {"impatient"}
  BY PersonFinite, PeopleAssumption, CountType
<1>4. g.occupancy \in Nat /\ MAX_OCCUPANCY \in Nat \ {0}
      /\ DOMAIN g = {"endianness", "occupancy", "impatient_big_size", "impatient_little_size"}
  BY <1>2, <1>3, LimitAssumption DEF WellType, WellVars
<1>5. CASE W!StayOut(p)
  <2>1. g'.occupancy = g.occupancy
    BY <1>4, <1>5 DEF W!StayOut, W!Resized, W!AtTest
  <2>2. g.occupancy # 0
    BY <1>2, <1>4, <1>5 DEF W!StayOut, W!MustWait, W!is_wait
  <2> QED
    BY <2>1, <2>2 DEF W!NobodyStranded
<1>6. CASE W!enterWell(p)
  <2>1. g'.occupancy = g.occupancy + 1
    BY <1>4, <1>6 DEF W!enterWell, W!Resized, W!AtTest
  <2> QED
    BY <1>4, <2>1 DEF W!NobodyStranded
<1>7. CASE W!leaveWell(p)
  <2> SUFFICES ASSUME g'.occupancy = 0, lockers' = {}
               PROVE  W!mx!Waiting' = {}
    BY DEF W!NobodyStranded
  <2>1. g'.occupancy = g.occupancy - 1
    BY <1>4, <1>7 DEF W!leaveWell
  <2>2. PICK woken \in W!Woken : W!mx!Section(p, woken)
    BY <1>7 DEF W!leaveWell
  <2>3. p \notin lockers
    BY <1>2, <1>7 DEF W!leaveWell, WellLine, W!InLine
  <2>4. lockers = {} /\ woken = {}
    BY <2>2, <2>3 DEF W!mx!Section
  <2>5. \A q \in Person : pc[q] = "impatient" => q \in waiters[W!Impatient(q)]
    BY <1>2, <2>4 DEF WellLine
  <2>6. /\ g.impatient_big_size > 0 => waiters["impatient_big"] # {}
        /\ g.impatient_little_size > 0 => waiters["impatient_little"] # {}
    BY <1>2, <1>3, <2>5, PeopleAssumption DEF W!Impatient, Person
  <2>7. g.impatient_big_size = 0 /\ g.impatient_little_size = 0
    <3>1. \A c \in W!Cond : woken \in W!mx!Signalled(c) => waiters[c] = {}
      BY <2>4 DEF W!mx!Signalled
    <3>2. g.impatient_little_size > 0 \/ g.impatient_big_size > 0 =>
            \/ woken \in W!mx!Signalled("impatient_big") /\ g.impatient_big_size > 0
            \/ woken \in W!mx!Signalled("impatient_little") /\ g.impatient_little_size > 0
      BY <1>2, <1>3, <2>2 DEF W!Woken
    <3> QED
      BY <1>2, <1>3, <2>6, <3>1, <3>2 DEF W!Cond
  <2>8. waiters["littleWaiting"] = {} /\ waiters["bigWaiting"] = {}
    BY <1>2, <1>3, <1>4, <2>1, <2>2, <2>4, <2>7 DEF W!Woken
  <2>9. waiters["impatient_big"] = {} /\ waiters["impatient_little"] = {}
    BY <1>2, <1>3, <2>7 DEF WellLine
  <2>10. \A c \in W!Cond : waiters'[c] = {}
    BY <2>2, <2>8, <2>9 DEF W!mx!Section, W!Cond
  <2> QED
    BY <2>10 DEF W!mx!Waiting
<1> QED
  BY <1>1, <1>5, <1>6, <1>7 DEF W!person

\* A stuttering step keeps the invariant, and with it every step of the program does.
LEMMA WellStep == WellInv /\ [W!Next]_W!vars => WellInv'
<1>1. ASSUME WellInv, W!Next PROVE WellInv'
  BY <1>1, WellStepLine, WellStepRule, WellStepStranded DEF WellInv
<1>2. ASSUME WellInv, UNCHANGED W!vars PROVE WellInv'
  BY <1>2 DEF WellInv, WellType, WellVars, WellLine, W!vars, W!monitor, W!WellRule, W!QueueSizes,
     W!NobodyStranded, W!mx!Waiting, W!Inside
<1> QED
  BY <1>1, <1>2

(***************************************************************************)
(* soln/well.c                                                             *)
(***************************************************************************)
SolnWellVars ==
  /\ DOMAIN g = {"occupantCount", "occupantEndianness", "outEndiannessWaitingCount"}
  /\ g.occupantCount \in Int /\ g.outEndiannessWaitingCount \in Nat
  /\ g.occupantEndianness \in SW!Cond

SolnWellType ==
  /\ SolnWellVars
  /\ my \in [Person -> Nat]
  /\ pc \in [Person -> {"outside", "waiting", "inside"}]
  /\ writers = {} /\ readers = {}
  /\ lockers \subseteq Person
  /\ waiters \in [SW!Cond -> SUBSET Person]

\* Who waits is with its own kind, or was woken there.
SolnWellLine ==
  /\ \A p \in lockers : pc[p] = "waiting" /\ \A e \in SW!Cond : p \notin waiters[e]
  /\ \A p \in Person : pc[p] = "waiting" => p \in lockers \cup waiters[SW!Endianness(p)]
  /\ \A e \in SW!Cond : \A p \in waiters[e] : pc[p] = "waiting" /\ SW!Endianness(p) = e

\* Those inside are of the endianness that the well remembers.
SolnWellKind == \A p \in Person : pc[p] = "inside" => SW!Endianness(p) = g.occupantEndianness

SolnWellInv ==
  SolnWellType /\ SolnWellLine /\ SolnWellKind /\ SW!WellRule /\ SW!NobodyStranded

\* The well is empty and nobody waits for it at first.
LEMMA SolnWellInit == SW!Init => SolnWellInv
<1> SUFFICES ASSUME SW!Init PROVE SolnWellInv
  OBVIOUS
<1> USE DEF SW!Init, SW!mx!Init
<1>1. SolnWellType /\ SolnWellLine /\ SolnWellKind
  BY DEF SolnWellVars, SolnWellType, SolnWellLine, SolnWellKind, SW!Thread, SW!Cond, Person
<1>2. SW!Inside = {} /\ Cardinality(SW!Inside) = 0
  BY FS_EmptySet DEF SW!Inside, SW!Thread
<1>3. SW!WellRule
  BY <1>2, SameCardinality, LimitAssumption DEF SW!WellRule
<1>4. SW!NobodyStranded
  BY DEF SW!NobodyStranded, SW!mx!Waiting, SW!Cond
<1> QED
  BY <1>1, <1>3, <1>4 DEF SolnWellInv

\* The code's count of those who wait tells whether anybody does.
LEMMA SolnWellWaiters ==
  ASSUME NEW e
  PROVE  /\ SW!waitersCount(e) \in Nat
         /\ SW!waitersCount(e) = 0 <=> \A p \in Person : ~(pc[p] = "waiting" /\ SW!Endianness(p) = e)
<1> DEFINE line == {p \in Person : pc[p] = "waiting" /\ SW!Endianness(p) = e}
<1>1. SW!waitersCount(e) = Cardinality(line)
  BY SameCardinality DEF SW!waitersCount, SW!Thread, Person
<1>2. IsFiniteSet(line)
  BY PersonFinite, FS_Subset
<1>3. Cardinality(line) \in Nat /\ (Cardinality(line) = 0 <=> line = {})
  BY <1>2, FS_CardinalityType, FS_EmptySet
<1> QED
  BY <1>1, <1>3

\* Types and lines are kept by every step.
LEMMA SolnWellStepLine ==
  ASSUME SolnWellType, SolnWellLine, SW!Next
  PROVE  SolnWellType' /\ SolnWellLine'
<1>1. PICK p \in Person : SW!person(p)
  BY DEF SW!Next, SW!Thread, Person
<1> USE DEF SolnWellType, SolnWellLine, SW!Cond
<1>2. CASE SW!StayOut(p)
  <2>1. SolnWellVars'
    BY <1>2 DEF SW!StayOut, SolnWellVars
  <2>2. SolnWellType'
    BY <1>1, <1>2, <2>1 DEF SW!StayOut, SW!mx!SectionWait
  <2>3. \A e \in SW!Cond : p \notin waiters[e]
    BY <1>2 DEF SW!StayOut, SW!Entering
  <2>4. /\ lockers' = lockers \ {p} /\ pc' = [pc EXCEPT ![p] = "waiting"]
        /\ \A e \in SW!Cond :
             waiters'[e] = waiters[e] \cup (IF e = SW!Endianness(p) THEN {p} ELSE {})
    BY <1>2 DEF SW!StayOut, SW!mx!SectionWait
  <2> QED
    BY <1>1, <2>2, <2>3, <2>4 DEF SW!Endianness
<1>3. CASE SW!enterWell(p)
  <2>1. SolnWellVars'
    BY <1>3, LimitAssumption DEF SW!enterWell, SW!NextCount, SW!Endianness, SolnWellVars
  <2>2. \A e \in SW!Cond : p \notin waiters[e]
    BY <1>3 DEF SW!enterWell, SW!Entering
  <2>3. /\ lockers' = lockers \ {p} /\ pc' = [pc EXCEPT ![p] = "inside"]
        /\ waiters' = waiters /\ UNCHANGED <<my, writers, readers>>
    BY <1>3 DEF SW!enterWell, SW!mx!Section
  <2> QED
    BY <1>1, <2>1, <2>2, <2>3 DEF SW!Endianness
<1>4. CASE SW!leaveWell(p)
  <2>1. PICK woken \in SW!Woken : SW!mx!Section(p, woken)
    BY <1>4 DEF SW!leaveWell
  <2>2. \A q \in woken : \E e \in SW!Cond : q \in waiters[e]
    BY <2>1 DEF SW!Woken, SW!mx!Signalled, SolnWellVars, SW!oppositeEnd
  <2>3. my' \in [Person -> Nat]
    BY <1>1, <1>4 DEF SW!leaveWell
  <2>4. p \notin woken /\ p \notin lockers /\ \A e \in SW!Cond : p \notin waiters[e]
    BY <1>4, <2>2 DEF SW!leaveWell
  <2>5. /\ lockers' = lockers \cup woken /\ pc' = [pc EXCEPT ![p] = "outside"]
        /\ waiters' = [e \in SW!Cond |-> waiters[e] \ woken] /\ UNCHANGED <<writers, readers>>
    BY <1>4, <2>1, <2>4 DEF SW!leaveWell, SW!mx!Section
  <2> HIDE DEF SolnWellLine
  <2>6. SolnWellLine'
    BY <1>1, <2>2, <2>4, <2>5 DEF SolnWellLine, SW!Endianness
  <2>7. SolnWellVars'
    BY <1>4 DEF SW!leaveWell, SolnWellVars
  <2> QED
    BY <1>1, <2>2, <2>3, <2>5, <2>6, <2>7
<1> QED
  BY <1>1, <1>2, <1>3, <1>4 DEF SW!person

\* The rule of the well is kept: one more only at an empty well, or below the limit and of the
\* same kind.
LEMMA SolnWellStepRule ==
  ASSUME SolnWellInv, SW!Next
  PROVE  SW!WellRule' /\ SolnWellKind'
<1>1. PICK p \in Person : SW!person(p)
  BY DEF SW!Next, SW!Thread, Person
<1>2. /\ SolnWellType /\ SolnWellLine /\ SolnWellKind
      /\ g.occupantCount = CountIn(Person, pc, {"inside"})
      /\ g.occupantCount =< MAX_OCCUPANCY
      /\ SW!Inside = {} <=> g.occupantCount = 0
  BY WellCounts, SameCardinality DEF SolnWellInv, SW!WellRule, SW!Inside, SW!Thread, Person
<1>3. /\ pc = [q \in Person |-> pc[q]] /\ MAX_OCCUPANCY \in Nat \ {0}
      /\ g.occupantCount \in Int
      /\ DOMAIN g = {"occupantCount", "occupantEndianness", "outEndiannessWaitingCount"}
  BY <1>2, LimitAssumption DEF SolnWellType, SolnWellVars
<1>4. SUFFICES /\ g'.occupantCount = CountIn(Person, pc', {"inside"})
               /\ g'.occupantCount =< MAX_OCCUPANCY
               /\ SolnWellKind'
  <2>1. /\ Cardinality({q \in Person : pc'[q] = "inside"}) = CountIn(Person, pc', {"inside"})
        /\ SW!Inside' = {q \in Person : pc'[q] = "inside"}
    BY WellCounts DEF SW!Inside, SW!Thread, Person
  <2>2. SolnWellKind' => SW!Inside' \subseteq Little \/ SW!Inside' \subseteq Big
    BY <2>1 DEF SolnWellKind, SW!Endianness, Person
  <2> QED
    BY <2>1, <2>2, SameCardinality DEF SW!WellRule
<1>5. CASE SW!StayOut(p)
  <2>1. /\ pc' = [pc EXCEPT ![p] = "waiting"] /\ pc[p] # "inside" /\ pc'[p] = "waiting"
        /\ g'.occupantCount = g.occupantCount /\ g'.occupantEndianness = g.occupantEndianness
    BY <1>1, <1>3, <1>5 DEF SW!StayOut, SW!Entering
  <2>2. WellMoved(p)
    BY <1>1, <1>3, <2>1, WellMove
  <2>3. SolnWellKind'
    BY <1>1, <1>2, <1>3, <2>1 DEF SolnWellKind, SW!Endianness
  <2> QED
    BY <1>2, <2>1, <2>2, <2>3 DEF WellMoved
<1>6. CASE SW!enterWell(p)
  <2>1. /\ pc' = [pc EXCEPT ![p] = "inside"] /\ pc[p] # "inside" /\ pc'[p] = "inside"
        /\ g'.occupantCount = g.occupantCount + 1 /\ SW!MayEnter(p)
        /\ g'.occupantEndianness = SW!Endianness(p)
    BY <1>1, <1>3, <1>6 DEF SW!enterWell, SW!Entering
  <2>2. WellMoved(p)
    BY <1>1, <1>3, <2>1, WellMove
  <2>3. g'.occupantCount =< MAX_OCCUPANCY
    BY <1>3, <2>1 DEF SW!MayEnter
  <2>4. SolnWellKind'
    <3>1. SW!Inside = {} \/ g.occupantEndianness = SW!Endianness(p)
      BY <1>2, <2>1 DEF SW!MayEnter
    <3> QED
      BY <1>1, <1>2, <1>3, <2>1, <3>1 DEF SolnWellKind, SW!Endianness, SW!Inside, SW!Thread, Person
  <2> QED
    BY <1>2, <2>1, <2>2, <2>3, <2>4 DEF WellMoved
<1>7. CASE SW!leaveWell(p)
  <2>1. /\ pc' = [pc EXCEPT ![p] = "outside"] /\ pc[p] = "inside" /\ pc'[p] = "outside"
        /\ g'.occupantCount = g.occupantCount - 1 /\ g'.occupantEndianness = g.occupantEndianness
    BY <1>1, <1>3, <1>7 DEF SW!leaveWell
  <2>2. WellMoved(p)
    BY <1>1, <1>3, <2>1, WellMove
  <2>3. SolnWellKind'
    BY <1>1, <1>2, <1>3, <2>1 DEF SolnWellKind, SW!Endianness
  <2> QED
    BY <1>2, <1>3, <2>1, <2>2, <2>3 DEF WellMoved
<1> QED
  BY <1>1, <1>5, <1>6, <1>7 DEF SW!person

\* The last one who leaves wakes somebody if anybody waits: one of its own kind, or as many of
\* the others as there are, up to the limit, which is at least one.
LEMMA SolnWellStepStranded ==
  ASSUME SolnWellInv, SW!Next
  PROVE  SW!NobodyStranded'
<1>1. PICK p \in Person : SW!person(p)
  BY DEF SW!Next, SW!Thread, Person
<1>2. /\ SolnWellType /\ SolnWellLine
      /\ g.occupantCount = CountIn(Person, pc, {"inside"})
  BY WellCounts, SameCardinality DEF SolnWellInv, SW!WellRule, SW!Inside, SW!Thread, Person
<1>3. /\ g.occupantCount \in Nat /\ MAX_OCCUPANCY \in Nat \ {0}
      /\ g.occupantEndianness \in SW!Cond
      /\ DOMAIN g = {"occupantCount", "occupantEndianness", "outEndiannessWaitingCount"}
  <2>1. CountIn(Person, pc, {"inside"}) \in Nat
    BY PersonFinite, CountType
  <2> QED
    BY <1>2, <2>1, LimitAssumption DEF SolnWellType, SolnWellVars
<1>4. CASE SW!StayOut(p)
  BY <1>3, <1>4 DEF SW!StayOut, SW!MayEnter, SW!NobodyStranded
<1>5. CASE SW!enterWell(p)
  BY <1>3, <1>5 DEF SW!enterWell, SW!NobodyStranded
<1>6. CASE SW!leaveWell(p)
  <2> SUFFICES ASSUME g'.occupantCount = 0, lockers' = {}
               PROVE  SW!mx!Waiting' = {}
    BY DEF SW!NobodyStranded
  <2> DEFINE in == g.occupantEndianness
             out == SW!oppositeEnd(in)
  <2>1. g.occupantCount = 1
    BY <1>3, <1>6 DEF SW!leaveWell
  <2>2. PICK woken \in SW!Woken : SW!mx!Section(p, woken)
    BY <1>6 DEF SW!leaveWell
  <2>3. p \notin lockers
    BY <1>2, <1>6 DEF SW!leaveWell, SolnWellLine
  <2>4. lockers = {} /\ woken = {}
    BY <2>2, <2>3 DEF SW!mx!Section
  <2>5. \A e \in SW!Cond : SW!waitersCount(e) > 0 => waiters[e] # {}
    BY <1>2, <2>4, SolnWellWaiters DEF SolnWellLine
  <2>6. in \in SW!Cond /\ out \in SW!Cond /\ \A e \in SW!Cond : e = in \/ e = out
    BY <1>3 DEF SW!Cond, SW!oppositeEnd
  <2>7. SW!waitersCount(out) > 0 /\ (SW!waitingNotFair \/ SW!waitersCount(in) = 0) =>
          waiters[out] = {}
    <3>1. Cardinality({}) # MAX_OCCUPANCY
      BY <1>3, FS_EmptySet
    <3> QED
      BY <2>1, <2>2, <2>4, <3>1, SameCardinality DEF SW!Woken
  <2>8. ~(SW!waitersCount(out) > 0 /\ (SW!waitingNotFair \/ SW!waitersCount(in) = 0))
    BY <2>5, <2>6, <2>7
  <2>9. ~(SW!waitersCount(in) > 0)
    <3>1. SW!waitersCount(in) > 0 => woken \in SW!mx!Signalled(in)
      BY <2>2, <2>8 DEF SW!Woken
    <3> QED
      BY <2>4, <2>5, <2>6, <3>1 DEF SW!mx!Signalled
  <2>10. SW!waitersCount(in) = 0 /\ SW!waitersCount(out) = 0
    BY <2>8, <2>9, SolnWellWaiters
  <2>11. \A q \in Person : pc[q] # "waiting"
    BY <2>6, <2>10, SolnWellWaiters DEF SW!Endianness, SW!Cond
  <2>12. \A e \in SW!Cond : waiters[e] = {} /\ waiters'[e] = {}
    BY <1>2, <2>2, <2>11 DEF SolnWellLine, SolnWellType, SW!mx!Section
  <2> QED
    BY <2>12 DEF SW!mx!Waiting
<1> QED
  BY <1>1, <1>4, <1>5, <1>6 DEF SW!person

\* Every step of the program keeps the invariant.
LEMMA SolnWellStep == SolnWellInv /\ [SW!Next]_SW!vars => SolnWellInv'
<1>1. ASSUME SolnWellInv, SW!Next PROVE SolnWellInv'
  BY <1>1, SolnWellStepLine, SolnWellStepRule, SolnWellStepStranded DEF SolnWellInv
<1>2. ASSUME SolnWellInv, UNCHANGED SW!vars PROVE SolnWellInv'
  BY <1>2 DEF SolnWellInv, SolnWellType, SolnWellVars, SolnWellLine, SolnWellKind, SW!vars,
     SW!monitor, SW!WellRule, SW!NobodyStranded, SW!mx!Waiting, SW!Inside
<1> QED
  BY <1>1, <1>2

(***************************************************************************)
(* soln/well_sem.c                                                         *)
(***************************************************************************)
\* What a step that moves p does to the count of Group at some places.
Moved(Group, p, places) ==
  /\ CountIn(Group, pc', places) = CountIn(Group, pc, places)
       + (IF p \in Group /\ pc'[p] \in places THEN 1 ELSE 0)
       - (IF p \in Group /\ pc[p] \in places THEN 1 ELSE 0)
  /\ CountIn(Group, pc, places) \in Nat
  /\ CountIn(Group, pc', places) \in Nat

\* Every step that moves one person does that.
LEMMA Move ==
  ASSUME NEW Group, Group \subseteq Person, NEW p \in Person, NEW places,
         pc = [q \in Person |-> pc[q]], pc' = [pc EXCEPT ![p] = pc'[p]]
  PROVE  Moved(Group, p, places)
<1> DEFINE place == pc'[p]
<1>1. IsFiniteSet(Group)
  BY PersonFinite, FS_Subset
<1>2. CountIn(Group, pc', places) = CountIn(Group, pc, places)
        + (IF p \in Group /\ place \in places THEN 1 ELSE 0)
        - (IF p \in Group /\ pc[p] \in places THEN 1 ELSE 0)
  BY <1>1, CountMove
<1>3. CountIn(Group, pc, places) \in Nat /\ CountIn(Group, pc', places) \in Nat
  BY <1>1, CountType
<1> QED
  BY <1>2, <1>3 DEF Moved

Ends == {"LITTLE", "BIG"}

WellSemVars ==
  /\ DOMAIN g = {"occupantCount", "occupantEndianness", "waitersCount"}
  /\ g.occupantCount \in Nat /\ g.occupantEndianness \in Ends
  /\ g.waitersCount \in [Ends -> Nat]

WellSemType ==
  /\ WellSemVars
  /\ my \in [Person -> Nat]
  /\ pc \in [Person -> {"outside", "waiting", "inside"}]
  /\ sem \in [Ends -> Nat]

\* People inside and people with a permit are counted, and are of the kind the well remembers.
WellSemCount ==
  /\ g.occupantCount = CountIn(Person, pc, {"inside"}) + sem["LITTLE"] + sem["BIG"]
  /\ g.occupantCount =< MAX_OCCUPANCY

WellSemKind ==
  /\ \A p \in Person : pc[p] = "inside" => WS!Endianness(p) = g.occupantEndianness
  /\ sem[WS!otherEndianness(g.occupantEndianness)] = 0

\* Who is in line is counted or has a permit, and nobody is counted at an empty well.
WellSemLine ==
  /\ CountIn(Little, pc, {"waiting"}) = g.waitersCount["LITTLE"] + sem["LITTLE"]
  /\ CountIn(Big, pc, {"waiting"}) = g.waitersCount["BIG"] + sem["BIG"]
  /\ g.occupantCount = 0 => g.waitersCount["LITTLE"] = 0 /\ g.waitersCount["BIG"] = 0

WellSemInv == WellSemType /\ WellSemCount /\ WellSemKind /\ WellSemLine

\* The well is empty, with no permit and nobody in line, at first.
LEMMA WellSemInit == WS!Init => WellSemInv
<1> SUFFICES ASSUME WS!Init PROVE WellSemInv
  OBVIOUS
<1> USE DEF WS!Init
<1>1. WellSemType /\ WellSemKind
  BY DEF WellSemVars, WellSemType, WellSemKind, WS!Thread, WS!otherEndianness, Ends, Person
<1>2. /\ CountIn(Person, pc, {"inside"}) = 0
      /\ CountIn(Little, pc, {"waiting"}) = 0
      /\ CountIn(Big, pc, {"waiting"}) = 0
  <2>1. \A p \in Person : pc[p] \notin {"inside"} /\ pc[p] \notin {"waiting"}
    BY DEF WS!Thread, Person
  <2> QED
    BY <2>1, PersonFinite, PeopleAssumption, CountType DEF Person
<1>3. WellSemCount
  BY <1>2, LimitAssumption DEF WellSemCount
<1>4. WellSemLine
  BY <1>2 DEF WellSemLine
<1> QED
  BY <1>1, <1>3, <1>4 DEF WellSemInv

\* Half of those in line, rounded up: somebody, and no more than there are or may be.
LEMMA AdmittedBounds ==
  ASSUME NEW n \in Nat, n > 0
  PROVE  /\ WS!Admitted(n) \in Nat /\ WS!Admitted(n) >= 1
         /\ WS!Admitted(n) =< n /\ WS!Admitted(n) =< MAX_OCCUPANCY
<1>1. (n + 1) \div 2 \in Nat /\ (n + 1) \div 2 >= 1 /\ (n + 1) \div 2 =< n
  OBVIOUS
<1> QED
  BY <1>1, LimitAssumption DEF WS!Admitted

\* Who is let in by somebody who leaves, and what this leaves in the well.
LEMMA WellSemTurn ==
  ASSUME WellSemInv, NEW p \in Person, WS!leaveWell(p)
  PROVE  \E e \in Ends, n \in Nat :
           /\ g'.occupantCount = g.occupantCount - 1 + n
           /\ g'.occupantEndianness = IF n = 0 THEN g.occupantEndianness ELSE e
           /\ g'.waitersCount = [g.waitersCount EXCEPT ![e] = @ - n]
           /\ sem' = [sem EXCEPT ![e] = @ + n]
           /\ n =< g.waitersCount[e]
           /\ g.occupantCount - 1 + n =< MAX_OCCUPANCY
           /\ n > 0 /\ e # g.occupantEndianness => g.occupantCount = 1
           /\ n > 0 /\ e = g.occupantEndianness => g.waitersCount[WS!otherEndianness(e)] = 0
           /\ g.occupantCount = 1 /\ n = 0 =>
                g.waitersCount["LITTLE"] = 0 /\ g.waitersCount["BIG"] = 0
           /\ DOMAIN g' = DOMAIN g
<1> DEFINE left == [g EXCEPT !.occupantCount = @ - 1]
           e == WS!Turn(left)[1]
           n == WS!Turn(left)[2]
           in == g.occupantEndianness
           out == WS!otherEndianness(in)
<1>1. /\ WellSemType /\ g.occupantCount =< MAX_OCCUPANCY
      /\ DOMAIN g = {"occupantCount", "occupantEndianness", "waitersCount"}
      /\ g.occupantCount \in Nat /\ in \in Ends /\ out \in Ends /\ out # in
      /\ g.waitersCount \in [Ends -> Nat] /\ sem \in [Ends -> Nat] /\ MAX_OCCUPANCY \in Nat
  BY LimitAssumption
  DEF WellSemInv, WellSemType, WellSemVars, WellSemCount, WS!otherEndianness, Ends
<1>2. /\ left.occupantCount = g.occupantCount - 1
      /\ left.occupantEndianness = in /\ left.waitersCount = g.waitersCount
      /\ DOMAIN left = DOMAIN g
  BY <1>1
<1>3. /\ g' = WS!Admit(left, e, n)
      /\ sem' = [sem EXCEPT ![e] = @ + n]
  BY DEF WS!leaveWell
<1> HIDE DEF left
<1>4. g.occupantCount >= 1
  <2>1. CountIn(Person, pc, {"inside"}) # 0
    <3>1. pc[p] \in {"inside"}
      BY DEF WS!leaveWell
    <3> QED
      BY <3>1, PersonFinite, CountType
  <2>2. CountIn(Person, pc, {"inside"}) \in Nat
    BY PersonFinite, CountType
  <2> QED
    BY <1>1, <2>1, <2>2 DEF WellSemInv, WellSemCount, Ends
<1>5. WS!Turn(left) =
        IF g.waitersCount[out] > 0
        THEN <<out, IF g.occupantCount - 1 = 0 THEN WS!Admitted(g.waitersCount[out]) ELSE 0>>
        ELSE <<in, IF g.waitersCount[in] > 0 THEN 1 ELSE 0>>
  BY <1>2 DEF WS!Turn
<1>6. /\ e \in Ends /\ n \in Nat /\ n =< g.waitersCount[e]
      /\ g.occupantCount - 1 + n =< MAX_OCCUPANCY
      /\ n > 0 /\ e # in => g.occupantCount = 1
      /\ n > 0 /\ e = in => g.waitersCount[out] = 0
      /\ g.occupantCount = 1 /\ n = 0 => g.waitersCount[in] = 0 /\ g.waitersCount[out] = 0
  <2>1. CASE g.waitersCount[out] > 0 /\ g.occupantCount = 1
    <3>1. e = out /\ n = WS!Admitted(g.waitersCount[out])
      BY <1>1, <1>5, <2>1
    <3> HIDE DEF e, n
    <3> QED
      BY <1>1, <2>1, <3>1, AdmittedBounds
  <2>2. CASE g.waitersCount[out] > 0 /\ g.occupantCount # 1
    <3>1. e = out /\ n = 0
      BY <1>1, <1>5, <2>2
    <3> HIDE DEF e, n
    <3> QED
      BY <1>1, <2>2, <3>1
  <2>3. CASE ~(g.waitersCount[out] > 0)
    <3>1. e = in /\ n = IF g.waitersCount[in] > 0 THEN 1 ELSE 0
      BY <1>1, <1>5, <2>3
    <3> HIDE DEF e, n
    <3> QED
      BY <1>1, <1>4, <2>3, <3>1
  <2> QED
    BY <2>1, <2>2, <2>3
<1> HIDE DEF e, n
<1>7. /\ g'.occupantCount = g.occupantCount - 1 + n
      /\ g'.occupantEndianness = IF n = 0 THEN in ELSE e
      /\ g'.waitersCount = [g.waitersCount EXCEPT ![e] = @ - n]
      /\ DOMAIN g' = DOMAIN g
  BY <1>1, <1>2, <1>3 DEF WS!Admit, WS!recordEntry
<1>8. n > 0 /\ e = in => g.waitersCount[WS!otherEndianness(e)] = 0
  BY <1>6
<1>9. g.occupantCount = 1 /\ n = 0 => g.waitersCount["LITTLE"] = 0 /\ g.waitersCount["BIG"] = 0
  BY <1>1, <1>6 DEF Ends
<1> HIDE DEF in, out
<1> QED
  BY <1>3, <1>6, <1>7, <1>8, <1>9 DEF in

\* What the properties say, from the invariant.
LEMMA WellSemRule == WellSemInv => WS!WellRule /\ WS!NobodyStranded
<1> SUFFICES ASSUME WellSemInv PROVE WS!WellRule /\ WS!NobodyStranded
  OBVIOUS
<1>1. /\ g.occupantCount = Cardinality(WS!Inside) + sem["LITTLE"] + sem["BIG"]
      /\ Cardinality(WS!Inside) \in Nat
      /\ Cardinality(WS!Inside) = CountIn(Person, pc, {"inside"})
  <2>1. CountIn(Person, pc, {"inside"}) \in Nat
    BY PersonFinite, CountType
  <2> QED
    BY <2>1, WellCounts DEF WellSemInv, WellSemCount, WS!Inside, WS!Thread, Person
<1>2. WS!WellRule
  <2> DEFINE e == g.occupantEndianness
  <2>1. /\ e \in {"LITTLE", "BIG"}
        /\ \A p \in WS!Inside : WS!Endianness(p) = e
        /\ sem[WS!otherEndianness(e)] = 0
        /\ g.occupantCount = Cardinality(WS!Inside) + sem[e]
    BY <1>1 DEF WellSemInv, WellSemType, WellSemVars, WellSemKind, WS!Inside, WS!Thread, Person,
       Ends, WS!otherEndianness
  <2>2. g.occupantCount =< MAX_OCCUPANCY
    BY DEF WellSemInv, WellSemCount
  <2> HIDE DEF e
  <2> QED
    BY <2>1, <2>2, SameCardinality DEF WS!WellRule
<1>3. /\ Cardinality(WS!Waiting("LITTLE")) = CountIn(Little, pc, {"waiting"})
      /\ Cardinality(WS!Waiting("BIG")) = CountIn(Big, pc, {"waiting"})
      /\ CountIn(Little, pc, {"waiting"}) = 0 <=> WS!Waiting("LITTLE") = {}
      /\ CountIn(Big, pc, {"waiting"}) = 0 <=> WS!Waiting("BIG") = {}
  <2>1. /\ WS!Waiting("LITTLE") = {p \in Little : pc[p] \in {"waiting"}}
        /\ WS!Waiting("BIG") = {p \in Big : pc[p] \in {"waiting"}}
    BY PeopleAssumption DEF WS!Waiting, WS!Thread, WS!Endianness
  <2>2. /\ CountIn(Little, pc, {"waiting"}) = 0 <=> \A t \in Little : pc[t] \notin {"waiting"}
        /\ CountIn(Big, pc, {"waiting"}) = 0 <=> \A t \in Big : pc[t] \notin {"waiting"}
    BY PeopleAssumption, CountType
  <2> QED
    BY <2>1, <2>2 DEF CountIn
<1>4. WS!NobodyStranded
  <2>1. \A e \in {"LITTLE", "BIG"} : Cardinality(WS!Waiting(e)) = g.waitersCount[e] + sem[e]
    BY <1>3 DEF WellSemInv, WellSemLine
  <2>2. g.occupantCount = 0 => CountIn(Little, pc, {"waiting"}) = 0 /\ CountIn(Big, pc, {"waiting"}) = 0
    BY <1>1 DEF WellSemInv, WellSemType, WellSemVars, WellSemLine, Ends
  <2>3. g.occupantCount = 0 => \A e \in {"LITTLE", "BIG"} : WS!Waiting(e) = {}
    BY <1>3, <2>2
  <2> QED
    BY <2>1, <2>3, SameCardinality DEF WS!NobodyStranded
<1> QED
  BY <1>2, <1>4

\* Every call keeps the invariant, and lets nobody of the kind inside in while others wait.
LEMMA WellSemNext ==
  ASSUME WellSemInv, WS!Next
  PROVE  WellSemInv' /\ WS!TurnsKept
<1>1. PICK p \in Person : WS!enterWell(p) \/ WS!leaveWell(p) \/ WS!LetIn(p)
  BY DEF WS!Next, WS!Step, WS!Thread, Person
<1>2. /\ DOMAIN g = {"occupantCount", "occupantEndianness", "waitersCount"}
      /\ g.occupantCount \in Nat /\ g.occupantEndianness \in Ends
      /\ g.waitersCount \in [Ends -> Nat] /\ sem \in [Ends -> Nat]
      /\ my \in [Person -> Nat] /\ pc \in [Person -> {"outside", "waiting", "inside"}]
      /\ pc = [q \in Person |-> pc[q]] /\ MAX_OCCUPANCY \in Nat \ {0}
  BY LimitAssumption DEF WellSemInv, WellSemType, WellSemVars
<1>3. /\ WellSemCount /\ WellSemKind /\ WellSemLine
  BY DEF WellSemInv
<1>4. /\ WS!Endianness(p) = IF p \in Little THEN "LITTLE" ELSE "BIG"
      /\ p \in Little <=> p \notin Big
      /\ WS!otherEndianness("LITTLE") = "BIG" /\ WS!otherEndianness("BIG") = "LITTLE"
  BY <1>1, PeopleAssumption DEF WS!Endianness, WS!otherEndianness, Person
<1>5. ASSUME pc' = [pc EXCEPT ![p] = pc'[p]]
      PROVE  /\ Moved(Person, p, {"inside"})
             /\ Moved(Little, p, {"waiting"}) /\ Moved(Big, p, {"waiting"})
  BY <1>1, <1>2, <1>5, Move, Zenon DEF Person
<1>6. CASE WS!enterWell(p) /\ WS!canEnter(p)
  <2>1. /\ g'.occupantCount = g.occupantCount + 1
        /\ g'.occupantEndianness = WS!Endianness(p)
        /\ g'.waitersCount = g.waitersCount /\ DOMAIN g' = DOMAIN g
        /\ sem' = sem /\ my' = my
    <3>1. g' = WS!recordEntry(g, WS!Endianness(p), 1) /\ sem' = sem /\ my' = my
      BY <1>6 DEF WS!enterWell
    <3>2. WS!recordEntry(g, WS!Endianness(p), 1) =
            [g EXCEPT !.occupantCount = @ + 1, !.occupantEndianness = WS!Endianness(p)]
      BY DEF WS!recordEntry
    <3> QED
      BY <1>2, <3>1, <3>2
  <2>2. /\ pc' = [pc EXCEPT ![p] = "inside"] /\ pc'[p] = "inside" /\ pc[p] = "outside"
    BY <1>1, <1>2, <1>6 DEF WS!enterWell
  <2>3. g.occupantCount + 1 =< MAX_OCCUPANCY
    BY <1>2, <1>6 DEF WS!canEnter
  <2>4. WellSemType'
    BY <1>1, <1>2, <1>4, <2>1, <2>2 DEF WellSemType, WellSemVars, Ends
  <2>5. WellSemCount' /\ WellSemLine'
    BY <1>1, <1>2, <1>3, <1>5, <2>1, <2>2, <2>3 DEF WellSemCount, WellSemLine, Moved, Ends
  <2>6. g.occupantCount = 0 =>
          (\A q \in Person : pc[q] # "inside") /\ sem["LITTLE"] = 0 /\ sem["BIG"] = 0
    <3>1. /\ CountIn(Person, pc, {"inside"}) \in Nat
          /\ CountIn(Person, pc, {"inside"}) = 0 <=> \A q \in Person : pc[q] \notin {"inside"}
      BY PersonFinite, CountType
    <3> QED
      BY <1>2, <1>3, <3>1 DEF WellSemCount, Ends
  <2>7. WellSemKind'
    BY <1>1, <1>2, <1>3, <1>4, <1>6, <2>1, <2>2, <2>6 DEF WellSemKind, WS!canEnter, Ends
  <2>8. WS!TurnsKept
    BY <1>2, <1>3, <1>4, <1>6, <2>1 DEF WS!TurnsKept, WS!canEnter, WellSemLine, Ends
  <2> QED
    BY <2>4, <2>5, <2>7, <2>8 DEF WellSemInv
<1>7. CASE WS!enterWell(p) /\ ~WS!canEnter(p)
  <2>1. /\ g'.occupantCount = g.occupantCount
        /\ g'.occupantEndianness = g.occupantEndianness
        /\ g'.waitersCount = [g.waitersCount EXCEPT ![WS!Endianness(p)] = @ + 1]
        /\ DOMAIN g' = DOMAIN g
        /\ sem' = sem /\ my' = my
    BY <1>2, <1>7 DEF WS!enterWell
  <2>2. /\ pc' = [pc EXCEPT ![p] = "waiting"] /\ pc'[p] = "waiting" /\ pc[p] = "outside"
    BY <1>1, <1>2, <1>7 DEF WS!enterWell
  <2>3. g.occupantCount # 0
    BY <1>7 DEF WS!canEnter
  <2>4. WellSemType'
    BY <1>1, <1>2, <1>4, <2>1, <2>2 DEF WellSemType, WellSemVars, Ends
  <2>5. WellSemCount' /\ WellSemLine'
    BY <1>1, <1>2, <1>3, <1>4, <1>5, <2>1, <2>2, <2>3 DEF WellSemCount, WellSemLine, Moved, Ends
  <2>6. WellSemKind' /\ WS!TurnsKept
    BY <1>1, <1>2, <1>3, <2>1, <2>2 DEF WellSemKind, WS!TurnsKept, WS!Endianness, WS!otherEndianness, Ends
  <2> QED
    BY <2>4, <2>5, <2>6 DEF WellSemInv
<1>8. CASE WS!LetIn(p)
  <2>1. /\ g' = g /\ my' = my /\ sem[WS!Endianness(p)] > 0
        /\ sem' = [sem EXCEPT ![WS!Endianness(p)] = @ - 1]
    BY <1>8 DEF WS!LetIn, WS!P
  <2>2. /\ pc' = [pc EXCEPT ![p] = "inside"] /\ pc'[p] = "inside" /\ pc[p] = "waiting"
    BY <1>1, <1>2, <1>8 DEF WS!LetIn
  <2>3. WellSemType'
    BY <1>1, <1>2, <1>4, <2>1, <2>2 DEF WellSemType, WellSemVars, Ends
  <2>4. WellSemCount' /\ WellSemLine'
    BY <1>1, <1>2, <1>3, <1>4, <1>5, <2>1, <2>2 DEF WellSemCount, WellSemLine, Moved, Ends
  <2>5. WellSemKind'
    BY <1>1, <1>2, <1>3, <1>4, <2>1, <2>2 DEF WellSemKind, WS!Endianness, Ends
  <2>6. WS!TurnsKept
    BY <1>2, <1>3, <1>4, <2>1 DEF WS!TurnsKept, Ends
  <2> QED
    BY <2>3, <2>4, <2>5, <2>6 DEF WellSemInv
<1>9. CASE WS!leaveWell(p)
  <2>1. PICK e \in Ends, n \in Nat :
           /\ g'.occupantCount = g.occupantCount - 1 + n
           /\ g'.occupantEndianness = IF n = 0 THEN g.occupantEndianness ELSE e
           /\ g'.waitersCount = [g.waitersCount EXCEPT ![e] = @ - n]
           /\ sem' = [sem EXCEPT ![e] = @ + n]
           /\ n =< g.waitersCount[e]
           /\ g.occupantCount - 1 + n =< MAX_OCCUPANCY
           /\ n > 0 /\ e # g.occupantEndianness => g.occupantCount = 1
           /\ n > 0 /\ e = g.occupantEndianness => g.waitersCount[WS!otherEndianness(e)] = 0
           /\ g.occupantCount = 1 /\ n = 0 =>
                g.waitersCount["LITTLE"] = 0 /\ g.waitersCount["BIG"] = 0
           /\ DOMAIN g' = DOMAIN g
    BY <1>1, <1>9, WellSemTurn
  <2>2. /\ pc' = [pc EXCEPT ![p] = "outside"] /\ pc'[p] = "outside" /\ pc[p] = "inside"
        /\ my' \in [Person -> Nat]
    BY <1>1, <1>2, <1>9 DEF WS!leaveWell
  <2>3. CountIn(Person, pc', {"inside"}) = CountIn(Person, pc, {"inside"}) - 1
        /\ CountIn(Person, pc', {"inside"}) \in Nat
        /\ CountIn(Little, pc', {"waiting"}) = CountIn(Little, pc, {"waiting"})
        /\ CountIn(Big, pc', {"waiting"}) = CountIn(Big, pc, {"waiting"})
    BY <1>1, <1>2, <1>5, <2>2 DEF Moved
  <2>4. /\ CountIn(Person, pc, {"inside"}) \in Nat
        /\ sem["LITTLE"] \in Nat /\ sem["BIG"] \in Nat
        /\ sem'["LITTLE"] = sem["LITTLE"] + (IF e = "LITTLE" THEN n ELSE 0)
        /\ sem'["BIG"] = sem["BIG"] + (IF e = "BIG" THEN n ELSE 0)
        /\ g.waitersCount["LITTLE"] \in Nat /\ g.waitersCount["BIG"] \in Nat
        /\ g'.waitersCount["LITTLE"] = g.waitersCount["LITTLE"] - (IF e = "LITTLE" THEN n ELSE 0)
        /\ g'.waitersCount["BIG"] = g.waitersCount["BIG"] - (IF e = "BIG" THEN n ELSE 0)
    BY <1>1, <1>2, <1>5, <2>1, <2>2 DEF Moved, Ends
  <2>9. g'.occupantCount \in Nat /\ g.occupantCount >= 1
    BY <1>2, <1>3, <2>1, <2>3, <2>4 DEF WellSemCount
  <2>5. WellSemType'
    BY <1>1, <1>2, <2>1, <2>2, <2>9 DEF WellSemType, WellSemVars, Ends
  <2>6. WellSemCount' /\ WellSemLine'
    <3>1. e = "LITTLE" \/ e = "BIG"
      BY <2>1 DEF Ends
    <3>2. WellSemCount'
      <4>1. sem'["LITTLE"] + sem'["BIG"] = sem["LITTLE"] + sem["BIG"] + n
        BY <2>4, <3>1
      <4>2. sem'["LITTLE"] \in Nat /\ sem'["BIG"] \in Nat
        BY <2>4, <3>1
      <4> QED
        BY <1>2, <1>3, <2>1, <2>3, <2>4, <4>1, <4>2 DEF WellSemCount
    <3>3. g'.occupantCount = 0 => g.occupantCount = 1 /\ n = 0
      BY <1>2, <2>1, <2>9
    <3>4. CASE e = "LITTLE"
      BY <1>3, <2>1, <2>3, <2>4, <3>2, <3>3, <3>4 DEF WellSemLine
    <3>5. CASE e = "BIG"
      BY <1>3, <2>1, <2>3, <2>4, <3>2, <3>3, <3>5 DEF WellSemLine
    <3> QED
      BY <3>1, <3>4, <3>5
  <2>7. WellSemKind'
    <3>1. g.occupantCount = 1 =>
            (\A q \in Person : pc'[q] # "inside") /\ sem["LITTLE"] = 0 /\ sem["BIG"] = 0
      <4>1. CountIn(Person, pc', {"inside"}) = 0 <=> \A q \in Person : pc'[q] \notin {"inside"}
        BY PersonFinite, CountType
      <4> QED
        BY <1>3, <2>3, <2>4, <4>1 DEF WellSemCount
    <3>2. CASE g'.occupantEndianness = g.occupantEndianness
      BY <1>1, <1>2, <1>3, <1>4, <2>1, <2>2, <3>1, <3>2 DEF WellSemKind, WS!Endianness, Ends
    <3>3. CASE g'.occupantEndianness # g.occupantEndianness
      BY <1>1, <1>2, <1>3, <1>4, <2>1, <2>2, <3>1, <3>3 DEF WellSemKind, WS!Endianness, Ends
    <3> QED
      BY <3>2, <3>3
  <2>8. WS!TurnsKept
    BY <1>2, <1>4, <2>1 DEF WS!TurnsKept, Ends
  <2> QED
    BY <2>5, <2>6, <2>7, <2>8 DEF WellSemInv
<1> QED
  BY <1>1, <1>6, <1>7, <1>8, <1>9

\* Every step of the program keeps the invariant and the turns.
LEMMA WellSemStep == WellSemInv /\ [WS!Next]_WS!vars => WellSemInv' /\ WS!TurnsKept
<1>1. ASSUME WellSemInv, UNCHANGED WS!vars PROVE WellSemInv' /\ WS!TurnsKept
  <2>1. g' = g /\ my' = my /\ pc' = pc /\ sem' = sem
    BY <1>1 DEF WS!vars
  <2>2. WellSemInv'
    BY <1>1, <2>1 DEF WellSemInv, WellSemType, WellSemVars, WellSemCount, WellSemKind, WellSemLine
  <2>3. g.occupantCount \in Nat /\ sem \in [Ends -> Nat]
    BY <1>1 DEF WellSemInv, WellSemType, WellSemVars
  <2>4. WS!TurnsKept
    BY <2>1, <2>3 DEF WS!TurnsKept, Ends
  <2> QED
    BY <2>2, <2>4
<1> QED
  BY <1>1, WellSemNext

(***************************************************************************)
(* pc_sem.c and soln/pc_sem.c                                              *)
(***************************************************************************)
Permits == {"max", "count", "mutex"}

PoolVars ==
  /\ DOMAIN g = {"items", "inside"}
  /\ g.items \in Int /\ g.inside \in BOOLEAN

PoolType ==
  /\ PoolVars
  /\ my \in [Person -> Nat]
  /\ pc \in [Person -> {"permit", "mutex", "change", "signal_in", "signal_out", "leave"}]
  /\ sem \in [Permits -> Nat]

\* The two programs differ in the call that signals the change.
PoolPlaces == \A t \in Person : pc[t] # IF g.inside THEN "signal_out" ELSE "signal_in"

\* Where a thread has signalled the change yet or not: the places between change and signal.
Owes == IF g.inside THEN {"signal_in"} ELSE {"leave", "signal_out"}
Locked == {"change", "signal_in", "leave"}

PoolMutex == sem["mutex"] + CountIn(Person, pc, Locked) = 1

PoolCount ==
  /\ sem["max"] + CountIn(Little, pc, {"mutex", "change"}) + g.items + CountIn(Big, pc, Owes) = MAX_ITEMS
  /\ sem["count"] + CountIn(Big, pc, {"mutex", "change"}) + CountIn(Little, pc, Owes) = g.items

PoolInv == PoolType /\ PoolPlaces /\ PoolMutex /\ PoolCount

\* All slots are free and nobody has a permit at first.
LEMMA PoolInit == Pool!Init => PoolInv
<1> SUFFICES ASSUME Pool!Init PROVE PoolInv
  OBVIOUS
<1> USE DEF Pool!Init
<1>1. PICK inside \in BOOLEAN : g = [items |-> 0, inside |-> inside]
  OBVIOUS
<1>2. PoolType /\ PoolPlaces
  BY <1>1, LimitAssumption DEF PoolType, PoolVars, PoolPlaces, Permits, Pool!Thread, Person
<1>3. \A t \in Person : pc[t] \notin Locked /\ pc[t] \notin Owes /\ pc[t] \notin {"mutex", "change"}
  BY DEF Pool!Thread, Person, Locked, Owes
<1>4. /\ CountIn(Person, pc, Locked) = 0
      /\ CountIn(Little, pc, {"mutex", "change"}) = 0 /\ CountIn(Little, pc, Owes) = 0
      /\ CountIn(Big, pc, {"mutex", "change"}) = 0 /\ CountIn(Big, pc, Owes) = 0
  BY <1>3, PersonFinite, PeopleAssumption, CountType DEF Person
<1>5. PoolMutex /\ PoolCount
  BY <1>1, <1>4, LimitAssumption DEF PoolMutex, PoolCount
<1> QED
  BY <1>2, <1>5 DEF PoolInv

\* What the properties say, from the invariant.
LEMMA PoolRule == PoolInv => Pool!ItemsInRange /\ Pool!PermitsConserved
<1> SUFFICES ASSUME PoolInv PROVE Pool!ItemsInRange /\ Pool!PermitsConserved
  OBVIOUS
<1>1. /\ CountIn(Person, pc, Locked) \in Nat
      /\ CountIn(Little, pc, {"mutex", "change"}) \in Nat /\ CountIn(Little, pc, Owes) \in Nat
      /\ CountIn(Big, pc, {"mutex", "change"}) \in Nat /\ CountIn(Big, pc, Owes) \in Nat
  BY PersonFinite, PeopleAssumption, CountType
<1>2. /\ sem["max"] \in Nat /\ sem["count"] \in Nat /\ sem["mutex"] \in Nat
      /\ g.items \in Int /\ MAX_ITEMS \in Nat
  BY LimitAssumption DEF PoolInv, PoolType, PoolVars, Permits
<1>3. \A Group, places : Cardinality(Pool!At(Group, places)) = CountIn(Group, pc, places)
  BY DEF Pool!At, CountIn
<1>4. Pool!ItemsInRange
  BY <1>1, <1>2, <1>3, SameCardinality
  DEF PoolInv, PoolMutex, PoolCount, Pool!ItemsInRange, Pool!Thread, Person, Locked
<1>5. Pool!PermitsConserved
  BY <1>1, <1>2, <1>3, SameCardinality
  DEF PoolInv, PoolCount, Pool!PermitsConserved, Pool!Slots, Pool!Items, Owes
<1> QED
  BY <1>4, <1>5

\* Every call keeps the counts.
LEMMA PoolNext ==
  ASSUME PoolInv, Pool!Next
  PROVE  PoolInv'
<1>1. PICK p \in Person : \/ Pool!Permit(p) \/ Pool!EnterMutex(p) \/ Pool!Change(p)
                          \/ Pool!SignalChange(p) \/ Pool!LeaveMutex(p)
  BY DEF Pool!Next, Pool!Call, Pool!Thread, Person
<1>2. /\ DOMAIN g = {"items", "inside"} /\ g.items \in Int /\ g.inside \in BOOLEAN
      /\ my \in [Person -> Nat] /\ pc = [q \in Person |-> pc[q]]
      /\ pc \in [Person -> {"permit", "mutex", "change", "signal_in", "signal_out", "leave"}]
      /\ sem \in [Permits -> Nat]
      /\ sem["max"] \in Nat /\ sem["count"] \in Nat /\ sem["mutex"] \in Nat
  BY DEF PoolInv, PoolType, PoolVars, Permits
<1>3. PoolPlaces /\ PoolMutex /\ PoolCount
  BY DEF PoolInv
<1>4. p \in Little <=> p \notin Big
  BY <1>1, PeopleAssumption DEF Person
<1>5. ASSUME pc' = [pc EXCEPT ![p] = pc'[p]]
      PROVE  /\ Moved(Person, p, Locked)
             /\ Moved(Little, p, {"mutex", "change"}) /\ Moved(Big, p, {"mutex", "change"})
             /\ Moved(Little, p, Owes) /\ Moved(Big, p, Owes)
  BY <1>1, <1>2, <1>5, Move, Zenon DEF Person
<1> USE DEF PoolInv, PoolType, PoolVars, PoolPlaces, PoolMutex, PoolCount, Moved, Locked, Permits,
        Pool!Go, Pool!P, Pool!V
<1>6. CASE Pool!Permit(p)
  <2>1. /\ g' = g /\ my' = my /\ pc' = [pc EXCEPT ![p] = "mutex"]
        /\ pc[p] = "permit" /\ pc'[p] = "mutex"
        /\ sem' = [sem EXCEPT ![IF p \in Little THEN "max" ELSE "count"] = @ - 1]
        /\ sem[IF p \in Little THEN "max" ELSE "count"] > 0
    BY <1>1, <1>2, <1>6 DEF Pool!Permit
  <2> QED
    BY <1>1, <1>2, <1>3, <1>4, <1>5, <2>1 DEF Owes
<1>7. CASE Pool!EnterMutex(p)
  <2>1. /\ g' = g /\ my' = my /\ pc' = [pc EXCEPT ![p] = "change"]
        /\ pc[p] = "mutex" /\ pc'[p] = "change"
        /\ sem' = [sem EXCEPT !["mutex"] = @ - 1] /\ sem["mutex"] > 0
    BY <1>1, <1>2, <1>7 DEF Pool!EnterMutex
  <2> QED
    BY <1>1, <1>2, <1>3, <1>4, <1>5, <2>1 DEF Owes
<1>8. CASE Pool!Change(p)
  <2>1. /\ g'.items = IF p \in Little THEN g.items + 1 ELSE g.items - 1
        /\ g'.inside = g.inside /\ DOMAIN g' = DOMAIN g /\ sem' = sem /\ my' = my
        /\ pc' = [pc EXCEPT ![p] = IF g.inside THEN "signal_in" ELSE "leave"]
        /\ pc[p] = "change" /\ pc'[p] = IF g.inside THEN "signal_in" ELSE "leave"
    BY <1>1, <1>2, <1>8 DEF Pool!Change
  <2> QED
    BY <1>1, <1>2, <1>3, <1>4, <1>5, <2>1 DEF Owes
<1>9. CASE Pool!SignalChange(p)
  <2>1. /\ g' = g /\ my' \in [Person -> Nat]
        /\ sem' = [sem EXCEPT ![IF p \in Little THEN "count" ELSE "max"] = @ + 1]
        /\ \/ pc[p] = "signal_in" /\ pc' = [pc EXCEPT ![p] = "leave"] /\ pc'[p] = "leave"
           \/ pc[p] = "signal_out" /\ pc' = [pc EXCEPT ![p] = "permit"] /\ pc'[p] = "permit"
    BY <1>1, <1>2, <1>9 DEF Pool!SignalChange, Pool!NextIteration
  <2>2. CASE pc[p] = "signal_in"
    BY <1>1, <1>2, <1>3, <1>4, <1>5, <2>1, <2>2 DEF Owes
  <2>3. CASE pc[p] = "signal_out"
    BY <1>1, <1>2, <1>3, <1>4, <1>5, <2>1, <2>3 DEF Owes
  <2> QED
    BY <2>1, <2>2, <2>3
<1>10. CASE Pool!LeaveMutex(p)
  <2>1. /\ g' = g /\ my' \in [Person -> Nat]
        /\ sem' = [sem EXCEPT !["mutex"] = @ + 1] /\ pc[p] = "leave"
        /\ pc' = [pc EXCEPT ![p] = IF g.inside THEN "permit" ELSE "signal_out"]
        /\ pc'[p] = IF g.inside THEN "permit" ELSE "signal_out"
    BY <1>1, <1>2, <1>10 DEF Pool!LeaveMutex, Pool!NextIteration
  <2> QED
    BY <1>1, <1>2, <1>3, <1>4, <1>5, <2>1 DEF Owes
<1> QED
  BY <1>1, <1>6, <1>7, <1>8, <1>9, <1>10

\* Every step of the program keeps the invariant.
LEMMA PoolStep == PoolInv /\ [Pool!Next]_Pool!vars => PoolInv'
<1>1. ASSUME PoolInv, UNCHANGED Pool!vars PROVE PoolInv'
  BY <1>1 DEF Pool!vars, PoolInv, PoolType, PoolVars, PoolPlaces, PoolMutex, PoolCount, Owes
<1> QED
  BY <1>1, PoolNext

(***************************************************************************)
(* q1.c, q3.c, q4.c and test.c                                             *)
(***************************************************************************)
Sorted(s) == \A i, j \in DOMAIN s : i < j => s[i] =< s[j]
AtMost(s, n) == \A i \in DOMAIN s : s[i] =< n

\* Another number that is not below any before it leaves a sequence sorted.
LEMMA SortedAppend ==
  ASSUME NEW s \in Seq(Nat), NEW n \in Nat, Sorted(s), AtMost(s, n)
  PROVE  /\ Append(s, n) \in Seq(Nat)
         /\ Sorted(Append(s, n))
         /\ \A m \in Nat : AtMost(s, m) /\ n =< m => AtMost(Append(s, n), m)
<1> DEFINE next == Append(s, n)
<1>1. /\ next \in Seq(Nat) /\ Len(next) = Len(s) + 1
      /\ \A i \in 1 .. Len(s) : next[i] = s[i]
      /\ next[Len(s) + 1] = n
  OBVIOUS
<1> HIDE DEF next
<1>2. /\ DOMAIN s = 1 .. Len(s) /\ Len(s) \in Nat
      /\ DOMAIN next = 1 .. (Len(s) + 1)
      /\ \A i \in 1 .. Len(s) : s[i] \in Nat
  BY <1>1
<1>3. \A i \in DOMAIN next : (i \in DOMAIN s /\ next[i] = s[i]) \/ (i = Len(s) + 1 /\ next[i] = n)
  <2>1. \A i \in 1 .. (Len(s) + 1) : i \in 1 .. Len(s) \/ i = Len(s) + 1
    BY <1>2
  <2> QED
    BY <1>1, <1>2, <2>1
<1>4. Sorted(next)
  BY <1>2, <1>3 DEF Sorted, AtMost
<1>5. \A m \in Nat : AtMost(s, m) /\ n =< m => AtMost(next, m)
  BY <1>2, <1>3 DEF AtMost
<1> QED
  BY <1>1, <1>4, <1>5 DEF next

OrderVars ==
  /\ DOMAIN g = {"program", "count", "out"}
  /\ g.program \in {"q1", "q3", "q4", "test"} /\ g.count \in Nat /\ g.out \in Seq(Nat)

OrderType ==
  /\ OrderVars
  /\ my \in 0 .. 3
  /\ pc \in [0 .. 2 -> {"none", "start", "count", "poll", "wait", "end"}]

\* main has joined only threads that have ended.
OrderJoined == \A t \in 0 .. 2 : t < my => pc[t] = "end"

\* q1.c: the thread that runs is the one main joins next.
Order_q1 ==
  /\ \A t \in 0 .. 2 : pc[t] = "start" => t = my
  /\ AtMost(g.out, my)

\* Whether a thread of q3.c has counted.
Counted(t) == IF pc[t] \in {"poll", "end"} THEN 1 ELSE 0

\* q3.c: nobody prints b before all have counted, which is after all printed a.
Order_q3 ==
  /\ g.count = Counted(0) + Counted(1) + Counted(2)
  /\ g.count = 3 \/ AtMost(g.out, 0)
  /\ my = 3 \/ AtMost(g.out, 1)

\* q4.c: the counter is not below what was printed.
Order_q4 == g.count \in 0 .. 2 /\ (my = 3 \/ AtMost(g.out, g.count))

\* test.c: before c runs nothing is printed and nobody is woken.
Order_test ==
  /\ pc[0] \in {"start", "end"} /\ pc[2] = "end"
  /\ pc[0] = "start" => g.out = <<>> /\ lockers = {} /\ g.count = 0
  /\ my = 3 \/ AtMost(g.out, 1)

OrderBound ==
  /\ g.program = "q1" => Order_q1
  /\ g.program = "q3" => Order_q3
  /\ g.program = "q4" => Order_q4
  /\ g.program = "test" => Order_test

OrderInv == OrderType /\ OrderJoined /\ OrderBound /\ Sorted(g.out)

\* Nothing is printed and nobody is joined at first.
LEMMA OrderInit == O!Init => OrderInv
<1> SUFFICES ASSUME O!Init PROVE OrderInv
  OBVIOUS
<1> USE DEF O!Init, O!Thread
<1>1. PICK name \in {"q1", "q3", "q4", "test"} :
        /\ g = [program |-> name, count |-> 0, out |-> <<>>]
        /\ pc = [t \in 0 .. 2 |->
                 CASE name = "q1" -> IF t = 0 THEN "start" ELSE "none"
                   [] name = "test" -> IF t < 2 THEN "start" ELSE "end"
                   [] OTHER -> "start"]
  OBVIOUS
<1>2. OrderType
  BY <1>1 DEF OrderType, OrderVars
<1>3. Sorted(g.out) /\ \A n : AtMost(g.out, n)
  BY <1>1 DEF Sorted, AtMost
<1>4. OrderJoined
  BY DEF OrderJoined
<1>5. OrderBound
  BY <1>1, <1>3 DEF OrderBound, Order_q1, Order_q3, Order_q4, Order_test, Counted, O!mx!Init
<1> QED
  BY <1>2, <1>3, <1>4, <1>5 DEF OrderInv

\* The step of each program keeps what it needs to print in order.
LEMMA OrderNext ==
  ASSUME OrderInv, O!Next
  PROVE  OrderInv'
<1>1. /\ DOMAIN g = {"program", "count", "out"} /\ g.count \in Nat /\ g.out \in Seq(Nat)
      /\ g.program \in {"q1", "q3", "q4", "test"} /\ my \in 0 .. 3
      /\ pc \in [0 .. 2 -> {"none", "start", "count", "poll", "wait", "end"}]
      /\ OrderJoined /\ OrderBound /\ Sorted(g.out)
  BY DEF OrderInv, OrderType, OrderVars
<1>2. CASE O!main
  <2>1. /\ my < 3 /\ pc[my] = "end" /\ my' = my + 1 /\ lockers' = lockers
        /\ pc' = IF g.program = "q1" /\ my < 2 THEN [pc EXCEPT ![my + 1] = "start"] ELSE pc
        /\ g'.program = g.program /\ g'.count = g.count /\ DOMAIN g' = DOMAIN g
        /\ g'.out = IF my = 2 THEN Append(g.out, 3) ELSE g.out
    BY <1>1, <1>2 DEF O!main, O!Say, O!monitor
  <2>2. ASSUME my = 2 PROVE AtMost(g.out, 3)
    <3>1. CASE g.program = "q1"
      BY <1>1, <2>2, <3>1 DEF OrderBound, Order_q1, AtMost
    <3>2. CASE g.program = "q3"
      BY <1>1, <2>2, <3>2 DEF OrderBound, Order_q3, AtMost
    <3>3. CASE g.program = "q4"
      BY <1>1, <2>2, <3>3 DEF OrderBound, Order_q4, AtMost
    <3>4. CASE g.program = "test"
      BY <1>1, <2>2, <3>4 DEF OrderBound, Order_test, AtMost
    <3> QED
      BY <1>1, <3>1, <3>2, <3>3, <3>4
  <2>4. g'.out \in Seq(Nat) /\ Sorted(g'.out) /\ (my = 2 => AtMost(g'.out, 3))
    BY <1>1, <2>1, <2>2, SortedAppend
  <2>5. OrderType'
    BY <1>1, <2>1, <2>4 DEF OrderType, OrderVars
  <2>6. OrderJoined'
    BY <1>1, <2>1 DEF OrderJoined
  <2>7. OrderBound'
    <3>1. CASE g.program = "q1"
      <4>1. \A t \in 0 .. 2 : pc'[t] = "start" => t = my'
        BY <1>1, <2>1, <3>1 DEF OrderBound, Order_q1
      <4>2. AtMost(g'.out, my')
        BY <1>1, <2>1, <2>4, <3>1 DEF OrderBound, Order_q1, AtMost
      <4> QED
        BY <2>1, <3>1, <4>1, <4>2 DEF OrderBound, Order_q1
    <3>2. CASE g.program = "q3"
      <4>1. pc' = pc /\ (my' # 3 => g'.out = g.out)
        BY <1>1, <2>1, <3>2
      <4>2. my' = 3 => g.count = 3
        BY <1>1, <2>1, <3>2 DEF OrderBound, Order_q3, OrderJoined, Counted
      <4> QED
        BY <1>1, <2>1, <3>2, <4>1, <4>2 DEF OrderBound, Order_q3, Counted
    <3>3. CASE g.program = "q4"
      BY <1>1, <2>1, <3>3 DEF OrderBound, Order_q4
    <3>4. CASE g.program = "test"
      BY <1>1, <2>1, <3>4 DEF OrderBound, Order_test, OrderJoined
    <3> QED
      BY <1>1, <3>1, <3>2, <3>3, <3>4
  <2> QED
    BY <2>4, <2>5, <2>6, <2>7 DEF OrderInv
<1>3. CASE \E t \in 0 .. 2 : O!q1_p(t)
  <2>1. PICK t \in 0 .. 2 : O!q1_p(t)
    BY <1>3
  <2>2. /\ g.program = "q1" /\ pc[t] = "start" /\ my' = my
        /\ pc' = [pc EXCEPT ![t] = "end"]
        /\ g'.program = g.program /\ g'.count = g.count /\ DOMAIN g' = DOMAIN g
        /\ g'.out = Append(g.out, t)
    BY <1>1, <2>1 DEF O!q1_p, O!Say, O!Go
  <2>3. t = my /\ AtMost(g.out, t)
    BY <1>1, <2>2 DEF OrderBound, Order_q1
  <2>4. g'.out \in Seq(Nat) /\ Sorted(g'.out) /\ AtMost(g'.out, t)
    BY <1>1, <2>2, <2>3, SortedAppend
  <2> QED
    BY <1>1, <2>2, <2>3, <2>4
    DEF OrderInv, OrderType, OrderVars, OrderJoined, OrderBound, Order_q1
<1>4. CASE \E t \in 0 .. 2 : O!q3_p(t)
  <2>1. PICK t \in 0 .. 2 : O!q3_p(t)
    BY <1>4
  <2>2. g.program = "q3" /\ my' = my /\ Order_q3
    BY <1>1, <2>1 DEF O!q3_p, OrderBound
  <2>3. pc[t] # "end" => my # 3
    BY <1>1 DEF OrderJoined
  <2>4. CASE pc[t] = "start" /\ g' = [g EXCEPT !.out = Append(@, 0)] /\ pc' = [pc EXCEPT ![t] = "count"]
    <3>1. AtMost(g.out, 0) /\ Counted(t) = 0
      BY <1>1, <2>2, <2>4 DEF Order_q3, Counted
    <3>2. g'.out \in Seq(Nat) /\ Sorted(g'.out) /\ AtMost(g'.out, 0) /\ AtMost(g'.out, 1)
      <4>1. AtMost(g.out, 1)
        BY <1>1, <3>1 DEF AtMost
      <4> QED
        BY <1>1, <2>4, <3>1, <4>1, SortedAppend
    <3>3. g'.count = Counted(0)' + Counted(1)' + Counted(2)'
      BY <1>1, <2>2, <2>4 DEF Order_q3, Counted
    <3> QED
      BY <1>1, <2>2, <2>3, <2>4, <3>2, <3>3
      DEF OrderInv, OrderType, OrderVars, OrderJoined, OrderBound, Order_q3
  <2>5. CASE pc[t] = "count" /\ g' = [g EXCEPT !.count = @ + 1] /\ pc' = [pc EXCEPT ![t] = "poll"]
    <3>1. g'.count = Counted(0)' + Counted(1)' + Counted(2)'
      BY <1>1, <2>2, <2>5 DEF Order_q3, Counted
    <3>2. g.count # 3
      BY <1>1, <2>2, <2>5 DEF Order_q3, Counted
    <3> QED
      BY <1>1, <2>2, <2>3, <2>5, <3>1, <3>2
      DEF OrderInv, OrderType, OrderVars, OrderJoined, OrderBound, Order_q3
  <2>6. CASE /\ pc[t] = "poll" /\ g.count = 3 /\ g' = [g EXCEPT !.out = Append(@, 1)]
             /\ pc' = [pc EXCEPT ![t] = "end"]
    <3>1. AtMost(g.out, 1)
      BY <1>1, <2>2, <2>3, <2>6 DEF Order_q3
    <3>2. g'.out \in Seq(Nat) /\ Sorted(g'.out) /\ AtMost(g'.out, 1)
      BY <1>1, <2>6, <3>1, SortedAppend
    <3>3. g'.count = Counted(0)' + Counted(1)' + Counted(2)'
      BY <1>1, <2>2, <2>6 DEF Order_q3, Counted
    <3> QED
      BY <1>1, <2>2, <2>3, <2>6, <3>2, <3>3
      DEF OrderInv, OrderType, OrderVars, OrderJoined, OrderBound, Order_q3
  <2> QED
    BY <2>1, <2>4, <2>5, <2>6 DEF O!q3_p, O!Say, O!Go
<1>5. CASE \E t \in 0 .. 2 : O!q4_p(t)
  <2>1. PICK t \in 0 .. 2 : O!q4_p(t)
    BY <1>5
  <2>2. g.program = "q4" /\ my' = my /\ Order_q4 /\ pc[t] # "end" /\ my # 3
    BY <1>1, <2>1 DEF O!q4_p, O!Entering, OrderBound, OrderJoined
  <2>3. CASE O!MustWait(t)
    <3>1. g' = g /\ pc' = [pc EXCEPT ![t] = "wait"]
      BY <2>1, <2>3 DEF O!q4_p, O!Go
    <3> QED
      BY <1>1, <2>2, <3>1
      DEF OrderInv, OrderType, OrderVars, OrderJoined, OrderBound, Order_q4
  <2>4. CASE ~O!MustWait(t)
    <3>1. /\ g.count = t /\ pc' = [pc EXCEPT ![t] = "end"]
          /\ g'.program = g.program /\ g'.count = (IF t < 2 THEN t + 1 ELSE 2)
          /\ DOMAIN g' = DOMAIN g /\ g'.out = Append(g.out, t)
      BY <1>1, <2>1, <2>4 DEF O!q4_p, O!Go, O!Say_Count, O!MustWait
    <3>2. AtMost(g.out, t) /\ AtMost(g.out, g'.count)
      BY <1>1, <2>2, <3>1 DEF Order_q4, AtMost
    <3>3. g'.out \in Seq(Nat) /\ Sorted(g'.out) /\ AtMost(g'.out, g'.count)
      BY <1>1, <3>1, <3>2, SortedAppend
    <3> QED
      BY <1>1, <2>2, <3>1, <3>3
      DEF OrderInv, OrderType, OrderVars, OrderJoined, OrderBound, Order_q4
  <2> QED
    BY <2>3, <2>4
<1>6. CASE \E t \in 0 .. 2 : O!test_thread(t)
  <2>1. PICK t \in 0 .. 2 : O!test_thread(t)
    BY <1>6
  <2>2. g.program = "test" /\ my' = my /\ Order_test /\ pc[t] # "end" /\ my # 3
    BY <1>1, <2>1 DEF O!test_thread, O!Entering, OrderBound, OrderJoined
  <2>3. CASE t = 1 /\ pc[t] = "start" /\ g.count = 0
    <3>1. g' = g /\ pc' = [pc EXCEPT ![t] = "wait"] /\ lockers' \subseteq lockers
      BY <2>1, <2>3 DEF O!test_thread, O!Go, O!mx!SectionWait
    <3> QED
      BY <1>1, <2>2, <2>3, <3>1
      DEF OrderInv, OrderType, OrderVars, OrderJoined, OrderBound, Order_test
  <2>4. CASE ~(t = 1 /\ pc[t] = "start" /\ g.count = 0)
    <3>1. /\ pc' = [pc EXCEPT ![t] = "end"]
          /\ g'.program = g.program /\ g'.count = 1
          /\ DOMAIN g' = DOMAIN g /\ g'.out = Append(g.out, t)
      BY <1>1, <2>1, <2>4 DEF O!test_thread, O!Go, O!Say_Count
    <3>2. t = 0 \/ (t = 1 /\ pc[0] = "end")
      <4>1. t \in 0 .. 2 /\ t # 2 /\ O!Entering(t)
        BY <2>1, <2>2 DEF Order_test, O!test_thread
      <4>2. t = 1 => g.count # 0 \/ lockers # {}
        BY <2>4, <4>1 DEF O!Entering
      <4> QED
        BY <2>2, <4>1, <4>2 DEF Order_test
    <3>3. AtMost(g.out, t) /\ AtMost(g.out, 1)
      BY <1>1, <2>2, <3>2 DEF Order_test, AtMost
    <3>4. g'.out \in Seq(Nat) /\ Sorted(g'.out) /\ AtMost(g'.out, 1)
      BY <1>1, <3>1, <3>2, <3>3, SortedAppend
    <3> QED
      BY <1>1, <2>2, <3>1, <3>2, <3>4
      DEF OrderInv, OrderType, OrderVars, OrderJoined, OrderBound, Order_test
  <2> QED
    BY <2>3, <2>4
<1> QED
  BY <1>2, <1>3, <1>4, <1>5, <1>6 DEF O!Next, O!Step, O!Thread

\* Every step of the program keeps the invariant.
LEMMA OrderStep == OrderInv /\ [O!Next]_O!vars => OrderInv'
<1>1. ASSUME OrderInv, UNCHANGED O!vars PROVE OrderInv'
  BY <1>1 DEF O!vars, O!monitor, OrderInv, OrderType, OrderVars, OrderJoined, OrderBound,
     Order_q1, Order_q3, Order_q4, Order_test, Counted, Sorted, AtMost
<1> QED
  BY <1>1, OrderNext

(***************************************************************************)
(* The smokers                                                             *)
(***************************************************************************)
Resource == {"match", "paper", "tobacco"}
Agent == <<"agent", "all">>
Smoker == {"smoker"} \X Resource

\* A condition takes the threads that wait there: where[t] is the one of thread t.
WaitersAt(Thread, Cond, where) ==
  waiters = [c \in Cond |-> {t \in Thread : t \notin lockers /\ where[t] = c}]

\* What the smoker of r is still to smoke.
Owed(r) == g.signal_count = [g.smoke_count EXCEPT ![r] = @ + 1]
Counts == g.signal_count \in [Resource -> Nat] /\ g.smoke_count \in [Resource -> Nat]

(***************************************************************************)
(* soln/smoke_sem.c                                                        *)
(***************************************************************************)
Permit == Resource \cup {"for_match", "for_paper", "for_tobacco", "smoke"}
SmokeSemType ==
  /\ DOMAIN g = {"have", "offer", "signal_count", "smoke_count"}
  /\ g.have \subseteq Resource /\ g.offer \subseteq Resource /\ Counts
  /\ sem \in [Permit -> Nat]
  /\ pc \in [{Agent} \cup {"pusher", "smoker"} \X Resource -> {"offer", "signal", "wait", "push", "smoke"}]
  /\ pc[Agent] \in {"offer", "signal"}
  /\ \A r \in Resource : pc[<<"pusher", r>>] \in {"wait", "push"} /\ pc[<<"smoker", r>>] \in {"wait", "smoke"}

\* The unit of a resource, from the offer to the pushers' flag.
Units(s) ==
  (IF s \in g.offer THEN 1 ELSE 0) + sem[s] + (IF pc[<<"pusher", s>>] = "push" THEN 1 ELSE 0)
    + (IF s \in g.have THEN 1 ELSE 0)

\* The turn of a smoker, from the pusher to the smoker, and the message to the agent.
Turns(r) == sem[SM!For(r)] + (IF pc[<<"smoker", r>>] = "smoke" THEN 1 ELSE 0)

SemOffered(r) ==
  /\ Owed(r)
  /\ Units(r) = 0 /\ \A s \in Resource \ {r} : Units(s) = 1
  /\ \A s \in Resource : Turns(s) = 0
  /\ \E s \in Resource \ {r} : s \notin g.have
  /\ sem["smoke"] = 0

SemCalled(r) ==
  /\ Owed(r)
  /\ \A s \in Resource : Units(s) = 0 /\ Turns(s) = IF s = r THEN 1 ELSE 0
  /\ sem["smoke"] = 0

SemSmoked(permits) ==
  /\ g.signal_count = g.smoke_count
  /\ \A s \in Resource : Units(s) = 0 /\ Turns(s) = 0
  /\ sem["smoke"] = permits

SmokeSemInv ==
  /\ SmokeSemType
  /\ pc[Agent] = "offer" => SemSmoked(0)
  /\ pc[Agent] = "signal" => SemSmoked(1) \/ \E r \in Resource : SemOffered(r) \/ SemCalled(r)

\* The names that the three programs have in common.
LEMMA SmokeNames ==
  /\ S!Resource = Resource /\ SS!Resource = Resource /\ SM!Resource = Resource
  /\ S!Agent = Agent /\ SS!Agent = Agent /\ SM!Agent = Agent
  /\ S!Smoker = Smoker /\ SS!Smoker = Smoker /\ SM!Smoker = Smoker
BY DEF S!Resource, SS!Resource, SM!Resource, Resource, S!Agent, SS!Agent, SM!Agent, Agent,
   S!Smoker, SS!Smoker, SM!Smoker, Smoker

\* No two resources are not one of them.
LEMMA TwoResources ==
  ASSUME NEW have \in SUBSET Resource, NEW s \in Resource
  PROVE  /\ SM!Cardinality(have \cup {s}) < 2 <=> have \subseteq {s}
         /\ SS!Cardinality(have \cup {s}) < 2 <=> have \subseteq {s}
<1>0. /\ SM!Cardinality(have \cup {s}) = Cardinality(have \cup {s})
      /\ SS!Cardinality(have \cup {s}) = Cardinality(have \cup {s})
  BY DEF Cardinality, SM!Cardinality, SS!Cardinality
<1>1. CASE have \subseteq {s}
  <2>1. have \cup {s} = {s}
    BY <1>1
  <2>2. Cardinality({s}) = 1
    BY FS_Singleton
  <2> QED
    BY <1>0, <1>1, <2>1, <2>2
<1>2. CASE ~(have \subseteq {s})
  <2>1. PICK x \in have : x # s
    BY <1>2
  <2>2. IsFiniteSet({s, x}) /\ Cardinality({s, x}) = 2
    <3>1. IsFiniteSet({s}) /\ Cardinality({s}) = 1 /\ x \notin {s}
      BY <2>1, FS_Singleton
    <3>2. {s, x} = {s} \cup {x}
      OBVIOUS
    <3> QED
      BY <3>1, <3>2, FS_AddElement
  <2>3. IsFiniteSet(Resource)
    <3>0. IsFiniteSet({"match"})
      BY FS_Singleton
    <3>1. IsFiniteSet({"match"} \cup {"paper"})
      BY <3>0, FS_AddElement
    <3>2. IsFiniteSet(({"match"} \cup {"paper"}) \cup {"tobacco"})
      BY <3>1, FS_AddElement
    <3>3. Resource = ({"match"} \cup {"paper"}) \cup {"tobacco"}
      BY DEF Resource
    <3> QED
      BY <3>2, <3>3
  <2>4. IsFiniteSet(have \cup {s}) /\ {s, x} \subseteq have \cup {s}
    BY <2>1, <2>3, FS_Subset
  <2>5. Cardinality({s, x}) =< Cardinality(have \cup {s}) /\ Cardinality(have \cup {s}) \in Nat
    BY <2>4, FS_Subset, FS_CardinalityType
  <2> QED
    BY <1>0, <1>2, <2>2, <2>5
<1> QED
  BY <1>1, <1>2

\* The two that are not the one of r make the turn his.
LEMMA MatchOfTwo ==
  ASSUME NEW r \in Resource
  PROVE  SM!Match(Resource \ {r}) = r /\ SS!Match(Resource \ {r}) = r
BY DEF Resource, SM!Match, SS!Match

\* Nothing is offered and all wait at first.
LEMMA SmokeSemInit == SM!Init => SmokeSemInv
<1> SUFFICES ASSUME SM!Init PROVE SmokeSemInv
  OBVIOUS
<1>1. /\ g = [have |-> {}, offer |-> {}, signal_count |-> [r \in Resource |-> 0],
              smoke_count |-> [r \in Resource |-> 0]]
      /\ pc = [t \in {Agent} \cup ({"pusher"} \X Resource) \cup Smoker |-> IF t = Agent THEN "offer" ELSE "wait"]
      /\ sem = [s \in Permit |-> 0]
  <2>1. SM!Pusher = {"pusher"} \X Resource
    BY SmokeNames DEF SM!Pusher
  <2>2. {SM!For(r) : r \in Resource} = {"for_match", "for_paper", "for_tobacco"}
    BY DEF Resource, SM!For
  <2>3. Resource \cup {SM!For(r) : r \in Resource} \cup {"smoke"} = Permit
    BY <2>2 DEF Permit
  <2> QED
    BY SmokeNames, <2>1, <2>3, Zenon DEF SM!Init, SM!Thread
<1>2. SmokeSemType
  <2>1. {Agent} \cup ({"pusher"} \X Resource) \cup Smoker = {Agent} \cup {"pusher", "smoker"} \X Resource
    BY DEF Smoker
  <2> QED
    BY <1>1, <2>1 DEF SmokeSemType, Counts, Permit, Agent, Smoker
<1>3. \A s \in Resource : Units(s) = 0 /\ Turns(s) = 0
  <2>1. \A s \in Resource : SM!For(s) \in Permit /\ s \in Permit
    BY DEF SM!For, Permit
  <2> QED
    BY <1>1, <2>1 DEF Units, Turns, Agent, Smoker
<1> QED
  BY <1>1, <1>2, <1>3 DEF SmokeSemInv, SemSmoked, Permit, Agent

\* A resource of which there is nothing, and a smoker whose turn it is not.
LEMMA NothingLeft ==
  ASSUME NEW s \in Resource, sem[s] \in Nat, sem[SM!For(s)] \in Nat
  PROVE  /\ Units(s) = 0 => sem[s] = 0 /\ pc[<<"pusher", s>>] # "push" /\ s \notin g.offer /\ s \notin g.have
         /\ Turns(s) = 0 => sem[SM!For(s)] = 0 /\ pc[<<"smoker", s>>] # "smoke"
BY DEF Units, Turns

\* What is left of the round, from what there is of it.
LEMMA SmokeSemRound ==
  ASSUME SmokeSemInv
  PROVE  /\ \A s \in Resource : Units(s) # 0 => \E r \in Resource : s # r /\ pc[Agent] = "signal" /\ SemOffered(r)
         /\ \A r \in Resource : Turns(r) # 0 => pc[Agent] = "signal" /\ SemCalled(r)
         /\ sem["smoke"] # 0 => pc[Agent] = "signal" /\ SemSmoked(1)
BY DEF SmokeSemInv, SmokeSemType, SemOffered, SemCalled, SemSmoked

\* Every step keeps the invariant of smoke_sem.c.
LEMMA SmokeSemNext ==
  ASSUME SmokeSemInv, SM!Next
  PROVE  SmokeSemInv'
<1> DEFINE Place == {Agent} \cup {"pusher", "smoker"} \X Resource
<1>1. /\ DOMAIN g = {"have", "offer", "signal_count", "smoke_count"}
      /\ g.have \in SUBSET Resource /\ g.offer \in SUBSET Resource
      /\ g.signal_count \in [Resource -> Nat] /\ g.smoke_count \in [Resource -> Nat]
      /\ sem \in [Permit -> Nat] /\ pc \in [Place -> {"offer", "signal", "wait", "push", "smoke"}]
      /\ pc[Agent] \in {"offer", "signal"}
      /\ \A r \in Resource : pc[<<"pusher", r>>] \in {"wait", "push"} /\ pc[<<"smoker", r>>] \in {"wait", "smoke"}
  BY DEF SmokeSemInv, SmokeSemType, Counts
<1>2. /\ SM!For("match") = "for_match" /\ SM!For("paper") = "for_paper" /\ SM!For("tobacco") = "for_tobacco"
      /\ \A r \in Resource : r \in Permit /\ SM!For(r) \in Permit /\ sem[r] \in Nat /\ sem[SM!For(r)] \in Nat
      /\ sem["smoke"] \in Nat
      /\ \A r, s \in Resource : SM!For(r) # s /\ SM!For(r) # "smoke" /\ s # "smoke" /\ (r # s => SM!For(r) # SM!For(s))
  BY <1>1 DEF SM!For, Resource, Permit
<1>3. /\ Agent \in Place /\ \A r \in Resource : <<"pusher", r>> \in Place /\ <<"smoker", r>> \in Place
      /\ \A r, s \in Resource : <<"pusher", r>> # <<"smoker", s>> /\ <<"pusher", r>> # Agent /\ <<"smoker", r>> # Agent
  BY DEF Agent
<1>3a. ASSUME NEW place, pc' = [pc EXCEPT ![Agent] = place]
       PROVE  /\ pc'[Agent] = place
              /\ \A s \in Resource : /\ pc'[<<"pusher", s>>] = pc[<<"pusher", s>>]
                                     /\ pc'[<<"smoker", s>>] = pc[<<"smoker", s>>]
  BY <1>1, <1>3, <1>3a
<1>4. ASSUME NEW place, NEW r \in Resource
      PROVE  /\ pc' = [pc EXCEPT ![<<"pusher", r>>] = place]
                 => /\ pc'[Agent] = pc[Agent]
                    /\ \A s \in Resource : /\ pc'[<<"pusher", s>>] = IF s = r THEN place ELSE pc[<<"pusher", s>>]
                                           /\ pc'[<<"smoker", s>>] = pc[<<"smoker", s>>]
             /\ pc' = [pc EXCEPT ![<<"smoker", r>>] = place]
                 => /\ pc'[Agent] = pc[Agent]
                    /\ \A s \in Resource : /\ pc'[<<"smoker", s>>] = IF s = r THEN place ELSE pc[<<"smoker", s>>]
                                           /\ pc'[<<"pusher", s>>] = pc[<<"pusher", s>>]
  BY <1>1, <1>3
<1>5. \A s \in Resource : Units(s) \in Nat /\ Turns(s) \in Nat
  BY <1>2 DEF Units, Turns
<1> HIDE DEF Place
<1>6. CASE SM!Offer
  <2>1. PICK r \in Resource : g' = [g EXCEPT !.signal_count[r] = @ + 1, !.offer = Resource \ {r}]
    BY <1>6, SmokeNames DEF SM!Offer
  <2>2. /\ pc[Agent] = "offer" /\ sem' = sem /\ pc' = [pc EXCEPT ![Agent] = "signal"]
    BY <1>6, SmokeNames DEF SM!Offer, SM!Go
  <2>3. /\ pc'[Agent] = "signal"
        /\ \A s \in Resource : pc'[<<"pusher", s>>] = pc[<<"pusher", s>>] /\ pc'[<<"smoker", s>>] = pc[<<"smoker", s>>]
    BY <1>3a, <2>2
  <2>4. SemSmoked(0)
    BY <2>2 DEF SmokeSemInv
  <2>5. /\ g'.have = g.have /\ g'.offer = Resource \ {r} /\ g'.smoke_count = g.smoke_count
        /\ g'.signal_count = [g.signal_count EXCEPT ![r] = @ + 1] /\ DOMAIN g' = DOMAIN g
    BY <1>1, <2>1
  <2>6. SmokeSemType'
    BY <1>1, <2>2, <2>3, <2>5 DEF SmokeSemType, Counts, Place
  <2>7. Owed(r)'
    BY <1>1, <2>4, <2>5 DEF Owed, SemSmoked
  <2>8. ASSUME NEW s \in Resource
        PROVE  Units(s)' = (IF s = r THEN 0 ELSE 1) /\ Turns(s)' = 0 /\ s \notin g.have
    <3>1. Units(s) = 0 /\ Turns(s) = 0
      BY <2>4 DEF SemSmoked
    <3>2. Turns(s)' = Turns(s)
      BY <2>2, <2>3 DEF Turns
    <3>3. sem[s] = 0 /\ pc[<<"pusher", s>>] # "push" /\ s \notin g.have
      BY <1>2, <3>1, NothingLeft
    <3> QED
      BY <2>2, <2>3, <2>5, <3>1, <3>2, <3>3 DEF Units
  <2>9. SemOffered(r)'
    BY <2>2, <2>4, <2>5, <2>7, <2>8 DEF SemOffered, SemSmoked, Resource
  <2> QED
    BY <2>3, <2>6, <2>9 DEF SmokeSemInv
<1>7. CASE SM!SignalOffer
  <2>1. PICK s \in g.offer : s = SM!FirstOf(g.offer)
    BY <1>1, <1>7 DEF SM!SignalOffer, SM!FirstOf, Resource
  <2>2. /\ pc[Agent] = "signal" /\ pc' = pc
        /\ sem' = [sem EXCEPT ![s] = @ + 1] /\ g' = [g EXCEPT !.offer = @ \ {s}]
    BY <1>7, <2>1, SmokeNames DEF SM!SignalOffer, SM!V
  <2>3. /\ g'.have = g.have /\ g'.offer = g.offer \ {s} /\ g'.smoke_count = g.smoke_count
        /\ g'.signal_count = g.signal_count /\ DOMAIN g' = DOMAIN g
    BY <1>1, <2>2
  <2>4. SmokeSemType'
    BY <1>1, <1>2, <2>1, <2>2, <2>3 DEF SmokeSemType, Counts, Place
  <2>5. ASSUME NEW x \in Resource PROVE Units(x)' = Units(x) /\ Turns(x)' = Turns(x)
    BY <1>1, <1>2, <2>1, <2>2, <2>3 DEF Units, Turns
  <2>6. PICK r \in Resource : s # r /\ SemOffered(r)
    <3>1. s \in Resource /\ Units(s) # 0
      BY <1>1, <1>2, <2>1 DEF Units
    <3> QED
      BY <3>1, SmokeSemRound
  <2>7. SemOffered(r)'
    BY <1>1, <1>2, <2>1, <2>2, <2>3, <2>5, <2>6 DEF SemOffered, Owed
  <2> QED
    BY <2>2, <2>4, <2>7 DEF SmokeSemInv
<1>8. CASE SM!AwaitSmoke
  <2>1. /\ pc[Agent] = "signal" /\ pc' = [pc EXCEPT ![Agent] = "offer"] /\ g' = g
        /\ sem["smoke"] > 0 /\ sem' = [sem EXCEPT !["smoke"] = @ - 1]
    BY <1>8, SmokeNames DEF SM!AwaitSmoke, SM!P, SM!Go
  <2>2. /\ pc'[Agent] = "offer"
        /\ \A s \in Resource : pc'[<<"pusher", s>>] = pc[<<"pusher", s>>] /\ pc'[<<"smoker", s>>] = pc[<<"smoker", s>>]
    BY <1>3a, <2>1
  <2>3. SemSmoked(1)
    BY <1>2, <2>1, SmokeSemRound
  <2>4. SmokeSemType'
    BY <1>1, <1>2, <2>1, <2>2 DEF SmokeSemType, Counts, Place, Permit
  <2>5. ASSUME NEW x \in Resource PROVE Units(x)' = Units(x) /\ Turns(x)' = Turns(x)
    BY <1>1, <1>2, <2>1, <2>2 DEF Units, Turns
  <2>6. SemSmoked(0)'
    BY <1>1, <1>2, <2>1, <2>3, <2>5 DEF SemSmoked, Permit
  <2> QED
    BY <2>2, <2>4, <2>6 DEF SmokeSemInv
<1>9. ASSUME NEW s \in Resource, SM!Take(<<"pusher", s>>) PROVE SmokeSemInv'
  <2>1. /\ pc[<<"pusher", s>>] = "wait" /\ pc' = [pc EXCEPT ![<<"pusher", s>>] = "push"] /\ g' = g
        /\ sem[s] > 0 /\ sem' = [sem EXCEPT ![s] = @ - 1]
    BY <1>9 DEF SM!Take, SM!P, SM!Go
  <2>2. /\ pc'[Agent] = pc[Agent]
        /\ \A x \in Resource : /\ pc'[<<"pusher", x>>] = IF x = s THEN "push" ELSE pc[<<"pusher", x>>]
                               /\ pc'[<<"smoker", x>>] = pc[<<"smoker", x>>]
    BY <1>3, <1>4, <2>1
  <2>3. PICK r \in Resource : s # r /\ pc[Agent] = "signal" /\ SemOffered(r)
    <3>1. Units(s) # 0
      BY <1>2, <2>1 DEF Units
    <3> QED
      BY <3>1, SmokeSemRound
  <2>4. SmokeSemType'
    BY <1>1, <1>2, <2>1, <2>2 DEF SmokeSemType, Counts, Place
  <2>5. ASSUME NEW x \in Resource PROVE Units(x)' = Units(x) /\ Turns(x)' = Turns(x)
    BY <1>1, <1>2, <2>1, <2>2 DEF Units, Turns
  <2>6. SemOffered(r)'
    BY <1>1, <1>2, <2>1, <2>3, <2>5 DEF SemOffered, Owed
  <2> QED
    BY <2>2, <2>3, <2>4, <2>6 DEF SmokeSemInv
<1>10. ASSUME NEW s \in Resource, SM!Push(<<"pusher", s>>) PROVE SmokeSemInv'
  <2>1. /\ pc[<<"pusher", s>>] = "push" /\ pc' = [pc EXCEPT ![<<"pusher", s>>] = "wait"]
    BY <1>10 DEF SM!Push, SM!Go
  <2>2. /\ pc'[Agent] = pc[Agent]
        /\ \A x \in Resource : /\ pc'[<<"pusher", x>>] = IF x = s THEN "wait" ELSE pc[<<"pusher", x>>]
                               /\ pc'[<<"smoker", x>>] = pc[<<"smoker", x>>]
    BY <1>3, <1>4, <2>1
  <2>3. PICK r \in Resource : s # r /\ pc[Agent] = "signal" /\ SemOffered(r)
    <3>1. Units(s) # 0
      BY <1>2, <2>1 DEF Units
    <3> QED
      BY <3>1, SmokeSemRound
  <2>4. s \notin g.have /\ r \notin g.have
    BY <1>1, <1>2, <2>1, <2>3 DEF SemOffered, Units
  <2>5. CASE g.have \subseteq {s}
    <3>1. g' = [g EXCEPT !.have = g.have \cup {s}] /\ sem' = sem
      BY <1>1, <1>10, <2>5, TwoResources DEF SM!Push
    <3>2. /\ g'.have = {s} /\ g'.offer = g.offer /\ g'.smoke_count = g.smoke_count
          /\ g'.signal_count = g.signal_count /\ DOMAIN g' = DOMAIN g
      BY <1>1, <2>4, <2>5, <3>1
    <3>3. SmokeSemType'
      BY <1>1, <2>1, <2>2, <3>1, <3>2 DEF SmokeSemType, Counts, Place
    <3>4. ASSUME NEW x \in Resource PROVE Units(x)' = Units(x) /\ Turns(x)' = Turns(x)
      BY <1>1, <1>2, <2>1, <2>2, <2>4, <2>5, <3>1, <3>2 DEF Units, Turns
    <3>5. \E x \in Resource \ {r} : x \notin g'.have
      BY <2>3, <3>2 DEF Resource
    <3>6. SemOffered(r)'
      BY <1>1, <1>2, <2>1, <2>3, <3>1, <3>2, <3>4, <3>5 DEF SemOffered, Owed
    <3> QED
      BY <2>2, <2>3, <3>3, <3>6 DEF SmokeSemInv
  <2>6. CASE ~(g.have \subseteq {s})
    <3>1. g.have \cup {s} = Resource \ {r}
      BY <1>1, <2>3, <2>4, <2>6 DEF Resource
    <3>2. SM!Match(g.have \cup {s}) = r
      BY <3>1, MatchOfTwo
    <3>3. g' = [g EXCEPT !.have = (g.have \cup {s}) \cap {r}] /\ sem' = [sem EXCEPT ![SM!For(r)] = @ + 1]
      <4>1. ~(SM!Cardinality(g.have \cup {s}) < 2)
        BY <1>1, <2>6, TwoResources
      <4> QED
        BY <1>10, <3>2, <4>1 DEF SM!Push, SM!V
    <3>4. /\ g'.have = {} /\ g'.offer = g.offer /\ g'.smoke_count = g.smoke_count
          /\ g'.signal_count = g.signal_count /\ DOMAIN g' = DOMAIN g
      BY <1>1, <3>1, <3>3
    <3>5. SmokeSemType'
      BY <1>1, <1>2, <2>1, <2>2, <3>3, <3>4 DEF SmokeSemType, Counts, Place
    <3>6. \A x \in Resource : Units(x)' = 0
      <4>1. ASSUME NEW x \in Resource PROVE Units(x)' = 0
        <5>1. sem'[x] = sem[x] /\ sem[x] \in Nat /\ x \notin g'.have
          BY <1>1, <1>2, <3>3, <3>4
        <5>2. CASE x = r
          <6>1. Units(r) = 0
            BY <2>3 DEF SemOffered
          <6>2. sem[x] = 0 /\ pc[<<"pusher", x>>] # "push" /\ x \notin g.offer
            BY <1>2, <5>2, <6>1, NothingLeft
          <6>3. g'.offer = g.offer /\ pc'[<<"pusher", x>>] # "push"
            BY <2>2, <3>4, <6>2
          <6> QED
            BY <5>1, <6>2, <6>3 DEF Units
        <5>3. CASE x = s
          <6>1. Units(s) = 1
            BY <2>3 DEF SemOffered
          <6> QED
            BY <2>1, <2>2, <3>4, <5>1, <5>3, <6>1 DEF Units
        <5>4. CASE x # r /\ x # s
          <6>1. x \in g.have /\ Units(x) = 1
            BY <2>3, <3>1, <5>4 DEF SemOffered
          <6>2. sem[x] = 0 /\ pc[<<"pusher", x>>] # "push" /\ x \notin g.offer
            BY <5>1, <6>1 DEF Units
          <6>3. g'.offer = g.offer /\ pc'[<<"pusher", x>>] # "push"
            BY <2>2, <3>4, <6>2
          <6> QED
            BY <5>1, <6>2, <6>3 DEF Units
        <5> QED
          BY <5>2, <5>3, <5>4
      <4> QED
        BY <4>1
    <3>7. ASSUME NEW x \in Resource PROVE Turns(x)' = IF x = r THEN 1 ELSE 0
      <4>1. Turns(x) = 0
        BY <2>3 DEF SemOffered
      <4>2. sem'[SM!For(x)] = IF x = r THEN sem[SM!For(x)] + 1 ELSE sem[SM!For(x)]
        BY <1>1, <1>2, <2>3, <3>3
      <4>3. pc'[<<"smoker", x>>] = pc[<<"smoker", x>>] /\ sem[SM!For(x)] \in Nat
        BY <1>2, <2>2
      <4> QED
        BY <4>1, <4>2, <4>3 DEF Turns
    <3>8. SemCalled(r)'
      BY <1>1, <1>2, <2>3, <3>3, <3>4, <3>6, <3>7 DEF SemCalled, SemOffered, Owed
    <3> QED
      BY <2>2, <2>3, <3>5, <3>8 DEF SmokeSemInv
  <2> QED
    BY <2>5, <2>6
<1>11. ASSUME NEW r \in Resource, SM!TakeTurn(<<"smoker", r>>) PROVE SmokeSemInv'
  <2>1. /\ pc[<<"smoker", r>>] = "wait" /\ pc' = [pc EXCEPT ![<<"smoker", r>>] = "smoke"] /\ g' = g
        /\ sem[SM!For(r)] > 0 /\ sem' = [sem EXCEPT ![SM!For(r)] = @ - 1]
    BY <1>11 DEF SM!TakeTurn, SM!P, SM!Go
  <2>2. /\ pc'[Agent] = pc[Agent]
        /\ \A x \in Resource : /\ pc'[<<"smoker", x>>] = IF x = r THEN "smoke" ELSE pc[<<"smoker", x>>]
                               /\ pc'[<<"pusher", x>>] = pc[<<"pusher", x>>]
    BY <1>3, <1>4, <2>1
  <2>3. pc[Agent] = "signal" /\ SemCalled(r)
    <3>1. Turns(r) # 0
      BY <1>2, <2>1 DEF Turns
    <3> QED
      BY <3>1, SmokeSemRound
  <2>4. SmokeSemType'
    BY <1>1, <1>2, <2>1, <2>2 DEF SmokeSemType, Counts, Place
  <2>5. ASSUME NEW x \in Resource PROVE Units(x)' = Units(x) /\ Turns(x)' = Turns(x)
    BY <1>1, <1>2, <2>1, <2>2 DEF Units, Turns
  <2>6. SemCalled(r)'
    BY <1>1, <1>2, <2>1, <2>3, <2>5 DEF SemCalled, Owed
  <2> QED
    BY <2>2, <2>3, <2>4, <2>6 DEF SmokeSemInv
<1>12. ASSUME NEW r \in Resource, SM!smoke(<<"smoker", r>>) PROVE SmokeSemInv'
  <2>1. /\ pc[<<"smoker", r>>] = "smoke" /\ pc' = [pc EXCEPT ![<<"smoker", r>>] = "wait"]
        /\ g' = [g EXCEPT !.smoke_count[r] = @ + 1] /\ sem' = [sem EXCEPT !["smoke"] = @ + 1]
    BY <1>12 DEF SM!smoke, SM!V, SM!Go
  <2>2. /\ pc'[Agent] = pc[Agent]
        /\ \A x \in Resource : /\ pc'[<<"smoker", x>>] = IF x = r THEN "wait" ELSE pc[<<"smoker", x>>]
                               /\ pc'[<<"pusher", x>>] = pc[<<"pusher", x>>]
    BY <1>3, <1>4, <2>1
  <2>3. pc[Agent] = "signal" /\ SemCalled(r)
    <3>1. Turns(r) # 0
      BY <1>2, <2>1 DEF Turns
    <3> QED
      BY <3>1, SmokeSemRound
  <2>4. /\ g'.have = g.have /\ g'.offer = g.offer /\ g'.smoke_count = [g.smoke_count EXCEPT ![r] = @ + 1]
        /\ g'.signal_count = g.signal_count /\ DOMAIN g' = DOMAIN g
    BY <1>1, <2>1
  <2>5. SmokeSemType'
    BY <1>1, <1>2, <2>1, <2>2, <2>4 DEF SmokeSemType, Counts, Place, Permit
  <2>6. ASSUME NEW x \in Resource PROVE Units(x)' = 0 /\ Turns(x)' = 0
    <3>1. Units(x) = 0 /\ Turns(x) = IF x = r THEN 1 ELSE 0
      BY <2>3 DEF SemCalled
    <3>2. sem'[x] = sem[x] /\ sem'[SM!For(x)] = sem[SM!For(x)]
      BY <1>1, <1>2, <2>1
    <3> QED
      BY <1>2, <2>1, <2>2, <2>4, <3>1, <3>2 DEF Units, Turns
  <2>7. SemSmoked(1)'
    BY <1>1, <1>2, <2>1, <2>3, <2>4, <2>6 DEF SemSmoked, SemCalled, Owed, Permit
  <2> QED
    BY <2>2, <2>3, <2>5, <2>7 DEF SmokeSemInv
<1>13. PICK t \in SM!Thread : SM!Step(t)
  BY DEF SM!Next
<1>14. t = Agent \/ (\E r \in Resource : t = <<"pusher", r>>) \/ (\E r \in Resource : t = <<"smoker", r>>)
  BY <1>13, SmokeNames DEF SM!Thread, SM!Pusher, Smoker
<1>15. CASE t = Agent
  <2>1. SM!agent
    <3>1. ~SM!Take(t) /\ ~SM!TakeTurn(t)
      BY <1>15, SmokeNames DEF SM!Take, SM!TakeTurn, SM!Pusher, Smoker, Agent
    <3>2. ~SM!Push(t) /\ ~SM!smoke(t)
      BY <1>1, <1>15 DEF SM!Push, SM!smoke
    <3> QED
      BY <1>13, <3>1, <3>2 DEF SM!Step
  <2> QED
    BY <1>6, <1>7, <1>8, <2>1 DEF SM!agent
<1>16. CASE \E r \in Resource : t = <<"pusher", r>>
  <2>1. PICK r \in Resource : t = <<"pusher", r>>
    BY <1>16
  <2>2. ~(t = SM!Agent /\ SM!agent) /\ ~SM!TakeTurn(t) /\ ~SM!smoke(t)
    BY <1>1, <2>1, SmokeNames DEF SM!TakeTurn, SM!smoke, Smoker, Agent
  <2> QED
    BY <1>9, <1>10, <1>13, <2>1, <2>2 DEF SM!Step
<1>17. CASE \E r \in Resource : t = <<"smoker", r>>
  <2>1. PICK r \in Resource : t = <<"smoker", r>>
    BY <1>17
  <2>2. ~(t = SM!Agent /\ SM!agent) /\ ~SM!Take(t) /\ ~SM!Push(t)
    BY <1>1, <2>1, SmokeNames DEF SM!Take, SM!Push, SM!Pusher, Agent
  <2> QED
    BY <1>11, <1>12, <1>13, <2>1, <2>2 DEF SM!Step
<1> QED
  BY <1>14, <1>15, <1>16, <1>17

\* A step that leaves smoke_sem.c alone does too, and the property follows from the invariant.
LEMMA SmokeSemStep == SmokeSemInv /\ [SM!Next]_SM!vars => SmokeSemInv'
<1>1. ASSUME SmokeSemInv, UNCHANGED SM!vars PROVE SmokeSemInv'
  BY <1>1 DEF SM!vars, SmokeSemInv, SmokeSemType, Counts, SemOffered, SemCalled, SemSmoked, Owed, Units, Turns
<1> QED
  BY <1>1, SmokeSemNext

\* Before an offer everything is smoked; before the agent waits, all but the turn of one smoker is.
LEMMA SmokeSemRule == SmokeSemInv => SM!OffersSmoked
<1> SUFFICES ASSUME SmokeSemInv, pc[Agent] = "offer"
             PROVE  g.signal_count = g.smoke_count /\ g.have = {} /\ \A s \in DOMAIN sem : sem[s] = 0
  BY SmokeNames DEF SM!OffersSmoked
<1>1. SemSmoked(0) /\ SmokeSemType
  BY DEF SmokeSemInv
<1>2. \A r \in Resource : r \in Permit /\ SM!For(r) \in Permit /\ sem[r] \in Nat /\ sem[SM!For(r)] \in Nat
  BY <1>1 DEF SmokeSemType, SM!For, Resource, Permit
<1>3. \A r \in Resource : sem[r] = 0 /\ sem[SM!For(r)] = 0 /\ r \notin g.have
  BY <1>1, <1>2, NothingLeft DEF SemSmoked
<1>4. SM!For("match") = "for_match" /\ SM!For("paper") = "for_paper" /\ SM!For("tobacco") = "for_tobacco"
  BY DEF SM!For
<1>5. sem["for_match"] = 0 /\ sem["for_paper"] = 0 /\ sem["for_tobacco"] = 0
  BY <1>3, <1>4 DEF Resource
<1>6. \A s \in Permit : sem[s] = 0
  BY <1>1, <1>3, <1>5 DEF SemSmoked, Permit
<1>7. g.have = {}
  BY <1>1, <1>3 DEF SmokeSemType
<1> QED
  BY <1>1, <1>6, <1>7 DEF SemSmoked, SmokeSemType

(***************************************************************************)
(* soln/smoke.c                                                            *)
(***************************************************************************)
Pusher == {"pusher"} \X Resource
PushThread == {Agent} \cup Pusher \cup Smoker
SolnCond == Resource \cup {"agent_smoke", "pusher_smoke", "for_match", "for_paper", "for_tobacco"}

\* The condition of each place.
SolnWhere(t) ==
  IF t = Agent THEN IF pc[t] = "smoke" THEN "agent_smoke" ELSE "none"
  ELSE CASE pc[t] = "wait" /\ t \in Pusher -> t[2]
         [] pc[t] = "wait" /\ t \notin Pusher -> SS!For(t[2])
         [] pc[t] = "smoker" -> "pusher_smoke"
         [] OTHER -> "none"

SolnSmokeType ==
  /\ DOMAIN g = {"have", "signal_count", "smoke_count"}
  /\ g.have \subseteq Resource /\ Counts
  /\ pc \in [PushThread -> {"start", "wait", "smoke", "smoker", "end"}]
  /\ pc[Agent] \in {"start", "smoke", "end"}
  /\ \A t \in Pusher : pc[t] \in {"start", "wait", "smoker"}
  /\ \A t \in Smoker : pc[t] \in {"start", "wait"}
  /\ lockers \subseteq {t \in PushThread : SolnWhere(t) # "none"}
  /\ WaitersAt(PushThread, SolnCond, [t \in PushThread |-> SolnWhere(t)])

Called == {p \in Pusher : pc[p] = "smoker"}   \* the pushers that have called a smoker

SolnRest ==
  /\ lockers \subseteq {Agent} /\ Called = {} /\ g.have = {}
  /\ pc[Agent] = "smoke" => Agent \in lockers
  /\ g.signal_count = g.smoke_count

SolnOffered(r) ==
  /\ pc[Agent] = "smoke" /\ Owed(r)
  /\ r \notin g.have /\ \E s \in Resource \ {r} : s \notin g.have
  /\ lockers \subseteq {"pusher"} \X (Resource \ (g.have \cup {r}))
  /\ Called = {}

SolnCalled(r, p) ==
  /\ pc[Agent] = "smoke" /\ Owed(r) /\ g.have = {}
  /\ Called = {p} /\ lockers \subseteq {<<"smoker", r>>}

SolnSmoked(p) ==
  /\ pc[Agent] = "smoke" /\ g.signal_count = g.smoke_count /\ g.have = {}
  /\ Called = {p} /\ lockers = {p}

SolnSmokeInv ==
  /\ SolnSmokeType
  /\ \/ SolnRest
     \/ \E r \in Resource : SolnOffered(r) \/ \E p \in Pusher : SolnCalled(r, p)
     \/ \E p \in Pusher : SolnSmoked(p)

\* A thread that waits at the end of its section joins the waiters of that condition, and those
\* it has woken leave theirs.
LEMMA Sectioned ==
  ASSUME NEW Thread, NEW Cond, NEW l, NEW l2, NEW w, NEW w2, NEW where, NEW where2,
         NEW t \in Thread, NEW woken, NEW c,
         \A d \in Cond : w[d] = {x \in Thread : x \notin l /\ where[x] = d},
         t \in l \/ where[t] \notin Cond,
         t \notin woken, where2[t] = c, \A x \in Thread \ {t} : where2[x] = where[x],
         l2 = (l \ {t}) \cup woken,
         w2 = [d \in Cond |-> (w[d] \ woken) \cup (IF d = c THEN {t} ELSE {})]
  PROVE  w2 = [d \in Cond |-> {x \in Thread : x \notin l2 /\ where2[x] = d}]
<1>1. ASSUME NEW d \in Cond
      PROVE  (w[d] \ woken) \cup (IF d = c THEN {t} ELSE {})
               = {x \in Thread : x \notin l2 /\ where2[x] = d}
  <2>1. w[d] = {x \in Thread : x \notin l /\ where[x] = d}
    OBVIOUS
  <2>2. t \notin w[d] /\ t \notin l2
    BY <2>1
  <2>3. \A x \in Thread \ {t} : x \in w[d] \ woken <=> x \notin l2 /\ where2[x] = d
    BY <2>1
  <2> QED
    BY <2>1, <2>2, <2>3
<1> QED
  BY <1>1

\* Where a thread of soln/smoke.c waits tells which thread it is.
LEMMA SolnPlaces ==
  ASSUME SolnSmokeType
  PROVE  /\ \A t \in PushThread :
              /\ \A r \in Resource : /\ SolnWhere(t) = r => t = <<"pusher", r>>
                                     /\ SolnWhere(t) = SS!For(r) => t = <<"smoker", r>>
              /\ SolnWhere(t) = "pusher_smoke" <=> t \in Called
              /\ SolnWhere(t) = "agent_smoke" <=> t = Agent /\ pc[Agent] = "smoke"
         /\ \A c \in SolnCond : waiters[c] = {t \in PushThread : t \notin lockers /\ SolnWhere(t) = c}
         /\ \A r \in Resource : r \in SolnCond /\ SS!For(r) \in SolnCond
<1>1. \A r \in Resource :
        /\ SS!For(r) \in {"for_match", "for_paper", "for_tobacco"}
        /\ \A s \in Resource : SS!For(r) = SS!For(s) => r = s
  BY DEF SS!For, Resource
<1>2. /\ pc[Agent] \in {"start", "smoke", "end"}
      /\ \A t \in Pusher : pc[t] \in {"start", "wait", "smoker"}
      /\ \A t \in Smoker : pc[t] \in {"start", "wait"}
  BY DEF SolnSmokeType
<1>3. /\ Agent \notin Pusher /\ Agent \notin Smoker /\ Pusher \cap Smoker = {}
      /\ \A t \in Pusher \cup Smoker : t[2] \in Resource
      /\ \A t \in Pusher : t = <<"pusher", t[2]>>
      /\ \A t \in Smoker : t = <<"smoker", t[2]>>
  BY DEF Agent, Pusher, Smoker
<1>4. \A t \in PushThread :
        /\ \A r \in Resource : /\ SolnWhere(t) = r => t = <<"pusher", r>>
                               /\ SolnWhere(t) = SS!For(r) => t = <<"smoker", r>>
        /\ SolnWhere(t) = "pusher_smoke" <=> t \in Called
        /\ SolnWhere(t) = "agent_smoke" <=> t = Agent /\ pc[Agent] = "smoke"
  <2>1. SolnWhere(Agent) = IF pc[Agent] = "smoke" THEN "agent_smoke" ELSE "none"
    BY DEF SolnWhere
  <2>2. ASSUME NEW t \in Pusher
        PROVE  SolnWhere(t) = IF pc[t] = "wait" THEN t[2] ELSE IF pc[t] = "smoker" THEN "pusher_smoke" ELSE "none"
    BY <1>3 DEF SolnWhere
  <2>3. ASSUME NEW t \in Smoker
        PROVE  SolnWhere(t) = IF pc[t] = "wait" THEN SS!For(t[2]) ELSE "none"
    BY <1>2, <1>3 DEF SolnWhere
  <2>4. Agent \notin Called /\ \A t \in Smoker : t \notin Called
    BY <1>3 DEF Called
  <2>5. \A t \in Pusher : t \in Called <=> pc[t] = "smoker"
    BY DEF Called
  <2>6. ASSUME NEW t \in Pusher, NEW r \in Resource
        PROVE  /\ SolnWhere(t) = r => t = <<"pusher", r>>
               /\ SolnWhere(t) # SS!For(r) /\ SolnWhere(t) # "agent_smoke"
               /\ SolnWhere(t) = "pusher_smoke" <=> t \in Called
    <3>1. t[2] \in {"match", "paper", "tobacco"} /\ r \in {"match", "paper", "tobacco"}
      BY <1>3 DEF Resource
    <3> QED
      BY <1>1, <1>3, <2>2, <2>5, <3>1
  <2>7. ASSUME NEW t \in Smoker, NEW r \in Resource
        PROVE  /\ SolnWhere(t) = SS!For(r) => t = <<"smoker", r>>
               /\ SolnWhere(t) # r /\ SolnWhere(t) # "agent_smoke" /\ SolnWhere(t) # "pusher_smoke"
    <3>1. t[2] \in Resource /\ t = <<"smoker", t[2]>> /\ r \in {"match", "paper", "tobacco"}
      BY <1>3 DEF Resource
    <3>2. SolnWhere(t) \in {SS!For(t[2]), "none"} /\ SS!For(r) # "none"
      BY <1>1, <2>3
    <3> QED
      BY <1>1, <3>1, <3>2
  <2>8. \A r \in Resource : SolnWhere(Agent) # r /\ SolnWhere(Agent) # SS!For(r)
    BY <1>1, <2>1 DEF Resource
  <2>9. "match" \in Resource
    BY DEF Resource
  <2>10. ASSUME NEW t \in PushThread, NEW r \in Resource
         PROVE  /\ SolnWhere(t) = r => t = <<"pusher", r>>
                /\ SolnWhere(t) = SS!For(r) => t = <<"smoker", r>>
                /\ SolnWhere(t) = "pusher_smoke" <=> t \in Called
                /\ SolnWhere(t) = "agent_smoke" <=> t = Agent /\ pc[Agent] = "smoke"
    <3>1. CASE t = Agent
      BY <2>1, <2>4, <2>8, <3>1
    <3>2. CASE t \in Pusher
      BY <1>3, <2>6, <3>2
    <3>3. CASE t \in Smoker
      BY <1>3, <2>4, <2>7, <3>3
    <3> QED
      BY <3>1, <3>2, <3>3 DEF PushThread
  <2> QED
    BY <2>9, <2>10
<1>5. \A c \in SolnCond : waiters[c] = {t \in PushThread : t \notin lockers /\ SolnWhere(t) = c}
  BY DEF SolnSmokeType, WaitersAt
<1>6. \A r \in Resource : r \in SolnCond /\ SS!For(r) \in SolnCond
  BY <1>1 DEF SolnCond
<1> QED
  BY <1>4, <1>5, <1>6

\* A section of t, from its start or out of its lock call, that ends with a wait for c, or for
\* nothing.
SolnMoves(t, woken, c, place) ==
  /\ pc[t] = "start" \/ t \in lockers
  /\ \/ t = Agent /\ ((place = "smoke" /\ c = "agent_smoke") \/ (place = "end" /\ c = "none"))
     \/ t \in Pusher /\ ((place = "wait" /\ c = t[2]) \/ (place = "smoker" /\ c = "pusher_smoke"))
     \/ t \in Smoker /\ place = "wait" /\ c = SS!For(t[2])
  /\ t \notin woken /\ woken \subseteq lockers \cup UNION {waiters[d] : d \in SolnCond}
  /\ pc' = [pc EXCEPT ![t] = place]
  /\ lockers' = (lockers \ {t}) \cup woken
  /\ waiters' = [d \in SolnCond |-> (waiters[d] \ woken) \cup (IF d = c THEN {t} ELSE {})]

\* It keeps the type and the waiters.
LEMMA SolnSection ==
  ASSUME SolnSmokeType, NEW t \in PushThread, NEW place, NEW woken, NEW c,
         SolnMoves(t, woken, c, place),
         DOMAIN g' = {"have", "signal_count", "smoke_count"}, g'.have \subseteq Resource, Counts'
  PROVE  SolnSmokeType'
<1>0. /\ pc[t] = "start" \/ t \in lockers
      /\ \/ t = Agent /\ ((place = "smoke" /\ c = "agent_smoke") \/ (place = "end" /\ c = "none"))
         \/ t \in Pusher /\ ((place = "wait" /\ c = t[2]) \/ (place = "smoker" /\ c = "pusher_smoke"))
         \/ t \in Smoker /\ place = "wait" /\ c = SS!For(t[2])
      /\ t \notin woken /\ woken \subseteq lockers \cup UNION {waiters[d] : d \in SolnCond}
      /\ pc' = [pc EXCEPT ![t] = place]
      /\ lockers' = (lockers \ {t}) \cup woken
      /\ waiters' = [d \in SolnCond |-> (waiters[d] \ woken) \cup (IF d = c THEN {t} ELSE {})]
  BY DEF SolnMoves
<1>1. /\ pc \in [PushThread -> {"start", "wait", "smoke", "smoker", "end"}]
      /\ pc[Agent] \in {"start", "smoke", "end"}
      /\ \A x \in Pusher : pc[x] \in {"start", "wait", "smoker"}
      /\ \A x \in Smoker : pc[x] \in {"start", "wait"}
      /\ lockers \subseteq {x \in PushThread : SolnWhere(x) # "none"}
      /\ WaitersAt(PushThread, SolnCond, [x \in PushThread |-> SolnWhere(x)])
  BY DEF SolnSmokeType
<1>2. Agent \notin Pusher /\ Agent \notin Smoker /\ Pusher \cap Smoker = {}
  BY DEF Agent, Pusher, Smoker
<1>3. /\ pc' \in [PushThread -> {"start", "wait", "smoke", "smoker", "end"}]
      /\ pc'[t] = place /\ \A x \in PushThread : x # t => pc'[x] = pc[x]
  BY <1>0, <1>1
<1>4. /\ pc'[Agent] \in {"start", "smoke", "end"}
      /\ \A x \in Pusher : pc'[x] \in {"start", "wait", "smoker"}
      /\ \A x \in Smoker : pc'[x] \in {"start", "wait"}
  BY <1>0, <1>1, <1>2, <1>3 DEF PushThread
<1>5. SolnWhere(t)' = c
  BY <1>0, <1>2, <1>3 DEF SolnWhere
<1>6. ASSUME NEW x \in PushThread \ {t} PROVE SolnWhere(x)' = SolnWhere(x)
  BY <1>3 DEF SolnWhere
<1>7. pc[t] = "start" => SolnWhere(t) = "none"
  BY DEF SolnWhere
<1>8. "none" \notin SolnCond
  BY DEF SolnCond, Resource
<1>9. woken \subseteq {x \in PushThread : SolnWhere(x) # "none"}
  <2>1. \A d \in SolnCond : waiters[d] \subseteq {x \in PushThread : SolnWhere(x) # "none"}
    BY <1>8, SolnPlaces
  <2> QED
    BY <1>0, <1>1, <2>1
<1>10. lockers' \subseteq {x \in PushThread : SolnWhere(x)' # "none"}
  BY <1>0, <1>1, <1>5, <1>6, <1>8, <1>9
<1>11. WaitersAt(PushThread, SolnCond, [x \in PushThread |-> SolnWhere(x)])'
  <2> DEFINE where == [x \in PushThread |-> SolnWhere(x)]
             where2 == [x \in PushThread |-> SolnWhere(x)']
  <2>1. \A d \in SolnCond : waiters[d] = {x \in PushThread : x \notin lockers /\ where[x] = d}
    BY <1>1 DEF WaitersAt
  <2>2. t \in lockers \/ where[t] \notin SolnCond
    BY <1>0, <1>7, <1>8
  <2>3. where2[t] = c /\ \A x \in PushThread \ {t} : where2[x] = where[x]
    BY <1>5, <1>6
  <2> HIDE DEF where, where2
  <2>4. waiters' = [d \in SolnCond |-> {x \in PushThread : x \notin lockers' /\ where2[x] = d}]
    BY <1>0, <2>1, <2>2, <2>3, Sectioned, SMTT(30)
  <2> QED
    BY <2>4 DEF WaitersAt, where2
<1> QED
  BY <1>3, <1>4, <1>10, <1>11 DEF SolnSmokeType

\* Nobody has come at first.
LEMMA SolnSmokeInit == SS!Init => SolnSmokeInv
<1> SUFFICES ASSUME SS!Init PROVE SolnSmokeInv
  OBVIOUS
<1>1. SS!Thread = PushThread /\ SS!Cond = SolnCond
  BY SmokeNames DEF SS!Thread, SS!Pusher, PushThread, Pusher, SS!Cond, SolnCond
<1>2. /\ g = [have |-> {}, signal_count |-> [r \in Resource |-> 0], smoke_count |-> [r \in Resource |-> 0]]
      /\ pc = [t \in PushThread |-> "start"] /\ lockers = {} /\ waiters = [c \in SolnCond |-> {}]
  BY <1>1, SmokeNames DEF SS!Init, SS!mx!Init
<1>3. Agent \in PushThread /\ Pusher \subseteq PushThread /\ Smoker \subseteq PushThread
  BY DEF PushThread
<1>4. \A t \in PushThread : SolnWhere(t) = "none"
  BY <1>2 DEF SolnWhere
<1>5. WaitersAt(PushThread, SolnCond, [t \in PushThread |-> SolnWhere(t)])
  <2>1. "none" \notin SolnCond
    BY DEF SolnCond, Resource
  <2> QED
    BY <1>2, <1>4, <2>1 DEF WaitersAt
<1>6. SolnSmokeType
  BY <1>2, <1>3, <1>5 DEF SolnSmokeType, Counts
<1>7. SolnRest
  BY <1>2, <1>3 DEF SolnRest, Called
<1> QED
  BY <1>6, <1>7 DEF SolnSmokeInv

\* What a section that ends with a wait does, in the terms of SolnSection.
LEMMA SolnWait ==
  ASSUME SolnSmokeType, NEW t \in PushThread, NEW place, NEW woken, NEW c, SS!WaitFor(t, woken, c, place)
  PROVE  /\ lockers' = (lockers \ {t}) \cup woken
         /\ waiters' = [d \in SolnCond |-> (waiters[d] \ woken) \cup (IF d = c THEN {t} ELSE {})]
         /\ pc' = [pc EXCEPT ![t] = place]
         /\ pc'[t] = place /\ \A x \in PushThread : x # t => pc'[x] = pc[x]
<1>1. SS!Cond = SolnCond
  BY SmokeNames DEF SS!Cond, SolnCond
<1>2. pc = [x \in PushThread |-> pc[x]]
  BY DEF SolnSmokeType
<1> QED
  BY <1>1, <1>2 DEF SS!WaitFor, SS!mx!SectionWait

\* The round, by the place of the thread that comes back.
LEMMA SolnRound ==
  ASSUME SolnSmokeInv
  PROVE  /\ pc[Agent] = "start" \/ Agent \in lockers => SolnRest
         /\ \A t \in Pusher : t \in lockers /\ pc[t] = "wait" => \E r \in Resource : SolnOffered(r)
         /\ \A t \in Pusher : t \in lockers /\ pc[t] = "smoker" => SolnSmoked(t)
         /\ \A t \in Smoker : t \in lockers => \E r \in Resource, p \in Pusher : SolnCalled(r, p) /\ t = <<"smoker", r>>
<1>1. Agent \notin Pusher /\ Agent \notin Smoker /\ Pusher \cap Smoker = {}
  BY DEF Agent, Pusher, Smoker
<1>2. \A r, have : {"pusher"} \X (Resource \ (have \cup {r})) \subseteq Pusher
  BY DEF Pusher
<1>3. \A r \in Resource : <<"smoker", r>> \in Smoker
  BY DEF Smoker
<1>4. \A p : p \in Called <=> p \in Pusher /\ pc[p] = "smoker"
  BY DEF Called
<1>5. CASE SolnRest
  BY <1>1, <1>4, <1>5 DEF SolnRest
<1>6. CASE \E r \in Resource : SolnOffered(r)
  BY <1>1, <1>2, <1>4, <1>6 DEF SolnOffered
<1>7. CASE \E r \in Resource, p \in Pusher : SolnCalled(r, p)
  BY <1>1, <1>3, <1>4, <1>7 DEF SolnCalled
<1>8. CASE \E p \in Pusher : SolnSmoked(p)
  BY <1>1, <1>4, <1>8 DEF SolnSmoked
<1> QED
  BY <1>5, <1>6, <1>7, <1>8 DEF SolnSmokeInv

\* Every step keeps the invariant of soln/smoke.c.
LEMMA SolnSmokeNext ==
  ASSUME SolnSmokeInv, SS!Next
  PROVE  SolnSmokeInv'
<1>1. /\ SolnSmokeType /\ DOMAIN g = {"have", "signal_count", "smoke_count"} /\ g.have \in SUBSET Resource
      /\ g.signal_count \in [Resource -> Nat] /\ g.smoke_count \in [Resource -> Nat]
      /\ lockers \subseteq PushThread
  BY DEF SolnSmokeInv, SolnSmokeType, Counts
<1>2. /\ Agent \notin Pusher /\ Agent \notin Smoker /\ Pusher \cap Smoker = {}
      /\ Agent \in PushThread /\ Pusher \subseteq PushThread /\ Smoker \subseteq PushThread
      /\ \A r \in Resource : /\ <<"pusher", r>> \in Pusher /\ <<"pusher", r>>[2] = r
                             /\ <<"smoker", r>> \in Smoker /\ <<"smoker", r>>[2] = r
  BY DEF Agent, Pusher, Smoker, PushThread
<1>3. ASSUME NEW t \in PushThread,
             \A x \in Pusher : pc'[x] = "smoker" <=> pc[x] = "smoker"
      PROVE  Called' = Called
  BY <1>3 DEF Called
<1>4. ASSUME NEW t \in Pusher \cup Smoker, SS!Begin(t) PROVE SolnSmokeInv'
  <2> DEFINE c == IF t \in Pusher THEN t[2] ELSE SS!For(t[2])
  <2>1. pc[t] = "start" /\ g' = g /\ SS!WaitFor(t, {}, c, "wait")
    BY <1>4 DEF SS!Begin, SS!Pusher, Pusher, SS!Resource, Resource
  <2>2. t \in PushThread /\ t # Agent
    BY <1>2
  <2>3. /\ lockers' = (lockers \ {t}) \cup {} /\ pc' = [pc EXCEPT ![t] = "wait"]
        /\ waiters' = [d \in SolnCond |-> (waiters[d] \ {}) \cup (IF d = c THEN {t} ELSE {})]
        /\ pc'[t] = "wait" /\ \A x \in PushThread : x # t => pc'[x] = pc[x]
    BY <1>1, <2>1, <2>2, SolnWait
  <2>4. SolnSmokeType'
    <3>1. (t \in Pusher /\ c = t[2]) \/ (t \in Smoker /\ c = SS!For(t[2]))
      BY <1>2
    <3>2. Counts'
      BY <1>1, <2>1 DEF Counts
    <3> HIDE DEF c
    <3>3. SolnMoves(t, {}, c, "wait")
      BY <2>1, <2>3, <3>1 DEF SolnMoves
    <3> QED
      BY <1>1, <2>1, <2>2, <3>2, <3>3, SolnSection
  <2>5. t \notin lockers
    BY <1>1, <2>1, <2>2 DEF SolnSmokeType, SolnWhere
  <2>6. Called' = Called /\ lockers' = lockers /\ pc'[Agent] = pc[Agent]
    BY <1>2, <2>1, <2>2, <2>3, <2>5 DEF Called
  <2>7. /\ SolnRest' <=> SolnRest
        /\ \A r \in Resource : /\ SolnOffered(r)' <=> SolnOffered(r)
                               /\ \A p \in Pusher : SolnCalled(r, p)' <=> SolnCalled(r, p)
        /\ \A p \in Pusher : SolnSmoked(p)' <=> SolnSmoked(p)
    BY <2>1, <2>6 DEF SolnRest, SolnOffered, SolnCalled, SolnSmoked, Owed
  <2> QED
    BY <2>4, <2>7 DEF SolnSmokeInv
<1>5. CASE SS!agent
  <2>1. pc[Agent] = "start" \/ (pc[Agent] = "smoke" /\ Agent \in lockers)
    BY <1>5, SmokeNames DEF SS!agent, SS!Back
  <2>2. SolnRest
    BY <2>1, SolnRound
  <2>3. lockers \subseteq {Agent} /\ Called = {} /\ g.have = {} /\ g.signal_count = g.smoke_count
    BY <2>2 DEF SolnRest
  <2>4. CASE /\ SS!mx!Section(Agent, {}) /\ pc' = [pc EXCEPT ![Agent] = "end"] /\ g' = g
    <3>1. SS!Cond = SolnCond
      BY SmokeNames DEF SS!Cond, SolnCond
    <3>2. /\ lockers' = (lockers \ {Agent}) \cup {}
          /\ waiters' = [d \in SolnCond |-> waiters[d] \ {}]
      BY <2>4, <3>1 DEF SS!mx!Section
    <3>3. waiters' = [d \in SolnCond |-> (waiters[d] \ {}) \cup (IF d = "none" THEN {Agent} ELSE {})]
      BY <3>2 DEF SolnCond, Resource
    <3>4. pc'[Agent] = "end" /\ \A x \in Pusher : pc'[x] = pc[x]
      BY <1>1, <1>2, <2>4 DEF SolnSmokeType
    <3>5. SolnSmokeType'
      <4>1. Counts'
        BY <1>1, <2>4 DEF Counts
      <4>2. SolnMoves(Agent, {}, "none", "end")
        BY <2>1, <2>4, <3>2, <3>3 DEF SolnMoves
      <4> QED
        BY <1>1, <1>2, <2>4, <4>1, <4>2, SolnSection
    <3>6. SolnRest'
      BY <2>3, <2>4, <3>2, <3>4 DEF SolnRest, Called
    <3> QED
      BY <3>5, <3>6 DEF SolnSmokeInv
  <2>5. CASE \E r \in Resource :
               /\ g' = [g EXCEPT !.signal_count[r] = @ + 1]
               /\ \E woken \in SUBSET UNION {waiters[s] : s \in Resource \ {r}} :
                    SS!WaitFor(Agent, woken, "agent_smoke", "smoke")
    <3>0. PICK r \in Resource :
            /\ g' = [g EXCEPT !.signal_count[r] = @ + 1]
            /\ \E woken \in SUBSET UNION {waiters[s] : s \in Resource \ {r}} :
                 SS!WaitFor(Agent, woken, "agent_smoke", "smoke")
      BY <2>5, Zenon
    <3>1. PICK woken \in SUBSET UNION {waiters[s] : s \in Resource \ {r}} :
            g' = [g EXCEPT !.signal_count[r] = @ + 1] /\ SS!WaitFor(Agent, woken, "agent_smoke", "smoke")
      BY <3>0, Zenon
    <3>2. /\ lockers' = (lockers \ {Agent}) \cup woken /\ pc' = [pc EXCEPT ![Agent] = "smoke"]
          /\ waiters' = [d \in SolnCond |-> (waiters[d] \ woken) \cup (IF d = "agent_smoke" THEN {Agent} ELSE {})]
          /\ pc'[Agent] = "smoke" /\ \A x \in PushThread : x # Agent => pc'[x] = pc[x]
      BY <1>1, <1>2, <3>1, SolnWait
    <3>3. woken \subseteq {"pusher"} \X (Resource \ {r})
      <4>1. ASSUME NEW s \in Resource \ {r} PROVE waiters[s] \subseteq {<<"pusher", s>>}
        BY <1>1, SolnPlaces
      <4> QED
        BY <4>1
    <3>4. woken \subseteq UNION {waiters[d] : d \in SolnCond}
      BY <1>1, SolnPlaces
    <3>5. /\ g'.have = g.have /\ g'.smoke_count = g.smoke_count /\ DOMAIN g' = DOMAIN g
          /\ g'.signal_count = [g.signal_count EXCEPT ![r] = @ + 1]
      BY <1>1, <3>1
    <3>6. SolnSmokeType'
      <4>1. Counts'
        BY <1>1, <3>5 DEF Counts
      <4>2. Agent \notin woken
        BY <3>3 DEF Agent
      <4>3. SolnMoves(Agent, woken, "agent_smoke", "smoke")
        BY <2>1, <3>2, <3>4, <4>2 DEF SolnMoves
      <4> QED
        BY <1>1, <1>2, <3>5, <4>1, <4>3, SolnSection
    <3>7. Called' = {}
      BY <1>2, <2>3, <3>2 DEF Called
    <3>8. Owed(r)'
      BY <1>1, <2>3, <3>5 DEF Owed
    <3>9. SolnOffered(r)'
      <4>1. \E s \in Resource \ {r} : s \notin g'.have
        BY <2>3, <3>5 DEF Resource
      <4>2. lockers' \subseteq {"pusher"} \X (Resource \ (g'.have \cup {r}))
        BY <2>3, <3>2, <3>3, <3>5
      <4> QED
        BY <2>3, <3>2, <3>5, <3>7, <3>8, <4>1, <4>2 DEF SolnOffered
    <3> QED
      BY <3>6, <3>9 DEF SolnSmokeInv
  <2> QED
    BY <1>5, <2>4, <2>5, SmokeNames DEF SS!agent
<1>6. ASSUME NEW s \in Resource, SS!Push(<<"pusher", s>>) PROVE SolnSmokeInv'
  <2> DEFINE t == <<"pusher", s>>
  <2>1. t \in Pusher /\ t \in PushThread /\ t # Agent /\ t[2] = s /\ t \in lockers /\ pc[t] = "wait"
    BY <1>2, <1>6 DEF SS!Push, SS!Back
  <2>2. PICK r \in Resource : SolnOffered(r)
    BY <2>1, SolnRound
  <2>3. s # r /\ s \notin g.have
    BY <2>1, <2>2 DEF SolnOffered
  <2>4. CASE g.have \subseteq {s}
    <3>1. SS!WaitFor(t, {}, s, "wait") /\ g' = [g EXCEPT !.have = g.have \cup {s}]
      <4>1. SS!Cardinality(g.have \cup {s}) < 2
        BY <1>1, <2>4, TwoResources
      <4> QED
        BY <1>6, <2>1, <4>1 DEF SS!Push
    <3>2. /\ lockers' = (lockers \ {t}) \cup {} /\ pc' = [pc EXCEPT ![t] = "wait"]
          /\ waiters' = [d \in SolnCond |-> (waiters[d] \ {}) \cup (IF d = s THEN {t} ELSE {})]
          /\ pc'[t] = "wait" /\ \A x \in PushThread : x # t => pc'[x] = pc[x]
      BY <1>1, <2>1, <3>1, SolnWait
    <3>3. /\ g'.have = {s} /\ g'.smoke_count = g.smoke_count /\ DOMAIN g' = DOMAIN g
          /\ g'.signal_count = g.signal_count
      BY <1>1, <2>3, <2>4, <3>1
    <3>4. SolnSmokeType'
      <4>1. Counts'
        BY <1>1, <3>3 DEF Counts
      <4> HIDE DEF t
      <4>2. SolnMoves(t, {}, s, "wait")
        BY <2>1, <3>2 DEF SolnMoves
      <4> QED
        BY <1>1, <2>1, <3>3, <4>1, <4>2, SolnSection
    <3>5. Called' = Called
      BY <1>2, <2>1, <3>2 DEF Called
    <3>6. SolnOffered(r)'
      <4>1. \E x \in Resource \ {r} : x \notin g'.have
        BY <2>2, <3>3 DEF Resource
      <4>2. lockers' \subseteq {"pusher"} \X (Resource \ (g'.have \cup {r}))
        BY <2>2, <3>2, <3>3 DEF SolnOffered
      <4> QED
        BY <1>2, <2>1, <2>2, <2>3, <3>2, <3>3, <3>5, <4>1, <4>2 DEF SolnOffered, Owed
    <3> QED
      BY <3>4, <3>6 DEF SolnSmokeInv
  <2>5. CASE ~(g.have \subseteq {s})
    <3>1. g.have \cup {s} = Resource \ {r}
      BY <1>1, <2>2, <2>3, <2>5 DEF Resource, SolnOffered
    <3>2. PICK woken \in SS!mx!Signalled(SS!For(r)) :
            SS!WaitFor(t, woken, "pusher_smoke", "smoker") /\ g' = [g EXCEPT !.have = (g.have \cup {s}) \cap {r}]
      <4>1. ~(SS!Cardinality(g.have \cup {s}) < 2) /\ SS!Match(g.have \cup {s}) = r
        BY <1>1, <2>5, <3>1, TwoResources, MatchOfTwo
      <4> QED
        BY <1>6, <2>1, <4>1 DEF SS!Push, SS!Taken
    <3>3. /\ g'.have = {} /\ g'.smoke_count = g.smoke_count /\ DOMAIN g' = DOMAIN g
          /\ g'.signal_count = g.signal_count
      BY <1>1, <3>1, <3>2
    <3>4. woken \subseteq {<<"smoker", r>>} /\ woken \subseteq UNION {waiters[d] : d \in SolnCond}
      BY <1>1, <3>2, SolnPlaces DEF SS!mx!Signalled
    <3>5. /\ lockers' = (lockers \ {t}) \cup woken /\ pc' = [pc EXCEPT ![t] = "smoker"]
          /\ waiters' = [d \in SolnCond |-> (waiters[d] \ woken) \cup (IF d = "pusher_smoke" THEN {t} ELSE {})]
          /\ pc'[t] = "smoker" /\ \A x \in PushThread : x # t => pc'[x] = pc[x]
      BY <1>1, <2>1, <3>2, SolnWait
    <3>6. SolnSmokeType'
      <4>1. Counts'
        BY <1>1, <3>3 DEF Counts
      <4>2. t \notin woken
        BY <3>4
      <4> HIDE DEF t
      <4>3. SolnMoves(t, woken, "pusher_smoke", "smoker")
        BY <2>1, <3>4, <3>5, <4>2 DEF SolnMoves
      <4> QED
        BY <1>1, <2>1, <3>3, <4>1, <4>3, SolnSection
    <3>7. Called' = {t}
      <4>1. Called = {}
        BY <2>2 DEF SolnOffered
      <4> QED
        BY <1>2, <2>1, <3>5, <4>1 DEF Called
    <3>8. lockers' \subseteq {<<"smoker", r>>}
      <4>1. lockers \subseteq {"pusher"} \X (Resource \ (g.have \cup {r}))
        BY <2>2 DEF SolnOffered
      <4>2. Resource \ (g.have \cup {r}) \subseteq {s}
        BY <3>1
      <4> QED
        BY <3>4, <3>5, <4>1, <4>2
    <3>9. SolnCalled(r, t)'
      BY <1>2, <2>1, <2>2, <3>3, <3>5, <3>7, <3>8 DEF SolnCalled, SolnOffered, Owed
    <3> QED
      BY <2>1, <3>6, <3>9 DEF SolnSmokeInv
  <2> QED
    BY <2>4, <2>5
<1>7. ASSUME NEW t \in Pusher, SS!Smoked(t) PROVE SolnSmokeInv'
  <2>1. t \in PushThread /\ t # Agent /\ t \in lockers /\ pc[t] = "smoker"
    BY <1>2, <1>7 DEF SS!Smoked, SS!Back
  <2>2. SolnSmoked(t)
    BY <2>1, SolnRound
  <2>3. "agent_smoke" \in SolnCond /\ waiters["agent_smoke"] = {Agent}
    <3>1. "agent_smoke" \in SolnCond
      BY DEF SolnCond
    <3>2. pc[Agent] = "smoke" /\ Agent \notin lockers
      BY <2>1, <2>2 DEF SolnSmoked
    <3> QED
      BY <1>1, <1>2, <3>1, <3>2, SolnPlaces
  <2>4. SS!WaitFor(t, {Agent}, t[2], "wait") /\ g' = g
    BY <1>7, <2>3 DEF SS!Smoked, SS!mx!Signalled
  <2>5. /\ lockers' = (lockers \ {t}) \cup {Agent} /\ pc' = [pc EXCEPT ![t] = "wait"]
        /\ waiters' = [d \in SolnCond |-> (waiters[d] \ {Agent}) \cup (IF d = t[2] THEN {t} ELSE {})]
        /\ pc'[t] = "wait" /\ \A x \in PushThread : x # t => pc'[x] = pc[x]
    BY <1>1, <2>1, <2>4, SolnWait
  <2>6. SolnSmokeType'
    <3>1. Counts'
      BY <1>1, <2>4 DEF Counts
    <3>2. SolnMoves(t, {Agent}, t[2], "wait")
      BY <2>1, <2>3, <2>5 DEF SolnMoves
    <3> QED
      BY <1>1, <2>1, <2>4, <3>1, <3>2, SolnSection
  <2>7. Called' = {}
    BY <1>2, <2>1, <2>2, <2>5 DEF Called, SolnSmoked
  <2>8. SolnRest'
    BY <1>2, <2>1, <2>2, <2>4, <2>5, <2>7 DEF SolnRest, SolnSmoked
  <2> QED
    BY <2>6, <2>8 DEF SolnSmokeInv
<1>8. ASSUME NEW t \in Smoker, SS!smoke(t) PROVE SolnSmokeInv'
  <2>1. t \in PushThread /\ t # Agent /\ t \in lockers /\ pc[t] = "wait"
    BY <1>2, <1>8 DEF SS!smoke, SS!Back
  <2>2. PICK r \in Resource, p \in Pusher : SolnCalled(r, p) /\ t = <<"smoker", r>>
    BY <2>1, SolnRound
  <2>3. t[2] = r /\ p \in PushThread /\ p # t
    BY <1>2, <2>2
  <2>4. "pusher_smoke" \in SolnCond /\ waiters["pusher_smoke"] = {p}
    <3>1. "pusher_smoke" \in SolnCond
      BY DEF SolnCond
    <3>2. Called = {p} /\ p \notin lockers
      BY <1>2, <2>2, <2>3 DEF SolnCalled
    <3> QED
      BY <1>1, <2>3, <3>1, <3>2, SolnPlaces
  <2>5. SS!WaitFor(t, {p}, SS!For(t[2]), "wait") /\ g' = [g EXCEPT !.smoke_count[r] = @ + 1]
    BY <1>8, <2>3, <2>4 DEF SS!smoke, SS!mx!Signalled
  <2>6. /\ lockers' = (lockers \ {t}) \cup {p} /\ pc' = [pc EXCEPT ![t] = "wait"]
        /\ waiters' = [d \in SolnCond |-> (waiters[d] \ {p}) \cup (IF d = SS!For(t[2]) THEN {t} ELSE {})]
        /\ pc'[t] = "wait" /\ \A x \in PushThread : x # t => pc'[x] = pc[x]
    BY <1>1, <2>1, <2>5, SolnWait
  <2>7. /\ g'.have = g.have /\ g'.signal_count = g.signal_count /\ DOMAIN g' = DOMAIN g
        /\ g'.smoke_count = [g.smoke_count EXCEPT ![r] = @ + 1]
    BY <1>1, <2>5
  <2>8. SolnSmokeType'
    <3>1. Counts'
      BY <1>1, <2>7 DEF Counts
    <3>2. SolnMoves(t, {p}, SS!For(t[2]), "wait")
      BY <2>1, <2>3, <2>4, <2>6 DEF SolnMoves
    <3> QED
      BY <1>1, <2>1, <2>7, <3>1, <3>2, SolnSection
  <2>9. Called' = Called
    BY <1>2, <2>1, <2>6 DEF Called
  <2>10. SolnSmoked(p)'
    <3>1. lockers' = {p}
      BY <2>2, <2>6 DEF SolnCalled
    <3>2. g'.signal_count = g'.smoke_count
      BY <1>1, <2>2, <2>7 DEF SolnCalled, Owed
    <3> QED
      BY <1>2, <2>1, <2>2, <2>6, <2>7, <2>9, <3>1, <3>2 DEF SolnSmoked, SolnCalled
  <2> QED
    BY <2>8, <2>10 DEF SolnSmokeInv
<1>9. SS!Pusher = Pusher /\ SS!Thread = PushThread
  BY SmokeNames DEF SS!Thread, SS!Pusher, PushThread, Pusher
<1>10. PICK t \in PushThread : SS!Step(t)
  BY <1>9 DEF SS!Next
<1>11. ASSUME t \in Pusher, SS!Push(t) PROVE SolnSmokeInv'
  BY <1>6, <1>11 DEF Pusher
<1> QED
  BY <1>4, <1>5, <1>7, <1>8, <1>9, <1>10, <1>11, SmokeNames DEF SS!Step, SS!pusher

\* A step that leaves soln/smoke.c alone does too, and the property follows from the invariant.
LEMMA SolnSmokeStep == SolnSmokeInv /\ [SS!Next]_SS!vars => SolnSmokeInv'
<1>1. ASSUME SolnSmokeInv, UNCHANGED SS!vars PROVE SolnSmokeInv'
  BY <1>1 DEF SS!vars, SS!monitor, SolnSmokeInv, SolnSmokeType, Counts, WaitersAt, SolnWhere,
     SolnRest, SolnOffered, SolnCalled, SolnSmoked, Called, Owed
<1> QED
  BY <1>1, SolnSmokeNext

\* What is owed is the one that was offered.
LEMMA OwedCounts ==
  ASSUME Counts, g.signal_count = g.smoke_count \/ \E r \in Resource : Owed(r)
  PROVE  \A r \in Resource : g.signal_count[r] - g.smoke_count[r] \in 0 .. 1
<1>1. ASSUME NEW r \in Resource, NEW s \in Resource, Owed(r)
      PROVE  g.signal_count[s] = IF s = r THEN g.smoke_count[s] + 1 ELSE g.smoke_count[s]
  BY <1>1 DEF Counts, Owed
<1>2. \A s \in Resource : g.signal_count[s] \in Nat /\ g.smoke_count[s] \in Nat
  BY DEF Counts
<1> QED
  BY <1>1, <1>2

\* Before an offer everything is smoked; during one, all but the turn of one smoker is.
LEMMA SolnSmokeRule == SolnSmokeInv => SS!OffersSmoked
<1> SUFFICES ASSUME SolnSmokeInv PROVE SS!OffersSmoked
  OBVIOUS
<1>1. pc[Agent] = "end" \/ Agent \in lockers => g.signal_count = g.smoke_count /\ g.have = {}
  <2>1. ASSUME pc[Agent] = "end" PROVE SolnRest
    BY <2>1 DEF SolnSmokeInv, SolnOffered, SolnCalled, SolnSmoked
  <2> QED
    BY <2>1, SolnRound DEF SolnRest
<1>2. g.signal_count = g.smoke_count \/ \E r \in Resource : Owed(r)
  BY DEF SolnSmokeInv, SolnRest, SolnOffered, SolnCalled, SolnSmoked
<1>3. Counts
  BY DEF SolnSmokeInv, SolnSmokeType
<1> QED
  BY <1>1, <1>2, <1>3, OwedCounts, SmokeNames DEF SS!OffersSmoked, SS!Back

(***************************************************************************)
(* smoke.c                                                                 *)
(***************************************************************************)
Manager == {"manager"} \X Resource
SmokeThread == {Agent} \cup Manager \cup Smoker
SmokeCond == Resource \cup {"smoke", "signal_go", "smoker_go", "new_i", "last_man"}

\* The condition of each place.
SmokeWhere(t) ==
  CASE pc[t] \in {"signal_go", "smoke", "last_man", "new_i"} -> pc[t]
    [] pc[t] = "resource" -> t[2]
    [] pc[t] \in {"idle", "matched"} -> "smoker_go"
    [] OTHER -> "none"

SmokeType ==
  /\ DOMAIN g = {"sig", "mans", "smoks", "done", "signal_count", "smoke_count"}
  /\ g.sig \in [Resource -> Int] /\ g.mans \in Int /\ g.smoks \in Int /\ g.done \in Int /\ Counts
  /\ pc \in [SmokeThread -> {"start", "end", "signal_go", "smoke", "last_man", "resource", "new_i", "idle", "matched"}]
  /\ pc[Agent] \in {"start", "end", "signal_go", "smoke", "last_man"}
  /\ \A t \in Manager : pc[t] \in {"start", "end", "resource", "new_i"}
  /\ \A t \in Smoker : pc[t] \in {"start", "end", "idle", "matched", "new_i"}
  /\ lockers \subseteq {t \in SmokeThread : SmokeWhere(t) # "none"}
  /\ WaitersAt(SmokeThread, SmokeCond, [t \in SmokeThread |-> SmokeWhere(t)])

Man(r) == <<"manager", r>>
Smo(r) == <<"smoker", r>>
Fresh(t) == pc[t] \in {"start", "end"} \/ (pc[t] = "new_i" /\ t \in lockers)
Done(t) == pc[t] = "new_i" /\ t \notin lockers
Ready(t) == pc[t] = "resource" /\ t \notin lockers
Told(t) == pc[t] = "resource" /\ t \in lockers
One(b) == IF b THEN 1 ELSE 0
SumOf(f) == f["match"] + f["paper"] + f["tobacco"]
ReadyMen == [r \in Resource |-> One(Ready(Man(r)))]
DoneMen == [r \in Resource |-> One(Done(Man(r)))]
DoneSmokers == [r \in Resource |-> One(Done(Smo(r)))]
NoSig == \A r \in Resource : g.sig[r] = 0

\* Between two rounds managers count themselves and wait for their resources.
Gathering ==
  /\ pc[Agent] \in {"start", "signal_go", "end"}
  /\ g.signal_count = g.smoke_count
  /\ NoSig /\ g.smoks = 0 /\ g.done = 0
  /\ g.mans = SumOf(ReadyMen)
  /\ \A r \in Resource : (Fresh(Man(r)) \/ Ready(Man(r))) /\ (Fresh(Smo(r)) \/ pc[Smo(r)] = "idle")

\* Two managers have been told, and count their resources; others than the smoker of r find
\* nothing to smoke when both have.
Offered(r) ==
  /\ pc[Agent] = "smoke" /\ Agent \notin lockers
  /\ Owed(r)
  /\ Ready(Man(r)) /\ g.sig[r] = 0
  /\ \A s \in Resource \ {r} :
       /\ Told(Man(s)) \/ Done(Man(s))
       /\ Fresh(Smo(s)) \/ pc[Smo(s)] = "idle" \/ (Done(Smo(s)) /\ g.smoks = 2)
       /\ g.sig[s] = IF pc[Smo(r)] = "matched" THEN 0 ELSE DoneMen[s]
  /\ g.smoks = SumOf(DoneMen)
  /\ g.done = g.mans /\ g.mans = g.smoks + SumOf(DoneSmokers)
  /\ Fresh(Smo(r)) \/ pc[Smo(r)] = "idle" \/ (pc[Smo(r)] = "matched" /\ g.smoks = 2)

\* It has been smoked: all but the third manager have done the round.
Smoked(r) ==
  /\ pc[Agent] \in {"smoke", "last_man"} /\ (pc[Agent] = "smoke" <=> Agent \in lockers)
  /\ g.signal_count = g.smoke_count
  /\ NoSig /\ g.smoks = 2 /\ g.done = 5
  /\ IF pc[Agent] = "smoke" THEN Ready(Man(r)) ELSE Told(Man(r))
  /\ \A s \in Resource : (s # r => Done(Man(s))) /\ Done(Smo(s))

\* All have done it.
AllDone ==
  /\ pc[Agent] = "last_man" /\ Agent \in lockers
  /\ g.signal_count = g.smoke_count
  /\ g.done = 6
  /\ \A s \in Resource : Done(Man(s)) /\ Done(Smo(s))

SmokeInv ==
  /\ SmokeType
  /\ Gathering \/ AllDone \/ \E r \in Resource : Offered(r) \/ Smoked(r)

\* Three numbers of 0 or 1.
LEMMA SumOfOnes ==
  ASSUME NEW f \in [Resource -> 0 .. 1]
  PROVE  /\ SumOf(f) \in 0 .. 3
         /\ SumOf(f) = 3 <=> \A r \in Resource : f[r] = 1
         /\ (\A r \in Resource : f[r] = 0) => SumOf(f) = 0
         /\ \A r \in Resource : f[r] = 0 => /\ SumOf(f) =< 2
                                            /\ SumOf(f) = 2 <=> \A s \in Resource \ {r} : f[s] = 1
                                            /\ SumOf([f EXCEPT ![r] = 1]) = SumOf(f) + 1
<1>1. f["match"] \in 0 .. 1 /\ f["paper"] \in 0 .. 1 /\ f["tobacco"] \in 0 .. 1
  BY DEF Resource
<1>2. SumOf(f) \in 0 .. 3 /\ (SumOf(f) = 3 <=> f["match"] = 1 /\ f["paper"] = 1 /\ f["tobacco"] = 1)
  BY <1>1 DEF SumOf
<1>3. f["match"] = 0 /\ f["paper"] = 0 /\ f["tobacco"] = 0 => SumOf(f) = 0
  BY <1>1 DEF SumOf
<1>4. ASSUME NEW r \in Resource, f[r] = 0
      PROVE  /\ SumOf(f) =< 2
             /\ SumOf(f) = 2 <=> \A s \in Resource \ {r} : f[s] = 1
  <2>1. r \in {"match", "paper", "tobacco"} /\ Resource = {"match", "paper", "tobacco"}
    BY DEF Resource
  <2> QED
    BY <1>1, <1>4, <2>1 DEF SumOf
<1>5. ASSUME NEW r \in Resource, f[r] = 0
      PROVE  SumOf([f EXCEPT ![r] = 1]) = SumOf(f) + 1
  <2> DEFINE f2 == [f EXCEPT ![r] = 1]
  <2>1. r \in {"match", "paper", "tobacco"}
    BY DEF Resource
  <2>2. /\ f2["match"] = IF r = "match" THEN 1 ELSE f["match"]
        /\ f2["paper"] = IF r = "paper" THEN 1 ELSE f["paper"]
        /\ f2["tobacco"] = IF r = "tobacco" THEN 1 ELSE f["tobacco"]
    BY DEF Resource
  <2> HIDE DEF f2
  <2>3. SumOf(f2) = SumOf(f) + 1
    BY <1>1, <1>5, <2>1, <2>2 DEF SumOf
  <2> QED
    BY <2>3 DEF f2
<1> QED
  BY <1>2, <1>3, <1>4, <1>5 DEF Resource

\* The threads of smoke.c.
LEMMA SmokeThreads ==
  /\ S!Thread = SmokeThread /\ S!Manager = Manager /\ S!Cond = SmokeCond
  /\ Agent \in SmokeThread /\ Manager \subseteq SmokeThread /\ Smoker \subseteq SmokeThread
  /\ Agent \notin Manager /\ Agent \notin Smoker /\ Manager \cap Smoker = {}
  /\ \A r \in Resource : /\ Man(r) \in Manager /\ Smo(r) \in Smoker
                         /\ Man(r)[2] = r /\ Smo(r)[2] = r
                         /\ \A s \in Resource : (Man(r) = Man(s) <=> r = s) /\ (Smo(r) = Smo(s) <=> r = s)
  /\ \A t \in Manager : t[2] \in Resource /\ t = Man(t[2])
  /\ \A t \in Smoker : t[2] \in Resource /\ t = Smo(t[2])
<1>1. S!Manager = Manager /\ S!Thread = SmokeThread /\ S!Cond = SmokeCond
  BY SmokeNames DEF S!Thread, S!Manager, SmokeThread, Manager, S!Cond, SmokeCond
<1>2. /\ Agent \in SmokeThread /\ Manager \subseteq SmokeThread /\ Smoker \subseteq SmokeThread
      /\ Agent \notin Manager /\ Agent \notin Smoker /\ Manager \cap Smoker = {}
  BY DEF SmokeThread, Agent, Manager, Smoker
<1>3. /\ \A r \in Resource : /\ Man(r) \in Manager /\ Smo(r) \in Smoker
                             /\ Man(r)[2] = r /\ Smo(r)[2] = r
      /\ \A t \in Manager : t[2] \in Resource /\ t = Man(t[2])
      /\ \A t \in Smoker : t[2] \in Resource /\ t = Smo(t[2])
  BY DEF Man, Smo, Manager, Smoker
<1>4. \A r, s \in Resource : (Man(r) = Man(s) <=> r = s) /\ (Smo(r) = Smo(s) <=> r = s)
  BY DEF Man, Smo
<1> QED
  BY <1>1, <1>2, <1>3, <1>4

\* Who waits on which condition.
LEMMA SmokePlaces ==
  ASSUME SmokeType
  PROVE  /\ \A c \in SmokeCond : waiters[c] = {t \in SmokeThread : t \notin lockers /\ SmokeWhere(t) = c}
         /\ Resource \subseteq SmokeCond
         /\ {"smoke", "signal_go", "smoker_go", "new_i", "last_man"} \subseteq SmokeCond
         /\ \A r \in Resource : waiters[r] = IF Ready(Man(r)) THEN {Man(r)} ELSE {}
         /\ \A t \in waiters["smoker_go"] : t \in Smoker /\ pc[t] \in {"idle", "matched"}
         /\ waiters["new_i"] = {t \in Manager \cup Smoker : Done(t)}
         /\ waiters["signal_go"] \subseteq {Agent}
         /\ waiters["last_man"] = IF pc[Agent] = "last_man" /\ Agent \notin lockers THEN {Agent} ELSE {}
         /\ waiters["smoke"] = IF pc[Agent] = "smoke" /\ Agent \notin lockers THEN {Agent} ELSE {}
<1>1. /\ pc[Agent] \in {"start", "end", "signal_go", "smoke", "last_man"}
      /\ \A t \in Manager : pc[t] \in {"start", "end", "resource", "new_i"}
      /\ \A t \in Smoker : pc[t] \in {"start", "end", "idle", "matched", "new_i"}
  BY DEF SmokeType
<1>2. /\ \A c \in SmokeCond : waiters[c] = {t \in SmokeThread : t \notin lockers /\ SmokeWhere(t) = c}
      /\ Resource \subseteq SmokeCond
      /\ {"smoke", "signal_go", "smoker_go", "new_i", "last_man"} \subseteq SmokeCond
  BY DEF SmokeType, WaitersAt, SmokeCond
<1>3. SmokeWhere(Agent) = IF pc[Agent] \in {"signal_go", "smoke", "last_man"} THEN pc[Agent] ELSE "none"
  BY <1>1 DEF SmokeWhere
<1>4. ASSUME NEW r \in Resource
      PROVE  SmokeWhere(Man(r)) = IF pc[Man(r)] = "resource" THEN r ELSE IF pc[Man(r)] = "new_i" THEN "new_i" ELSE "none"
  BY <1>1, SmokeThreads DEF SmokeWhere
<1>5. ASSUME NEW r \in Resource
      PROVE  SmokeWhere(Smo(r)) = IF pc[Smo(r)] \in {"idle", "matched"} THEN "smoker_go"
                                  ELSE IF pc[Smo(r)] = "new_i" THEN "new_i" ELSE "none"
  BY <1>1, SmokeThreads DEF SmokeWhere
<1>6. \A t \in SmokeThread : \/ t = Agent \/ (\E r \in Resource : t = Man(r)) \/ (\E r \in Resource : t = Smo(r))
  BY SmokeThreads DEF SmokeThread
<1>7. \A r \in Resource : r \notin {"smoke", "signal_go", "smoker_go", "new_i", "last_man", "none", "start", "end"}
  BY DEF Resource
<1>8. \A r \in Resource : waiters[r] = IF Ready(Man(r)) THEN {Man(r)} ELSE {}
  <2> SUFFICES ASSUME NEW r \in Resource PROVE waiters[r] = IF Ready(Man(r)) THEN {Man(r)} ELSE {}
    OBVIOUS
  <2>1. \A t \in SmokeThread : SmokeWhere(t) = r => t = Man(r) /\ pc[t] = "resource"
    BY <1>3, <1>4, <1>5, <1>6, <1>7
  <2>2. Man(r) \in SmokeThread /\ waiters[r] = {t \in SmokeThread : t \notin lockers /\ SmokeWhere(t) = r}
    BY <1>2, SmokeThreads
  <2>3. CASE Ready(Man(r))
    BY <1>4, <2>1, <2>2, <2>3 DEF Ready
  <2>4. CASE ~Ready(Man(r))
    BY <1>4, <2>1, <2>2, <2>4 DEF Ready
  <2> QED
    BY <2>3, <2>4
<1>9. \A t \in waiters["smoker_go"] : t \in Smoker /\ pc[t] \in {"idle", "matched"}
  <2>1. \A t \in SmokeThread : SmokeWhere(t) = "smoker_go" => t \in Smoker /\ pc[t] \in {"idle", "matched"}
    BY <1>1, <1>3, <1>4, <1>5, <1>6, <1>7, SmokeThreads
  <2> QED
    BY <1>2, <2>1
<1>10. waiters["new_i"] = {t \in Manager \cup Smoker : Done(t)}
  <2>1. \A t \in SmokeThread : SmokeWhere(t) = "new_i" <=> t \in Manager \cup Smoker /\ pc[t] = "new_i"
    BY <1>1, <1>3, <1>4, <1>5, <1>6, <1>7, SmokeThreads
  <2> QED
    BY <1>2, <2>1, SmokeThreads DEF Done
<1>11. ASSUME NEW c \in {"smoke", "signal_go", "last_man"}
       PROVE  waiters[c] = IF pc[Agent] = c /\ Agent \notin lockers THEN {Agent} ELSE {}
  <2>1. \A t \in SmokeThread : SmokeWhere(t) = c <=> t = Agent /\ pc[Agent] = c
    BY <1>1, <1>3, <1>4, <1>5, <1>6, <1>7, SmokeThreads
  <2>2. Agent \in SmokeThread /\ waiters[c] = {t \in SmokeThread : t \notin lockers /\ SmokeWhere(t) = c}
    BY <1>2, SmokeThreads
  <2>3. CASE pc[Agent] = c /\ Agent \notin lockers
    BY <2>1, <2>2, <2>3
  <2>4. CASE ~(pc[Agent] = c /\ Agent \notin lockers)
    BY <2>1, <2>2, <2>4
  <2> QED
    BY <2>3, <2>4
<1>12. waiters["signal_go"] \subseteq {Agent}
  BY <1>11
<1> QED
  BY <1>2, <1>8, <1>9, <1>10, <1>11, <1>12

\* A section of t that ends with a wait for c, or for nothing.
SmokeMoves(t, woken, c, place) ==
  /\ pc[t] = "start" \/ t \in lockers
  /\ \/ t = Agent /\ ((place \in {"signal_go", "smoke", "last_man"} /\ c = place) \/ (place = "end" /\ c = "none"))
     \/ t \in Manager /\ \/ place = "resource" /\ c = t[2]
                         \/ place = "new_i" /\ c = "new_i"
                         \/ place = "end" /\ c = "none"
     \/ t \in Smoker /\ \/ place \in {"idle", "matched"} /\ c = "smoker_go"
                        \/ place = "new_i" /\ c = "new_i"
                        \/ place = "end" /\ c = "none"
  /\ t \notin woken /\ woken \subseteq lockers \cup UNION {waiters[d] : d \in SmokeCond}
  /\ pc' = [pc EXCEPT ![t] = place]
  /\ lockers' = (lockers \ {t}) \cup woken
  /\ waiters' = [d \in SmokeCond |-> (waiters[d] \ woken) \cup (IF d = c THEN {t} ELSE {})]

\* x is where it was, for all that the round depends on.
Stays(x) ==
  /\ pc'[x] = pc[x]
  /\ Fresh(x)' <=> Fresh(x)
  /\ Done(x)' <=> Done(x)
  /\ Ready(x)' <=> Ready(x)
  /\ Told(x)' <=> Told(x)

\* The numbers that the counters have to match.
LEMMA Ones ==
  /\ ReadyMen \in [Resource -> 0 .. 1] /\ DoneMen \in [Resource -> 0 .. 1] /\ DoneSmokers \in [Resource -> 0 .. 1]
  /\ \A r \in Resource : /\ ReadyMen[r] = 1 <=> Ready(Man(r))
                         /\ DoneMen[r] = 1 <=> Done(Man(r))
                         /\ DoneSmokers[r] = 1 <=> Done(Smo(r))
  /\ ReadyMen' \in [Resource -> 0 .. 1] /\ DoneMen' \in [Resource -> 0 .. 1] /\ DoneSmokers' \in [Resource -> 0 .. 1]
  /\ \A r \in Resource : /\ ReadyMen'[r] = 1 <=> Ready(Man(r))'
                         /\ DoneMen'[r] = 1 <=> Done(Man(r))'
                         /\ DoneSmokers'[r] = 1 <=> Done(Smo(r))'
<1>1. /\ ReadyMen \in [Resource -> 0 .. 1] /\ DoneMen \in [Resource -> 0 .. 1] /\ DoneSmokers \in [Resource -> 0 .. 1]
      /\ \A r \in Resource : /\ ReadyMen[r] = 1 <=> Ready(Man(r))
                             /\ DoneMen[r] = 1 <=> Done(Man(r))
                             /\ DoneSmokers[r] = 1 <=> Done(Smo(r))
  BY DEF ReadyMen, DoneMen, DoneSmokers, One
<1>2. /\ ReadyMen' \in [Resource -> 0 .. 1] /\ DoneMen' \in [Resource -> 0 .. 1] /\ DoneSmokers' \in [Resource -> 0 .. 1]
      /\ \A r \in Resource : /\ ReadyMen'[r] = 1 <=> Ready(Man(r))'
                             /\ DoneMen'[r] = 1 <=> Done(Man(r))'
                             /\ DoneSmokers'[r] = 1 <=> Done(Smo(r))'
  BY DEF ReadyMen, DoneMen, DoneSmokers, One
<1> QED
  BY <1>1, <1>2

\* Such a section keeps the type and the waiters, and moves nobody but t and those it wakes.
LEMMA SmokeSection ==
  ASSUME SmokeType, NEW t \in SmokeThread, NEW place, NEW woken, NEW c, SmokeMoves(t, woken, c, place)
  PROVE  /\ pc'[t] = place /\ t \notin lockers'
         /\ \A x \in SmokeThread \ {t} : pc'[x] = pc[x] /\ (x \in lockers' <=> x \in lockers \/ x \in woken)
         /\ \A x \in SmokeThread \ {t} : (pc[x] \in {"new_i", "resource"} => x \notin woken) => Stays(x)
         /\ DOMAIN g' = DOMAIN g /\ Counts' /\ g'.sig \in [Resource -> Int]
              /\ g'.mans \in Int /\ g'.smoks \in Int /\ g'.done \in Int
              => SmokeType'
<1>0. /\ pc[t] = "start" \/ t \in lockers
      /\ \/ t = Agent /\ ((place \in {"signal_go", "smoke", "last_man"} /\ c = place) \/ (place = "end" /\ c = "none"))
         \/ t \in Manager /\ \/ place = "resource" /\ c = t[2]
                             \/ place = "new_i" /\ c = "new_i"
                             \/ place = "end" /\ c = "none"
         \/ t \in Smoker /\ \/ place \in {"idle", "matched"} /\ c = "smoker_go"
                            \/ place = "new_i" /\ c = "new_i"
                            \/ place = "end" /\ c = "none"
      /\ t \notin woken /\ woken \subseteq lockers \cup UNION {waiters[d] : d \in SmokeCond}
      /\ pc' = [pc EXCEPT ![t] = place]
      /\ lockers' = (lockers \ {t}) \cup woken
      /\ waiters' = [d \in SmokeCond |-> (waiters[d] \ woken) \cup (IF d = c THEN {t} ELSE {})]
  BY DEF SmokeMoves
<1>1. /\ pc \in [SmokeThread -> {"start", "end", "signal_go", "smoke", "last_man", "resource", "new_i", "idle", "matched"}]
      /\ pc[Agent] \in {"start", "end", "signal_go", "smoke", "last_man"}
      /\ \A x \in Manager : pc[x] \in {"start", "end", "resource", "new_i"}
      /\ \A x \in Smoker : pc[x] \in {"start", "end", "idle", "matched", "new_i"}
      /\ lockers \subseteq {x \in SmokeThread : SmokeWhere(x) # "none"}
      /\ WaitersAt(SmokeThread, SmokeCond, [x \in SmokeThread |-> SmokeWhere(x)])
      /\ DOMAIN g = {"sig", "mans", "smoks", "done", "signal_count", "smoke_count"}
  BY DEF SmokeType
<1>2. pc'[t] = place /\ \A x \in SmokeThread \ {t} : pc'[x] = pc[x]
  BY <1>0, <1>1
<1>3. t \notin lockers' /\ \A x \in SmokeThread \ {t} : x \in lockers' <=> x \in lockers \/ x \in woken
  BY <1>0
<1>4. ASSUME NEW x \in SmokeThread \ {t}, pc[x] \in {"new_i", "resource"} => x \notin woken PROVE Stays(x)
  BY <1>2, <1>3, <1>4 DEF Stays, Fresh, Done, Ready, Told
<1>5. /\ pc' \in [SmokeThread -> {"start", "end", "signal_go", "smoke", "last_man", "resource", "new_i", "idle", "matched"}]
      /\ pc'[Agent] \in {"start", "end", "signal_go", "smoke", "last_man"}
      /\ \A x \in Manager : pc'[x] \in {"start", "end", "resource", "new_i"}
      /\ \A x \in Smoker : pc'[x] \in {"start", "end", "idle", "matched", "new_i"}
  <2>1. place \in {"start", "end", "signal_go", "smoke", "last_man", "resource", "new_i", "idle", "matched"}
    BY <1>0
  <2>2. pc' \in [SmokeThread -> {"start", "end", "signal_go", "smoke", "last_man", "resource", "new_i", "idle", "matched"}]
    BY <1>0, <1>1, <2>1
  <2> QED
    BY <1>0, <1>1, <1>2, <2>2, SmokeThreads
<1>6. SmokeWhere(t)' = c
  BY <1>0, <1>2, SmokeThreads DEF SmokeWhere
<1>7. ASSUME NEW x \in SmokeThread \ {t} PROVE SmokeWhere(x)' = SmokeWhere(x)
  BY <1>2 DEF SmokeWhere
<1>8. pc[t] = "start" => SmokeWhere(t) = "none"
  BY DEF SmokeWhere
<1>9. "none" \notin SmokeCond
  BY DEF SmokeCond, Resource
<1>10. woken \subseteq {x \in SmokeThread : SmokeWhere(x) # "none"}
  <2>1. \A d \in SmokeCond : waiters[d] \subseteq {x \in SmokeThread : SmokeWhere(x) # "none"}
    BY <1>9, SmokePlaces
  <2> QED
    BY <1>0, <1>1, <2>1
<1>11. lockers' \subseteq {x \in SmokeThread : SmokeWhere(x)' # "none"}
  BY <1>0, <1>1, <1>3, <1>7, <1>10
<1>12. WaitersAt(SmokeThread, SmokeCond, [x \in SmokeThread |-> SmokeWhere(x)])'
  <2> DEFINE where == [x \in SmokeThread |-> SmokeWhere(x)]
             where2 == [x \in SmokeThread |-> SmokeWhere(x)']
  <2>1. \A d \in SmokeCond : waiters[d] = {x \in SmokeThread : x \notin lockers /\ where[x] = d}
    BY <1>1 DEF WaitersAt
  <2>2. t \in lockers \/ where[t] \notin SmokeCond
    BY <1>0, <1>8, <1>9
  <2>3. where2[t] = c /\ \A x \in SmokeThread \ {t} : where2[x] = where[x]
    BY <1>6, <1>7
  <2> HIDE DEF where, where2
  <2>4. waiters' = [d \in SmokeCond |-> {x \in SmokeThread : x \notin lockers' /\ where2[x] = d}]
    <3>1. /\ t \notin woken /\ lockers' = (lockers \ {t}) \cup woken
          /\ waiters' = [d \in SmokeCond |-> (waiters[d] \ woken) \cup (IF d = c THEN {t} ELSE {})]
      BY <1>0
    <3> QED
      BY <2>1, <2>2, <2>3, <3>1, Sectioned, SMTT(30)
  <2> QED
    BY <2>4 DEF WaitersAt, where2
<1> QED
  BY <1>1, <1>2, <1>3, <1>4, <1>5, <1>11, <1>12 DEF SmokeType

\* The calls of the program make such a section.
LEMMA SmokeWait ==
  ASSUME SmokeType, NEW t \in SmokeThread, NEW place, NEW woken, NEW c, S!WaitFor(t, woken, c, place)
  PROVE  /\ lockers' = (lockers \ {t}) \cup woken
         /\ waiters' = [d \in SmokeCond |-> (waiters[d] \ woken) \cup (IF d = c THEN {t} ELSE {})]
         /\ pc' = [pc EXCEPT ![t] = place]
BY SmokeThreads DEF S!WaitFor, S!Go, S!mx!SectionWait

\* One who ends leaves the mutex and the program.
LEMMA SmokeLeave ==
  ASSUME SmokeType, NEW t \in SmokeThread, NEW woken, S!mx!Section(t, woken), S!Go(t, "end")
  PROVE  /\ lockers' = (lockers \ {t}) \cup woken
         /\ waiters' = [d \in SmokeCond |-> (waiters[d] \ woken) \cup (IF d = "none" THEN {t} ELSE {})]
         /\ pc' = [pc EXCEPT ![t] = "end"]
BY SmokeThreads DEF S!Go, S!mx!Section, SmokeCond, Resource

\* Nobody has come at first.
LEMMA SmokeInit == S!Init => SmokeInv
<1> SUFFICES ASSUME S!Init PROVE SmokeInv
  OBVIOUS
<1>1. /\ g = [sig |-> [r \in Resource |-> 0], mans |-> 0, smoks |-> 0, done |-> 0,
              signal_count |-> [r \in Resource |-> 0], smoke_count |-> [r \in Resource |-> 0]]
      /\ pc = [t \in SmokeThread |-> "start"] /\ lockers = {} /\ waiters = [c \in SmokeCond |-> {}]
  BY SmokeThreads, SmokeNames DEF S!Init, S!mx!Init
<1>2. \A t \in SmokeThread : SmokeWhere(t) = "none"
  BY <1>1 DEF SmokeWhere
<1>3. WaitersAt(SmokeThread, SmokeCond, [t \in SmokeThread |-> SmokeWhere(t)])
  <2>1. "none" \notin SmokeCond
    BY DEF SmokeCond, Resource
  <2> QED
    BY <1>1, <1>2, <2>1 DEF WaitersAt
<1>4. SmokeType
  BY <1>1, <1>3, SmokeThreads DEF SmokeType, Counts
<1>5. \A r \in Resource : pc[Man(r)] = "start" /\ pc[Smo(r)] = "start"
  BY <1>1, SmokeThreads
<1>6. SumOf(ReadyMen) = 0
  <2>1. \A r \in Resource : ReadyMen[r] = 0
    BY <1>5, Ones DEF Ready
  <2> QED
    BY <2>1, Ones, SumOfOnes
<1>7. Gathering
  BY <1>1, <1>5, <1>6, SmokeThreads DEF Gathering, NoSig, Fresh
<1> QED
  BY <1>4, <1>7 DEF SmokeInv

\* Where the round is, by the place of the thread that comes.
LEMMA SmokeRound ==
  ASSUME SmokeInv
  PROVE  /\ pc[Agent] \in {"start", "signal_go", "end"} => Gathering
         /\ pc[Agent] = "smoke" /\ Agent \in lockers => \E r \in Resource : Smoked(r)
         /\ pc[Agent] = "last_man" /\ Agent \in lockers => AllDone
         /\ \A s \in Resource :
              /\ Fresh(Man(s)) => Gathering
              /\ Told(Man(s)) => (\E r \in Resource \ {s} : Offered(r)) \/ Smoked(s)
              /\ Fresh(Smo(s)) \/ pc[Smo(s)] = "idle" => Gathering \/ \E r \in Resource : Offered(r)
              /\ pc[Smo(s)] = "matched" => Offered(s)
<1>1. \A t : /\ Fresh(t) => ~Done(t) /\ ~Ready(t) /\ ~Told(t) /\ pc[t] # "idle" /\ pc[t] # "matched"
             /\ Told(t) => ~Done(t) /\ ~Ready(t) /\ ~Fresh(t)
             /\ pc[t] = "idle" \/ pc[t] = "matched" => ~Done(t) /\ ~Fresh(t)
  BY DEF Fresh, Done, Ready, Told
<1>2. CASE Gathering
  BY <1>1, <1>2 DEF Gathering
<1>3. CASE AllDone
  BY <1>1, <1>3 DEF AllDone
<1>4. CASE \E r \in Resource : Offered(r)
  BY <1>1, <1>4 DEF Offered
<1>5. CASE \E r \in Resource : Smoked(r)
  BY <1>1, <1>5 DEF Smoked
<1> QED
  BY <1>2, <1>3, <1>4, <1>5 DEF SmokeInv

\* The fields of the global variables.
LEMMA SmokeFields ==
  ASSUME SmokeType
  PROVE  /\ DOMAIN g = {"sig", "mans", "smoks", "done", "signal_count", "smoke_count"}
         /\ g.sig \in [Resource -> Int] /\ g.mans \in Int /\ g.smoks \in Int /\ g.done \in Int
         /\ g.signal_count \in [Resource -> Nat] /\ g.smoke_count \in [Resource -> Nat]
BY DEF SmokeType, Counts

\* Whoever signal_go, the agent's conditions and the end of a loop concern, the others stay.
LEMMA OthersStay ==
  ASSUME SmokeType, NEW t \in SmokeThread, NEW place, NEW woken, NEW c, SmokeMoves(t, woken, c, place),
         woken \subseteq {Agent} \cup waiters["smoker_go"]
  PROVE  \A r \in Resource : (Man(r) # t => Stays(Man(r))) /\ (Smo(r) # t => Stays(Smo(r)))
<1>1. \A x \in waiters["smoker_go"] : pc[x] \notin {"new_i", "resource"}
  BY SmokePlaces
<1>2. \A x \in woken : x = Agent \/ pc[x] \notin {"new_i", "resource"}
  BY <1>1
<1> QED
  BY <1>2, SmokeSection, SmokeThreads

\* A manager who finds no resource in the new round counts itself and waits.
LEMMA ManagerBegins ==
  ASSUME SmokeInv, NEW s \in Resource, S!BeginManager(Man(s))
  PROVE  SmokeInv'
<1> DEFINE t == Man(s)
<1>1. SmokeType /\ t \in SmokeThread /\ t \in Manager /\ t # Agent /\ t[2] = s
  BY SmokeThreads DEF SmokeInv
<1>2. (pc[t] = "start" \/ t \in lockers) /\ Fresh(t)
  BY DEF S!BeginManager, S!Begin, Fresh
<1>3. Gathering
  BY <1>2, SmokeRound
<1>4. g.sig[s] = 0
  BY <1>3 DEF Gathering, NoSig
<1>5. PICK go \in S!mx!Signalled("signal_go") :
        g' = [g EXCEPT !.mans = @ + 1] /\ S!WaitFor(t, go, s, "resource")
  BY <1>1, <1>4 DEF S!BeginManager
<1>6. go \subseteq {Agent} /\ go \subseteq UNION {waiters[d] : d \in SmokeCond}
  BY <1>1, <1>5, SmokePlaces DEF S!mx!Signalled
<1>7. SmokeMoves(t, go, s, "resource")
  BY <1>1, <1>2, <1>5, <1>6, SmokeWait DEF SmokeMoves
<1>8. /\ g'.mans = g.mans + 1 /\ g'.sig = g.sig /\ g'.smoks = g.smoks /\ g'.done = g.done /\ DOMAIN g' = DOMAIN g
      /\ g'.signal_count = g.signal_count /\ g'.smoke_count = g.smoke_count
  BY <1>1, <1>5, SmokeFields
<1>9. SmokeType'
  <2>1. Counts'
    BY <1>1, <1>8, SmokeFields DEF Counts
  <2> QED
    BY <1>1, <1>7, <1>8, <2>1, SmokeFields, SmokeSection
<1>10. /\ pc'[Agent] = pc[Agent]
       /\ Ready(t)' /\ ~Ready(t)
       /\ \A r \in Resource : (r # s => Stays(Man(r))) /\ Stays(Smo(r))
  <2>1. pc'[Agent] = pc[Agent] /\ pc'[t] = "resource" /\ t \notin lockers'
    BY <1>1, <1>7, SmokeSection, SmokeThreads
  <2>2. \A r \in Resource : (r # s => Stays(Man(r))) /\ Stays(Smo(r))
    BY <1>1, <1>6, <1>7, OthersStay, SmokeThreads
  <2> QED
    BY <1>2, <2>1, <2>2 DEF Ready, Fresh
<1>11. SumOf(ReadyMen') = SumOf(ReadyMen) + 1
  <2>1. ReadyMen[s] = 0 /\ ReadyMen'[s] = 1
    BY <1>10, Ones
  <2>2. \A r \in Resource \ {s} : ReadyMen'[r] = ReadyMen[r]
    BY <1>10, Ones DEF Stays
  <2>3. ReadyMen' = [ReadyMen EXCEPT ![s] = 1]
    BY <2>1, <2>2, Ones
  <2> QED
    BY <2>1, <2>3, Ones, SumOfOnes
<1>12. Gathering'
  BY <1>3, <1>8, <1>10, <1>11 DEF Gathering, NoSig, Stays
<1> QED
  BY <1>9, <1>12 DEF SmokeInv

\* A manager who has been told counts its resource: the first and the second of a round, and the
\* one told at its end.
LEMMA ManagerHasResource ==
  ASSUME SmokeInv, NEW s \in Resource, S!HaveResource(Man(s))
  PROVE  SmokeInv'
<1> DEFINE t == Man(s)
<1>1. SmokeType /\ t \in SmokeThread /\ t \in Manager /\ t # Agent /\ t[2] = s
  BY SmokeThreads DEF SmokeInv
<1>2. t \in lockers /\ Told(t)
  BY DEF S!HaveResource, S!Back, Told
<1>3. PICK last \in S!mx!Signalled("last_man") :
        /\ g' = [g EXCEPT !.sig[s] = g.sig[s] + 1, !.mans = g.mans + 1, !.smoks = @ + 1, !.done = @ + 1]
        /\ S!WaitFor(t, {} \cup waiters["smoker_go"] \cup last, "new_i", "new_i")
  BY <1>1 DEF S!HaveResource, S!FinishManager
<1> DEFINE woken == waiters["smoker_go"] \cup last
<1>4. last = IF pc[Agent] = "last_man" /\ Agent \notin lockers THEN {Agent} ELSE {}
  BY <1>1, <1>3, SmokePlaces DEF S!mx!Signalled
<1>5. /\ woken \subseteq {Agent} \cup waiters["smoker_go"] /\ woken \subseteq UNION {waiters[d] : d \in SmokeCond}
      /\ t \notin woken
  <2>1. t \notin waiters["smoker_go"]
    BY <1>1, SmokePlaces, SmokeThreads
  <2>2. last \subseteq waiters["last_man"]
    BY <1>1, <1>4, SmokePlaces
  <2>3. "smoker_go" \in SmokeCond /\ "last_man" \in SmokeCond
    BY <1>1, SmokePlaces
  <2> QED
    BY <1>1, <1>4, <2>1, <2>2, <2>3
<1>6. SmokeMoves(t, woken, "new_i", "new_i")
  <2>1. {} \cup waiters["smoker_go"] \cup last = woken
    OBVIOUS
  <2>2. S!WaitFor(t, woken, "new_i", "new_i")
    BY <1>3, <2>1
  <2> HIDE DEF woken
  <2> QED
    BY <1>1, <1>2, <1>5, <2>2, SmokeWait DEF SmokeMoves
<1>7. /\ g'.mans = g.mans + 1 /\ g'.sig = [g.sig EXCEPT ![s] = @ + 1] /\ g'.smoks = g.smoks + 1 /\ g'.done = g.done + 1
      /\ DOMAIN g' = DOMAIN g
      /\ g'.signal_count = g.signal_count /\ g'.smoke_count = g.smoke_count
  BY <1>1, <1>3, SmokeFields
<1>8. SmokeType'
  <2>1. Counts'
    BY <1>1, <1>7, SmokeFields DEF Counts
  <2>2. g'.sig \in [Resource -> Int]
    BY <1>1, <1>7, SmokeFields
  <2> QED
    BY <1>1, <1>6, <1>7, <2>1, <2>2, SmokeFields, SmokeSection
<1>9. /\ pc'[Agent] = pc[Agent] /\ (Agent \in lockers' <=> Agent \in lockers \/ Agent \in last)
      /\ Done(t)' /\ ~Done(t)
      /\ \A r \in Resource : (r # s => Stays(Man(r))) /\ Stays(Smo(r))
  <2> HIDE DEF woken
  <2>1. /\ pc'[Agent] = pc[Agent] /\ pc'[t] = "new_i" /\ t \notin lockers'
        /\ (Agent \in lockers' <=> Agent \in lockers \/ Agent \in woken)
    BY <1>1, <1>6, SmokeSection, SmokeThreads
  <2>2. \A r \in Resource : (r # s => Stays(Man(r))) /\ Stays(Smo(r))
    BY <1>1, <1>5, <1>6, OthersStay, SmokeThreads
  <2>3. Agent \notin waiters["smoker_go"]
    BY <1>1, SmokePlaces, SmokeThreads
  <2> QED
    BY <1>2, <2>1, <2>2, <2>3 DEF Done, Told, woken
<1>10. SumOf(DoneMen') = SumOf(DoneMen) + 1 /\ DoneMen' = [DoneMen EXCEPT ![s] = 1] /\ DoneMen[s] = 0
  <2>1. DoneMen[s] = 0 /\ DoneMen'[s] = 1
    BY <1>9, Ones
  <2>2. \A r \in Resource \ {s} : DoneMen'[r] = DoneMen[r]
    BY <1>9, Ones DEF Stays
  <2>3. DoneMen' = [DoneMen EXCEPT ![s] = 1]
    BY <2>1, <2>2, Ones
  <2> QED
    BY <2>1, <2>3, Ones, SumOfOnes
<1>11. ASSUME NEW r \in Resource \ {s}, Offered(r) PROVE SmokeInv'
  <2>1. g.smoks =< 1 /\ g.smoks = SumOf(DoneMen) /\ g.smoks \in Nat
    <3>1. SumOf(DoneMen) =< 2 /\ (SumOf(DoneMen) = 2 => DoneMen[s] = 1)
      <4>1. DoneMen[r] = 0
        BY <1>11, Ones DEF Offered, Ready, Done
      <4>2. DoneMen \in [Resource -> 0 .. 1] /\ r \in Resource /\ s \in Resource \ {r}
        BY <1>11, Ones
      <4>3. SumOf(DoneMen) =< 2 /\ (SumOf(DoneMen) = 2 <=> \A x \in Resource \ {r} : DoneMen[x] = 1)
        BY <4>1, <4>2, SumOfOnes
      <4> QED
        BY <4>2, <4>3
    <3> QED
      BY <1>10, <1>11, <3>1, Ones, SumOfOnes DEF Offered
  <2>2. pc[Smo(r)] # "matched" /\ \A x \in Resource \ {r} : ~Done(Smo(x))
    BY <1>11, <2>1 DEF Offered, Fresh, Done
  <2>3. DoneSmokers' = DoneSmokers
    <3>1. \A x \in Resource : DoneSmokers'[x] = DoneSmokers[x]
      BY <1>9, Ones DEF Stays
    <3> QED
      BY <3>1, Ones
  <2>4. last = {}
    BY <1>4, <1>11 DEF Offered
  <2>5. \A x \in Resource \ {r} : g'.sig[x] = DoneMen'[x]
    BY <1>1, <1>7, <1>10, <1>11, <2>2, Ones, SmokeFields DEF Offered
  <2>6. /\ Ready(Man(r))' /\ g'.sig[r] = 0 /\ pc'[Smo(r)] # "matched"
        /\ Fresh(Smo(r))' \/ pc'[Smo(r)] = "idle"
    BY <1>1, <1>7, <1>9, <1>11, <2>2, SmokeFields DEF Offered, Stays
  <2>7. ASSUME NEW x \in Resource \ {r}
        PROVE  (Told(Man(x))' \/ Done(Man(x))') /\ (Fresh(Smo(x))' \/ pc'[Smo(x)] = "idle")
    BY <1>9, <1>11, <2>2 DEF Offered, Stays
  <2>8. Owed(r)' /\ pc'[Agent] = "smoke" /\ Agent \notin lockers'
    BY <1>7, <1>9, <1>11, <2>4 DEF Offered, Owed
  <2>9. /\ g'.smoks = SumOf(DoneMen') /\ g'.done = g'.mans /\ g'.mans = g'.smoks + SumOf(DoneSmokers')
    <3>1. g.done = g.mans /\ g.mans = g.smoks + SumOf(DoneSmokers) /\ SumOf(DoneSmokers) \in Int
      BY <1>11, Ones, SumOfOnes DEF Offered
    <3> QED
      BY <1>7, <1>10, <2>1, <2>3, <3>1
  <2>10. Offered(r)'
    BY <2>5, <2>6, <2>7, <2>8, <2>9 DEF Offered
  <2> QED
    BY <1>8, <2>10 DEF SmokeInv
<1>12. CASE Smoked(s)
  <2>1. pc[Agent] = "last_man" /\ Agent \notin lockers
    BY <1>2, <1>12 DEF Smoked, Ready, Told
  <2>2. AllDone'
    BY <1>4, <1>7, <1>9, <1>12, <2>1 DEF Smoked, AllDone, Stays
  <2> QED
    BY <1>8, <2>2 DEF SmokeInv
<1> QED
  BY <1>2, <1>11, <1>12, SmokeRound

\* The smoker of r has taken the two resources: he smokes when all others are through, and waits
\* otherwise.
LEMMA SmokerTurn ==
  ASSUME SmokeType, NEW r \in Resource, NEW next, S!SmokeOrWait(Smo(r), next),
         pc[Smo(r)] = "start" \/ Smo(r) \in lockers, ~Done(Smo(r)),
         pc[Agent] = "smoke", Agent \notin lockers, Owed(r), Ready(Man(r)),
         \A s \in Resource \ {r} : /\ Done(Man(s))
                                   /\ Fresh(Smo(s)) \/ pc[Smo(s)] = "idle" \/ Done(Smo(s)),
         g.smoks = 2, g.done = g.mans, g.mans = 2 + SumOf(DoneSmokers),
         DOMAIN next = DOMAIN g, next.sig = [s \in Resource |-> 0], next.mans = g.mans,
         next.smoks = g.smoks, next.done = g.done,
         next.signal_count = g.signal_count, next.smoke_count = g.smoke_count
  PROVE  SmokeInv'
<1> DEFINE t == Smo(r)
<1>1. /\ t \in SmokeThread /\ t \in Smoker /\ t # Agent /\ t[2] = r
      /\ SumOf(DoneSmokers) \in 0 .. 3
  BY SmokeThreads, Ones, SumOfOnes
<1>2. DoneMen[r] = 0 /\ DoneMen \in [Resource -> 0 .. 1] /\ \A s \in Resource \ {r} : DoneMen[s] = 1
  BY Ones DEF Ready, Done
<1>3. SumOf(DoneMen) = 2
  BY <1>2, SumOfOnes
<1>4. CASE S!Ready
  <2>1. PICK agent \in S!mx!Signalled("smoke") :
          S!FinishSmoker(t, [next EXCEPT !.smoke_count[t[2]] = @ + 1], agent)
    BY <1>4 DEF S!SmokeOrWait
  <2>2. agent = {Agent}
    <3>1. waiters["smoke"] = {Agent}
      BY SmokePlaces
    <3> QED
      BY <2>1, <3>1 DEF S!mx!Signalled
  <2> DEFINE woken == waiters["smoker_go"] \cup {Agent}
  <2>3. /\ S!WaitFor(t, woken, "new_i", "new_i")
        /\ g' = [[next EXCEPT !.smoke_count[r] = @ + 1] EXCEPT !.mans = @ + 1, !.done = @ + 1]
    BY <1>1, <2>1, <2>2 DEF S!FinishSmoker
  <2>4. /\ woken \subseteq {Agent} \cup waiters["smoker_go"] /\ Agent \in woken
        /\ woken \subseteq lockers \cup UNION {waiters[d] : d \in SmokeCond} /\ t \notin woken
    <3>1. t \notin waiters["smoker_go"]
      <4>1. t \notin lockers => pc[t] = "start"
        OBVIOUS
      <4>2. \A x \in waiters["smoker_go"] : x \notin lockers /\ pc[x] # "start"
        BY SmokePlaces
      <4> QED
        BY <4>1, <4>2
    <3>2. waiters["smoke"] = {Agent} /\ "smoker_go" \in SmokeCond /\ "smoke" \in SmokeCond
      BY SmokePlaces
    <3> QED
      BY <1>1, <3>1, <3>2
  <2> HIDE DEF woken
  <2>5. SmokeMoves(t, woken, "new_i", "new_i")
    BY <1>1, <2>3, <2>4, SmokeWait DEF SmokeMoves
  <2>6. /\ DOMAIN g' = DOMAIN g /\ g'.sig = [s \in Resource |-> 0] /\ g'.mans = g.mans + 1 /\ g'.smoks = 2
        /\ g'.done = g.done + 1 /\ g'.signal_count = g.signal_count
        /\ g'.smoke_count = [g.smoke_count EXCEPT ![r] = @ + 1]
    BY <2>3, SmokeFields
  <2>7. SmokeType'
    <3>1. Counts'
      BY <2>6, SmokeFields DEF Counts
    <3> QED
      BY <1>1, <2>5, <2>6, <3>1, SmokeFields, SmokeSection
  <2>8. pc'[Agent] = "smoke" /\ Agent \in lockers' /\ Done(t)'
    BY <1>1, <2>4, <2>5, SmokeSection, SmokeThreads DEF Done
  <2>9. \A s \in Resource : Stays(Man(s)) /\ (s # r => Stays(Smo(s)))
    BY <1>1, <2>4, <2>5, OthersStay, SmokeThreads
  <2>10. g.done = 4 /\ \A s \in Resource \ {r} : Done(Smo(s))
    <3>1. g.mans = 4
      BY <1>4 DEF S!Ready
    <3>2. SumOf(DoneSmokers) = 2
      BY <1>1, <3>1
    <3>3. DoneSmokers[r] = 0
      BY Ones
    <3>4. \A s \in Resource \ {r} : DoneSmokers[s] = 1
      BY <3>2, <3>3, Ones, SumOfOnes
    <3> QED
      BY <3>1, <3>4, Ones
  <2>11. g'.signal_count = g'.smoke_count
    BY <2>6, SmokeFields DEF Owed
  <2>12. Smoked(r)'
    BY <2>6, <2>8, <2>9, <2>10, <2>11 DEF Smoked, NoSig, Stays
  <2> QED
    BY <2>7, <2>12 DEF SmokeInv
<1>5. CASE ~S!Ready
  <2>1. g' = next /\ S!WaitFor(t, {}, "smoker_go", "matched")
    BY <1>5 DEF S!SmokeOrWait
  <2>2. SmokeMoves(t, {}, "smoker_go", "matched")
    BY <1>1, <2>1, SmokeWait DEF SmokeMoves
  <2>3. SmokeType'
    <3>1. Counts'
      BY <2>1, SmokeFields DEF Counts
    <3> QED
      BY <1>1, <2>1, <2>2, <3>1, SmokeFields, SmokeSection
  <2>4. pc'[Agent] = "smoke" /\ Agent \notin lockers' /\ pc'[t] = "matched"
    BY <1>1, <2>2, SmokeSection, SmokeThreads
  <2>5. \A s \in Resource : Stays(Man(s)) /\ (s # r => Stays(Smo(s)))
    BY <1>1, <2>2, OthersStay, SmokeThreads
  <2>6. DoneMen' = DoneMen /\ DoneSmokers' = DoneSmokers
    <3>1. ~Done(t)'
      BY <2>4 DEF Done
    <3>2. \A s \in Resource : DoneMen'[s] = DoneMen[s] /\ DoneSmokers'[s] = DoneSmokers[s]
      BY <2>5, <3>1, Ones DEF Stays
    <3> QED
      BY <3>2, Ones
  <2>7. Owed(r)'
    BY <2>1 DEF Owed
  <2>8. Offered(r)'
    BY <1>3, <2>1, <2>4, <2>5, <2>6, <2>7 DEF Offered, Stays
  <2> QED
    BY <2>3, <2>8 DEF SmokeInv
<1> QED
  BY <1>4, <1>5

\* A smoker whom smoker_go has woken looks again whether he may smoke.
LEMMA SmokerMatched ==
  ASSUME SmokeInv, NEW r \in Resource, S!Matched(Smo(r))
  PROVE  SmokeInv'
<1>1. SmokeType
  BY DEF SmokeInv
<1>2. pc[Smo(r)] = "matched" /\ Smo(r) \in lockers /\ S!SmokeOrWait(Smo(r), g)
  BY DEF S!Matched, S!Back
<1>3. Offered(r) /\ g.smoks = 2
  <2>1. Offered(r)
    BY <1>2, SmokeRound
  <2> QED
    BY <1>2, <2>1 DEF Offered, Fresh
<1>4. \A s \in Resource \ {r} : Done(Man(s))
  <2>1. DoneMen[r] = 0 /\ SumOf(DoneMen) = 2
    BY <1>3, Ones DEF Offered, Ready, Done
  <2>2. \A s \in Resource \ {r} : DoneMen[s] = 1
    BY <2>1, Ones, SumOfOnes
  <2> QED
    BY <2>2, Ones
<1>5. g.sig = [s \in Resource |-> 0]
  <2>1. \A s \in Resource : g.sig[s] = 0
    BY <1>2, <1>3 DEF Offered
  <2> QED
    BY <1>1, <2>1, SmokeFields
<1>6. /\ pc[Agent] = "smoke" /\ Agent \notin lockers /\ Owed(r) /\ Ready(Man(r))
      /\ \A s \in Resource \ {r} : Fresh(Smo(s)) \/ pc[Smo(s)] = "idle" \/ Done(Smo(s))
      /\ g.done = g.mans /\ g.mans = 2 + SumOf(DoneSmokers)
  BY <1>3 DEF Offered
<1>7. ~Done(Smo(r))
  BY <1>2 DEF Done
<1> QED
  BY <1>1, <1>2, <1>3, <1>4, <1>5, <1>6, <1>7, SmokerTurn

\* A smoker who is early waits, the one who is meant takes the resources, and another is through
\* with the round.
LEMMA SmokerBegins ==
  ASSUME SmokeInv, NEW s \in Resource, S!BeginSmoker(Smo(s))
  PROVE  SmokeInv'
<1> DEFINE t == Smo(s)
<1>1. SmokeType /\ t \in SmokeThread /\ t \in Smoker /\ t # Agent /\ t[2] = s
  BY SmokeThreads DEF SmokeInv
<1>2. (pc[t] = "start" \/ t \in lockers) /\ (Fresh(t) \/ pc[t] = "idle") /\ ~Done(t) /\ pc[t] # "matched"
  BY DEF S!BeginSmoker, S!Begin, S!Back, Fresh, Done
<1>3. Gathering \/ \E r \in Resource : Offered(r)
  BY <1>2, SmokeRound
<1>4. g.smoks \in Int
  BY <1>1, SmokeFields
<1>5. CASE g.smoks < 2
  <2>1. S!WaitFor(t, {}, "smoker_go", "idle") /\ g' = g
    BY <1>4, <1>5 DEF S!BeginSmoker
  <2>2. SmokeMoves(t, {}, "smoker_go", "idle")
    BY <1>1, <1>2, <2>1, SmokeWait DEF SmokeMoves
  <2>3. SmokeType'
    <3>1. Counts'
      BY <1>1, <2>1, SmokeFields DEF Counts
    <3> QED
      BY <1>1, <2>1, <2>2, <3>1, SmokeFields, SmokeSection
  <2>4. pc'[Agent] = pc[Agent] /\ (Agent \in lockers' <=> Agent \in lockers) /\ pc'[t] = "idle"
    BY <1>1, <2>2, SmokeSection, SmokeThreads
  <2>5. \A x \in Resource : Stays(Man(x)) /\ (x # s => Stays(Smo(x)))
    BY <1>1, <2>2, OthersStay, SmokeThreads
  <2>6. ReadyMen' = ReadyMen /\ DoneMen' = DoneMen /\ DoneSmokers' = DoneSmokers
    <3>1. ~Done(t)'
      BY <2>4 DEF Done
    <3>2. \A x \in Resource : /\ ReadyMen'[x] = ReadyMen[x] /\ DoneMen'[x] = DoneMen[x]
                              /\ DoneSmokers'[x] = DoneSmokers[x]
      BY <1>2, <2>5, <3>1, Ones DEF Stays
    <3> QED
      BY <3>2, Ones
  <2>7. CASE Gathering
    <3>1. Gathering'
      BY <2>1, <2>4, <2>5, <2>6, <2>7 DEF Gathering, NoSig, Stays
    <3> QED
      BY <2>3, <3>1 DEF SmokeInv
  <2>8. ASSUME NEW r \in Resource, Offered(r) PROVE SmokeInv'
    <3>1. \A x \in Resource : pc'[Smo(x)] = "matched" <=> pc[Smo(x)] = "matched"
      BY <1>2, <2>4, <2>5 DEF Stays
    <3>2. \A x \in Resource : Fresh(Smo(x)) \/ pc[Smo(x)] = "idle" => Fresh(Smo(x))' \/ pc'[Smo(x)] = "idle"
      BY <2>4, <2>5 DEF Stays
    <3>3. \A x \in Resource : Done(Smo(x)) => Done(Smo(x))'
      BY <1>2, <2>5 DEF Stays
    <3>4. Owed(r)' /\ g' = g
      BY <2>1, <2>8 DEF Offered, Owed
    <3>5. pc'[Agent] = "smoke" /\ Agent \notin lockers' /\ Ready(Man(r))'
      BY <2>4, <2>5, <2>8 DEF Offered, Stays
    <3>6. ASSUME NEW x \in Resource \ {r}
          PROVE  /\ Told(Man(x))' \/ Done(Man(x))'
                 /\ Fresh(Smo(x))' \/ pc'[Smo(x)] = "idle" \/ (Done(Smo(x))' /\ g'.smoks = 2)
                 /\ g'.sig[x] = IF pc'[Smo(r)] = "matched" THEN 0 ELSE DoneMen'[x]
      BY <2>5, <2>6, <2>8, <3>1, <3>2, <3>3, <3>4 DEF Offered, Stays
    <3>7. Fresh(Smo(r))' \/ pc'[Smo(r)] = "idle" \/ (pc'[Smo(r)] = "matched" /\ g'.smoks = 2)
      BY <2>8, <3>1, <3>2, <3>4 DEF Offered
    <3>8. Offered(r)'
      BY <2>6, <2>8, <3>4, <3>5, <3>6, <3>7 DEF Offered
    <3> QED
      BY <2>3, <3>8 DEF SmokeInv
  <2> QED
    BY <1>3, <2>7, <2>8
<1>6. ASSUME ~(g.smoks < 2), NEW r \in Resource, Offered(r), s = r PROVE SmokeInv'
  <2>1. g.smoks = 2 /\ \A x \in Resource \ {r} : Done(Man(x)) /\ DoneMen[x] = 1
    <3>1. DoneMen[r] = 0 /\ g.smoks = SumOf(DoneMen)
      BY <1>6, Ones DEF Offered, Ready, Done
    <3>2. SumOf(DoneMen) =< 2 /\ (SumOf(DoneMen) = 2 <=> \A x \in Resource \ {r} : DoneMen[x] = 1)
      BY <3>1, Ones, SumOfOnes
    <3>3. g.smoks = 2 /\ \A x \in Resource \ {r} : DoneMen[x] = 1
      BY <1>4, <1>6, <3>1, <3>2
    <3> QED
      BY <3>3, Ones
  <2>2. g.sig[r] = 0 /\ \A x \in Resource \ {r} : g.sig[x] = 1
    BY <1>2, <1>6, <2>1 DEF Offered
  <2>3. S!Others(t) = Resource \ {r} /\ S!Offered(t)
    BY <1>1, <1>6, <2>2, SmokeNames DEF S!Others, S!Offered
  <2> DEFINE next == [g EXCEPT !.sig = [x \in Resource |-> IF x \in Resource \ {r} THEN @[x] - 1 ELSE @[x]]]
  <2>4. S!SmokeOrWait(t, next)
    BY <1>4, <1>6, <2>1, <2>3, SmokeNames DEF S!BeginSmoker
  <2>5. /\ DOMAIN next = DOMAIN g /\ next.sig = [x \in Resource |-> 0] /\ next.mans = g.mans
        /\ next.smoks = g.smoks /\ next.done = g.done
        /\ next.signal_count = g.signal_count /\ next.smoke_count = g.smoke_count
    <3>1. next.sig = [x \in Resource |-> IF x \in Resource \ {r} THEN g.sig[x] - 1 ELSE g.sig[x]]
      BY <1>1, SmokeFields
    <3>2. next.sig = [x \in Resource |-> 0]
      BY <2>2, <3>1
    <3> QED
      BY <1>1, <3>2, SmokeFields
  <2> HIDE DEF next
  <2>6. /\ pc[Agent] = "smoke" /\ Agent \notin lockers /\ Owed(r) /\ Ready(Man(r))
        /\ \A x \in Resource \ {r} : Fresh(Smo(x)) \/ pc[Smo(x)] = "idle" \/ Done(Smo(x))
        /\ g.done = g.mans /\ g.mans = 2 + SumOf(DoneSmokers)
    BY <1>6, <2>1 DEF Offered
  <2> QED
    BY <1>1, <1>2, <1>6, <2>1, <2>4, <2>5, <2>6, SmokerTurn
<1>7. ASSUME ~(g.smoks < 2), NEW r \in Resource, Offered(r), s # r PROVE SmokeInv'
  <2>1. g.smoks = 2 /\ g.sig[r] = 0
    <3>1. DoneMen[r] = 0 /\ g.smoks = SumOf(DoneMen)
      BY <1>7, Ones DEF Offered, Ready, Done
    <3>2. g.smoks = 2
      BY <1>7, <3>1, Ones, SumOfOnes
    <3> QED
      BY <1>7, <3>2 DEF Offered
  <2>2. ~S!Offered(t)
    BY <1>1, <1>7, <2>1, SmokeNames DEF S!Others, S!Offered
  <2>3. S!FinishSmoker(t, g, {})
    BY <1>4, <1>7, <2>2 DEF S!BeginSmoker
  <2> DEFINE woken == waiters["smoker_go"]
  <2>4. /\ S!WaitFor(t, woken, "new_i", "new_i") /\ g' = [g EXCEPT !.mans = @ + 1, !.done = @ + 1]
    <3>1. woken \cup {} = woken
      OBVIOUS
    <3> QED
      BY <2>3, <3>1 DEF S!FinishSmoker
  <2>5. woken \subseteq UNION {waiters[d] : d \in SmokeCond} /\ t \notin woken
    <3>1. "smoker_go" \in SmokeCond
      BY <1>1, SmokePlaces
    <3>2. \A x \in waiters["smoker_go"] : x \notin lockers /\ pc[x] # "start"
      BY <1>1, SmokePlaces
    <3> QED
      BY <1>2, <3>1, <3>2
  <2>6. Agent \notin woken
    BY <1>1, SmokePlaces, SmokeThreads
  <2> HIDE DEF woken
  <2>7. SmokeMoves(t, woken, "new_i", "new_i")
    BY <1>1, <1>2, <2>4, <2>5, SmokeWait DEF SmokeMoves
  <2>8. /\ DOMAIN g' = DOMAIN g /\ g'.sig = g.sig /\ g'.mans = g.mans + 1 /\ g'.smoks = g.smoks
        /\ g'.done = g.done + 1 /\ g'.signal_count = g.signal_count /\ g'.smoke_count = g.smoke_count
    BY <1>1, <2>4, SmokeFields
  <2>9. SmokeType'
    <3>1. Counts'
      BY <1>1, <2>8, SmokeFields DEF Counts
    <3> QED
      BY <1>1, <2>7, <2>8, <3>1, SmokeFields, SmokeSection
  <2>10. pc'[Agent] = pc[Agent] /\ (Agent \in lockers' <=> Agent \in lockers) /\ Done(t)'
    BY <1>1, <2>6, <2>7, SmokeSection, SmokeThreads DEF Done
  <2>11. \A x \in Resource : Stays(Man(x)) /\ (x # s => Stays(Smo(x)))
    BY <1>1, <2>7, OthersStay, SmokeThreads DEF woken
  <2>12. DoneMen' = DoneMen /\ SumOf(DoneSmokers') = SumOf(DoneSmokers) + 1
    <3>1. \A x \in Resource : DoneMen'[x] = DoneMen[x]
      BY <2>11, Ones DEF Stays
    <3>2. DoneSmokers[s] = 0 /\ DoneSmokers'[s] = 1 /\ \A x \in Resource \ {s} : DoneSmokers'[x] = DoneSmokers[x]
      BY <1>2, <2>10, <2>11, Ones DEF Stays
    <3>3. DoneSmokers' = [DoneSmokers EXCEPT ![s] = 1]
      BY <3>2, Ones
    <3>4. SumOf([DoneSmokers EXCEPT ![s] = 1]) = SumOf(DoneSmokers) + 1
      BY <3>2, Ones, SumOfOnes
    <3>5. DoneMen' = DoneMen
      BY <3>1, Ones
    <3> QED
      BY <3>3, <3>4, <3>5
  <2>13. Owed(r)' /\ pc'[Agent] = "smoke" /\ Agent \notin lockers' /\ Ready(Man(r))'
    BY <1>7, <2>8, <2>10, <2>11 DEF Offered, Owed, Stays
  <2>14. ASSUME NEW x \in Resource \ {r}
         PROVE  /\ Told(Man(x))' \/ Done(Man(x))'
                /\ Fresh(Smo(x))' \/ pc'[Smo(x)] = "idle" \/ (Done(Smo(x))' /\ g'.smoks = 2)
                /\ g'.sig[x] = IF pc'[Smo(r)] = "matched" THEN 0 ELSE DoneMen'[x]
    BY <1>7, <2>1, <2>8, <2>10, <2>11, <2>12 DEF Offered, Stays
  <2>15. g'.done = g'.mans /\ g'.mans = g'.smoks + SumOf(DoneSmokers') /\ g'.smoks = SumOf(DoneMen')
    <3>1. /\ g.done = g.mans /\ g.mans = g.smoks + SumOf(DoneSmokers) /\ g.smoks = SumOf(DoneMen)
          /\ SumOf(DoneSmokers) \in Int /\ g.smoks \in Int
      BY <1>4, <1>7, Ones, SumOfOnes DEF Offered
    <3> QED
      BY <2>8, <2>12, <3>1
  <2>16. g'.sig[r] = 0 /\ (Fresh(Smo(r))' \/ pc'[Smo(r)] = "idle" \/ (pc'[Smo(r)] = "matched" /\ g'.smoks = 2))
    BY <1>7, <2>1, <2>8, <2>11 DEF Offered, Stays
  <2>17. Offered(r)'
    BY <2>13, <2>14, <2>15, <2>16 DEF Offered
  <2> QED
    BY <2>9, <2>17 DEF SmokeInv
<1> QED
  BY <1>3, <1>4, <1>5, <1>6, <1>7 DEF Gathering

\* The agent waits until all managers have counted themselves, and then tells two of them.
LEMMA AgentOffers ==
  ASSUME SmokeInv, S!Offer
  PROVE  SmokeInv'
<1> DEFINE t == Agent
<1>1. SmokeType /\ Agent \in SmokeThread
  BY SmokeThreads DEF SmokeInv
<1>2. (pc[Agent] = "start" \/ Agent \in lockers) /\ pc[Agent] \in {"start", "signal_go"}
  BY SmokeNames DEF S!Offer, S!Back
<1>3. Gathering
  BY <1>2, SmokeRound
<1>4. CASE g.mans # 3
  <2>1. S!WaitFor(Agent, {}, "signal_go", "signal_go") /\ g' = g
    BY <1>4, SmokeNames DEF S!Offer
  <2>2. SmokeMoves(Agent, {}, "signal_go", "signal_go")
    BY <1>1, <1>2, <2>1, SmokeWait DEF SmokeMoves
  <2>3. SmokeType'
    <3>1. Counts'
      BY <1>1, <2>1, SmokeFields DEF Counts
    <3> QED
      BY <1>1, <2>1, <2>2, <3>1, SmokeFields, SmokeSection
  <2>4. pc'[Agent] = "signal_go" /\ \A x \in Resource : Stays(Man(x)) /\ Stays(Smo(x))
    BY <1>1, <2>2, SmokeSection, OthersStay, SmokeThreads
  <2>5. ReadyMen' = ReadyMen
    <3>1. \A x \in Resource : ReadyMen'[x] = ReadyMen[x]
      BY <2>4, Ones DEF Stays
    <3> QED
      BY <3>1, Ones
  <2>6. Gathering'
    BY <1>3, <2>1, <2>4, <2>5 DEF Gathering, NoSig, Stays
  <2> QED
    BY <2>3, <2>6 DEF SmokeInv
<1>5. CASE g.mans = 3
  <2>1. \A x \in Resource : Ready(Man(x)) /\ ~Done(Man(x)) /\ ~Done(Smo(x)) /\ pc[Smo(x)] # "matched"
    <3>1. \A x \in Resource : ReadyMen[x] = 1
      BY <1>3, <1>5, Ones, SumOfOnes DEF Gathering
    <3> QED
      BY <1>3, <3>1, Ones DEF Gathering, Ready, Fresh, Done
  <2>2. PICK r \in Resource :
          /\ g' = [g EXCEPT !.mans = 0, !.signal_count[r] = @ + 1]
          /\ \E woken \in SUBSET UNION {waiters[s] : s \in Resource \ {r}} :
               /\ \A s \in Resource \ {r} : woken \cap waiters[s] \in S!mx!Signalled(s)
               /\ S!WaitFor(Agent, woken, "smoke", "smoke")
    BY <1>5, SmokeNames DEF S!Offer
  <2>3. PICK woken \in SUBSET UNION {waiters[s] : s \in Resource \ {r}} :
               /\ \A s \in Resource \ {r} : woken \cap waiters[s] \in S!mx!Signalled(s)
               /\ S!WaitFor(Agent, woken, "smoke", "smoke")
    BY <2>2, Zenon
  <2>4. \A s \in Resource : waiters[s] = {Man(s)} /\ s \in SmokeCond
    BY <1>1, <2>1, SmokePlaces
  <2>5. woken = {Man(s) : s \in Resource \ {r}}
    <3>1. \A s \in Resource \ {r} : Man(s) \in woken
      BY <2>3, <2>4 DEF S!mx!Signalled
    <3>2. \A x \in woken : \E s \in Resource \ {r} : x = Man(s)
      BY <2>3, <2>4
    <3> QED
      BY <3>1, <3>2
  <2>6. Agent \notin woken /\ woken \subseteq UNION {waiters[d] : d \in SmokeCond}
    BY <2>4, <2>5, SmokeThreads
  <2>7. SmokeMoves(Agent, woken, "smoke", "smoke")
    BY <1>1, <1>2, <2>3, <2>6, SmokeWait DEF SmokeMoves
  <2>8. /\ DOMAIN g' = DOMAIN g /\ g'.sig = g.sig /\ g'.mans = 0 /\ g'.smoks = g.smoks /\ g'.done = g.done
        /\ g'.signal_count = [g.signal_count EXCEPT ![r] = @ + 1] /\ g'.smoke_count = g.smoke_count
    BY <1>1, <2>2, SmokeFields
  <2>9. SmokeType'
    <3>1. Counts'
      BY <1>1, <2>8, SmokeFields DEF Counts
    <3> QED
      BY <1>1, <2>7, <2>8, <3>1, SmokeFields, SmokeSection
  <2>10. pc'[Agent] = "smoke" /\ Agent \notin lockers'
    BY <1>1, <2>7, SmokeSection
  <2>11. \A x \in Resource : Man(x) \in SmokeThread \ {Agent} /\ Smo(x) \in SmokeThread \ {Agent} /\ Smo(x) \notin woken
    BY <2>5, SmokeThreads
  <2>12. \A x \in Resource : Stays(Smo(x)) /\ Stays(Man(r))
    BY <1>1, <2>5, <2>7, <2>11, SmokeSection, SmokeThreads
  <2>13. \A x \in Resource \ {r} : Told(Man(x))'
    <3>1. \A x \in Resource \ {r} : pc'[Man(x)] = pc[Man(x)] /\ Man(x) \in lockers'
      BY <1>1, <2>5, <2>7, <2>11, SmokeSection
    <3> QED
      BY <2>1, <3>1 DEF Told, Ready
  <2>14. SumOf(DoneMen') = 0 /\ SumOf(DoneSmokers') = 0 /\ \A x \in Resource : DoneMen'[x] = 0
    <3>1. \A x \in Resource : ~Done(Man(x))' /\ ~Done(Smo(x))'
      BY <2>1, <2>12, <2>13 DEF Told, Done, Stays
    <3>2. \A x \in Resource : DoneMen'[x] = 0 /\ DoneSmokers'[x] = 0
      BY <3>1, Ones
    <3> QED
      BY <3>2, Ones, SumOfOnes
  <2>15. Owed(r)'
    BY <1>1, <1>3, <2>8, SmokeFields DEF Gathering, Owed
  <2>16. Ready(Man(r))' /\ \A x \in Resource : Fresh(Smo(x))' \/ pc'[Smo(x)] = "idle"
    BY <1>3, <2>1, <2>12 DEF Gathering, Stays
  <2>17. Offered(r)'
    <3>1. \A x \in Resource : g'.sig[x] = 0
      BY <1>3, <2>8 DEF Gathering, NoSig
    <3>2. g'.smoks = 0 /\ g'.done = 0 /\ g'.mans = 0
      BY <1>3, <2>8 DEF Gathering
    <3> QED
      BY <2>10, <2>13, <2>14, <2>15, <2>16, <3>1, <3>2 DEF Offered
  <2> QED
    BY <2>9, <2>17 DEF SmokeInv
<1> QED
  BY <1>4, <1>5

\* When it has been smoked the agent tells the third manager.
LEMMA AgentSmoked ==
  ASSUME SmokeInv, S!Smoked
  PROVE  SmokeInv'
<1>1. SmokeType /\ Agent \in SmokeThread
  BY SmokeThreads DEF SmokeInv
<1> DEFINE woken == UNION {waiters[x] : x \in Resource}
<1>2. /\ pc[Agent] = "smoke" /\ Agent \in lockers /\ g' = g
      /\ S!WaitFor(Agent, woken, "last_man", "last_man")
  BY SmokeNames DEF S!Smoked, S!Back
<1>3. PICK r \in Resource : Smoked(r)
  BY <1>2, SmokeRound
<1>4. Ready(Man(r)) /\ (\A x \in Resource \ {r} : ~Ready(Man(x)))
  BY <1>2, <1>3 DEF Smoked, Ready, Done
<1>5. woken = {Man(r)} /\ woken \subseteq UNION {waiters[d] : d \in SmokeCond}
  <2>1. \A x \in Resource : x \in SmokeCond /\ waiters[x] = IF x = r THEN {Man(r)} ELSE {}
    BY <1>1, <1>4, SmokePlaces
  <2> QED
    BY <2>1
<1> HIDE DEF woken
<1>6. SmokeMoves(Agent, woken, "last_man", "last_man")
  BY <1>1, <1>2, <1>5, SmokeWait, SmokeThreads DEF SmokeMoves
<1>7. SmokeType'
  <2>1. Counts'
    BY <1>1, <1>2, SmokeFields DEF Counts
  <2> QED
    BY <1>1, <1>2, <1>6, <2>1, SmokeFields, SmokeSection
<1>8. /\ pc'[Agent] = "last_man" /\ Agent \notin lockers'
      /\ \A x \in Resource : (x # r => Stays(Man(x))) /\ Stays(Smo(x))
  BY <1>1, <1>5, <1>6, SmokeSection, SmokeThreads
<1>9. Told(Man(r))'
  <2>1. pc'[Man(r)] = pc[Man(r)] /\ Man(r) \in lockers'
    BY <1>1, <1>5, <1>6, SmokeSection, SmokeThreads
  <2> QED
    BY <1>4, <2>1 DEF Told, Ready
<1>10. Smoked(r)'
  BY <1>2, <1>3, <1>8, <1>9 DEF Smoked, NoSig, Stays
<1> QED
  BY <1>7, <1>10 DEF SmokeInv

\* The round ends when all six are through with it, and all of them start another.
LEMMA AgentEndsRound ==
  ASSUME SmokeInv, S!EndRound
  PROVE  SmokeInv'
<1>1. SmokeType /\ Agent \in SmokeThread
  BY SmokeThreads DEF SmokeInv
<1>2. pc[Agent] = "last_man" /\ Agent \in lockers
  BY SmokeNames DEF S!EndRound, S!Back
<1>3. AllDone
  BY <1>2, SmokeRound
<1> DEFINE woken == waiters["new_i"]
<1>4. /\ g' = [g EXCEPT !.sig = [r \in Resource |-> 0], !.mans = 0, !.smoks = 0, !.done = 0]
      /\ \/ S!WaitFor(Agent, woken, "signal_go", "signal_go")
         \/ S!mx!Section(Agent, woken) /\ S!Go(Agent, "end")
  BY <1>3, SmokeNames DEF S!EndRound, AllDone
<1>5. /\ woken \subseteq UNION {waiters[d] : d \in SmokeCond} /\ Agent \notin woken
      /\ \A r \in Resource : Man(r) \in woken /\ Smo(r) \in woken
  BY <1>1, <1>3, SmokePlaces, SmokeThreads DEF AllDone
<1> HIDE DEF woken
<1>6. SmokeMoves(Agent, woken, "signal_go", "signal_go") \/ SmokeMoves(Agent, woken, "none", "end")
  <2>1. CASE S!WaitFor(Agent, woken, "signal_go", "signal_go")
    BY <1>1, <1>2, <1>5, <2>1, SmokeWait DEF SmokeMoves
  <2>2. CASE S!mx!Section(Agent, woken) /\ S!Go(Agent, "end")
    BY <1>1, <1>2, <1>5, <2>2, SmokeLeave DEF SmokeMoves
  <2> QED
    BY <1>4, <2>1, <2>2
<1>7. /\ DOMAIN g' = DOMAIN g /\ g'.sig = [r \in Resource |-> 0] /\ g'.mans = 0 /\ g'.smoks = 0 /\ g'.done = 0
      /\ g'.signal_count = g.signal_count /\ g'.smoke_count = g.smoke_count
  BY <1>1, <1>4, SmokeFields
<1>8. SmokeType'
  <2>1. Counts'
    BY <1>1, <1>7, SmokeFields DEF Counts
  <2> QED
    BY <1>1, <1>6, <1>7, <2>1, SmokeFields, SmokeSection
<1>9. /\ pc'[Agent] \in {"signal_go", "end"}
      /\ \A r \in Resource : /\ pc'[Man(r)] = pc[Man(r)] /\ Man(r) \in lockers'
                             /\ pc'[Smo(r)] = pc[Smo(r)] /\ Smo(r) \in lockers'
  BY <1>1, <1>5, <1>6, SmokeSection, SmokeThreads
<1>10. \A r \in Resource : Fresh(Man(r))' /\ Fresh(Smo(r))' /\ ~Ready(Man(r))'
  BY <1>3, <1>9 DEF AllDone, Done, Fresh, Ready
<1>11. SumOf(ReadyMen') = 0
  <2>1. \A r \in Resource : ReadyMen'[r] = 0
    BY <1>10, Ones
  <2> QED
    BY <2>1, Ones, SumOfOnes
<1>12. Gathering'
  BY <1>3, <1>7, <1>9, <1>10, <1>11 DEF Gathering, NoSig, AllDone
<1> QED
  BY <1>8, <1>12 DEF SmokeInv

\* Who has done all rounds leaves, between two rounds or as a smoker who was late in the last.
LEMMA ThreadLeaves ==
  ASSUME SmokeInv, NEW t \in Manager \cup Smoker, S!Leave(t)
  PROVE  SmokeInv'
<1>1. SmokeType /\ t \in SmokeThread /\ t # Agent
  BY SmokeThreads DEF SmokeInv
<1>2. (pc[t] = "start" \/ t \in lockers) /\ Fresh(t) /\ g' = g
  BY DEF S!Leave, S!Begin, Fresh
<1>3. SmokeMoves(t, {}, "none", "end")
  <2>1. S!mx!Section(t, {}) /\ S!Go(t, "end")
    BY DEF S!Leave
  <2> QED
    BY <1>1, <1>2, <2>1, SmokeLeave DEF SmokeMoves
<1>4. SmokeType'
  <2>1. Counts'
    BY <1>1, <1>2, SmokeFields DEF Counts
  <2> QED
    BY <1>1, <1>2, <1>3, <2>1, SmokeFields, SmokeSection
<1>5. pc'[Agent] = pc[Agent] /\ (Agent \in lockers' <=> Agent \in lockers) /\ pc'[t] = "end"
  BY <1>1, <1>3, SmokeSection, SmokeThreads
<1>6. \A x \in Resource : (Man(x) # t => Stays(Man(x))) /\ (Smo(x) # t => Stays(Smo(x)))
  BY <1>1, <1>3, OthersStay
<1>7. Fresh(t)' /\ ~Done(t)' /\ ~Ready(t)' /\ ~Told(t)' /\ ~Done(t) /\ ~Ready(t) /\ ~Told(t)
  BY <1>2, <1>5 DEF Fresh, Done, Ready, Told
<1>8. \A x \in Resource :
        /\ Fresh(Man(x))' <=> Fresh(Man(x))
        /\ Done(Man(x))' <=> Done(Man(x))
        /\ Ready(Man(x))' <=> Ready(Man(x))
        /\ Told(Man(x))' <=> Told(Man(x))
        /\ Fresh(Smo(x))' <=> Fresh(Smo(x))
        /\ Done(Smo(x))' <=> Done(Smo(x))
        /\ Smo(x) # t => pc'[Smo(x)] = pc[Smo(x)]
        /\ Smo(x) = t => pc'[Smo(x)] # "matched" /\ pc[Smo(x)] # "matched"
  BY <1>2, <1>5, <1>6, <1>7 DEF Stays, Fresh
<1>9. ReadyMen' = ReadyMen /\ DoneMen' = DoneMen /\ DoneSmokers' = DoneSmokers
  <2>1. \A x \in Resource : ReadyMen'[x] = ReadyMen[x] /\ DoneMen'[x] = DoneMen[x] /\ DoneSmokers'[x] = DoneSmokers[x]
    BY <1>8, Ones
  <2> QED
    BY <2>1, Ones
<1>10. \A x \in Resource : Fresh(Smo(x)) \/ pc[Smo(x)] = "idle" => Fresh(Smo(x))' \/ pc'[Smo(x)] = "idle"
  BY <1>7, <1>8
<1>11. CASE Gathering
  <2>1. Gathering'
    BY <1>2, <1>5, <1>8, <1>9, <1>10, <1>11 DEF Gathering, NoSig
  <2> QED
    BY <1>4, <2>1 DEF SmokeInv
<1>12. ASSUME NEW r \in Resource, Offered(r) PROVE SmokeInv'
  <2>1. Owed(r)' /\ pc'[Agent] = "smoke" /\ Agent \notin lockers' /\ Ready(Man(r))' /\ g'.sig[r] = 0
    BY <1>2, <1>5, <1>8, <1>12 DEF Offered, Owed
  <2>2. pc'[Smo(r)] = "matched" <=> pc[Smo(r)] = "matched"
    BY <1>8
  <2>3. ASSUME NEW x \in Resource \ {r}
        PROVE  /\ Told(Man(x))' \/ Done(Man(x))'
               /\ Fresh(Smo(x))' \/ pc'[Smo(x)] = "idle" \/ (Done(Smo(x))' /\ g'.smoks = 2)
               /\ g'.sig[x] = IF pc'[Smo(r)] = "matched" THEN 0 ELSE DoneMen'[x]
    BY <1>2, <1>8, <1>9, <1>10, <1>12, <2>2 DEF Offered
  <2>4. Fresh(Smo(r))' \/ pc'[Smo(r)] = "idle" \/ (pc'[Smo(r)] = "matched" /\ g'.smoks = 2)
    BY <1>2, <1>10, <1>12, <2>2 DEF Offered
  <2>5. Offered(r)'
    BY <1>2, <1>9, <1>12, <2>1, <2>3, <2>4 DEF Offered
  <2> QED
    BY <1>4, <2>5 DEF SmokeInv
<1>13. Gathering \/ \E r \in Resource : Offered(r)
  <2>1. (\E s \in Resource : t = Man(s)) \/ \E s \in Resource : t = Smo(s)
    BY SmokeThreads
  <2> QED
    BY <1>2, <2>1, SmokeRound
<1> QED
  BY <1>11, <1>12, <1>13

\* Every step of smoke.c keeps the invariant.
LEMMA SmokeStep == SmokeInv /\ [S!Next]_S!vars => SmokeInv'
<1>1. ASSUME SmokeInv, UNCHANGED S!vars PROVE SmokeInv'
  <2> USE <1>1 DEF S!vars, S!monitor
  <2>1. SmokeType'
    BY DEF SmokeInv, SmokeType, Counts, WaitersAt, SmokeWhere
  <2>2. \A t : (Fresh(t)' <=> Fresh(t)) /\ (Done(t)' <=> Done(t)) /\ (Ready(t)' <=> Ready(t)) /\ (Told(t)' <=> Told(t))
    BY DEF Fresh, Done, Ready, Told
  <2>3. ReadyMen' = ReadyMen /\ DoneMen' = DoneMen /\ DoneSmokers' = DoneSmokers
    BY DEF ReadyMen, DoneMen, DoneSmokers, One, Ready, Done
  <2>4. Gathering' <=> Gathering
    BY <2>2, <2>3 DEF Gathering, NoSig
  <2>5. AllDone' <=> AllDone
    BY <2>2 DEF AllDone
  <2>6. \A r \in Resource : Offered(r)' <=> Offered(r)
    BY <2>2, <2>3 DEF Offered, Owed
  <2>7. \A r \in Resource : Smoked(r)' <=> Smoked(r)
    BY <2>2 DEF Smoked, NoSig
  <2> QED
    BY <2>1, <2>4, <2>5, <2>6, <2>7 DEF SmokeInv
<1>2. ASSUME SmokeInv, S!Next PROVE SmokeInv'
  <2>1. PICK t \in SmokeThread : S!Step(t)
    BY <1>2, SmokeThreads DEF S!Next
  <2>2. CASE t = S!Agent /\ S!agent
    BY <1>2, <2>2, AgentOffers, AgentSmoked, AgentEndsRound DEF S!agent
  <2>3. CASE t \in S!Manager /\ S!manager(t)
    BY <1>2, <2>3, SmokeThreads, ManagerBegins, ManagerHasResource DEF S!manager
  <2>4. CASE t \in S!Smoker /\ S!smoker(t)
    BY <1>2, <2>4, SmokeThreads, SmokeNames, SmokerBegins, SmokerMatched DEF S!smoker
  <2>5. CASE S!Leave(t)
    <3>1. t \in Manager \cup Smoker
      BY <2>1, <2>5, SmokeNames DEF S!Leave, SmokeThread
    <3> QED
      BY <1>2, <2>5, <3>1, ThreadLeaves
  <2> QED
    BY <2>1, <2>2, <2>3, <2>4, <2>5 DEF S!Step
<1> QED
  BY <1>1, <1>2

\* The property follows from the invariant.
LEMMA SmokeRule == SmokeInv => S!OffersSmoked
<1> SUFFICES ASSUME SmokeInv PROVE S!OffersSmoked
  OBVIOUS
<1>1. pc[Agent] \in {"signal_go", "end"} => g.signal_count = g.smoke_count
  BY SmokeRound DEF Gathering
<1>2. g.signal_count = g.smoke_count \/ \E r \in Resource : Owed(r)
  BY DEF SmokeInv, Gathering, AllDone, Offered, Smoked
<1>3. Counts
  BY DEF SmokeInv, SmokeType
<1> QED
  BY <1>1, <1>2, <1>3, OwedCounts, SmokeNames DEF S!OffersSmoked

(***************************************************************************)
(* The programs in one specification                                       *)
(***************************************************************************)
Inv ==
  /\ program = "well" => WellInv
  /\ program = "soln_well" => SolnWellInv
  /\ program = "well_sem" => WellSemInv
  /\ program = "pc_sem" => PoolInv
  /\ program = "ordering" => OrderInv
  /\ program = "smoke" => SmokeInv
  /\ program = "soln_smoke" => SolnSmokeInv
  /\ program = "smoke_sem" => SmokeSemInv

\* The program that was chosen starts in its own initial state.
LEMMA InitInv == Init => Inv
BY WellInit, SolnWellInit, WellSemInit, PoolInit, OrderInit, SmokeInit, SolnSmokeInit, SmokeSemInit DEF Init, Inv

\* A step of the whole is a step of the program that was chosen, or none of it.
LEMMA OneProgram ==
  ASSUME [Next]_vars
  PROVE  /\ program' = program
         /\ program = "well" => [W!Next]_W!vars
         /\ program = "soln_well" => [SW!Next]_SW!vars
         /\ program = "well_sem" => [WS!Next]_WS!vars
         /\ program = "pc_sem" => [Pool!Next]_Pool!vars
         /\ program = "ordering" => [O!Next]_O!vars
         /\ program = "smoke" => [S!Next]_S!vars
         /\ program = "soln_smoke" => [SS!Next]_SS!vars
         /\ program = "smoke_sem" => [SM!Next]_SM!vars
<1>1. CASE Next
  BY <1>1 DEF Next, WithMonitor, WithSemaphores, Is
<1>2. CASE UNCHANGED vars
  BY <1>2 DEF vars, monitor, W!vars, W!monitor, SW!vars, SW!monitor, WS!vars, Pool!vars, O!vars, O!monitor,
     S!vars, S!monitor, SS!vars, SS!monitor, SM!vars
<1> QED
  BY <1>1, <1>2

\* Every step keeps the invariant of every program, and the turns at the well of semaphores.
LEMMA StepInv ==
  ASSUME Inv, [Next]_vars
  PROVE  Inv' /\ (program = "well_sem" => WS!TurnsKept)
<1>1. /\ program' = program
      /\ program = "well" => WellInv'
      /\ program = "soln_well" => SolnWellInv'
      /\ program = "well_sem" => WellSemInv' /\ WS!TurnsKept
      /\ program = "pc_sem" => PoolInv'
      /\ program = "ordering" => OrderInv'
      /\ program = "smoke" => SmokeInv'
      /\ program = "soln_smoke" => SolnSmokeInv'
      /\ program = "smoke_sem" => SmokeSemInv'
  BY OneProgram, WellStep, SolnWellStep, WellSemStep, PoolStep, OrderStep, SmokeStep, SolnSmokeStep, SmokeSemStep
     DEF Inv
<1> QED
  BY <1>1 DEF Inv

\* In every execution each program keeps its invariant.
THEOREM ProgramsKeepInvariants == Spec => []Inv
<1> QED
  BY InitInv, StepInv, PTL DEF Spec

\* well.c, soln/well.c and soln/well_sem.c: those inside the well are of one kind, not too many,
\* and just the ones it counts, for any number of people and any limit of at least one.
THEOREM WellsKeepTheirRule == Spec => []WellRule
<1>1. Inv => WellRule
  BY WellSemRule DEF Inv, WellRule, WellInv, SolnWellInv
<1> QED
  BY <1>1, ProgramsKeepInvariants, PTL

\* The same programs: where people wait at an empty well, somebody woken or just come is about to
\* look at it (in well_sem.c nobody waits there at all), and the counts on which a leaver decides
\* whom to wake are right.  It is a claim about empty wells only.
THEOREM NobodyIsStranded == Spec => []NobodyStranded
<1>1. Inv => NobodyStranded
  BY WellSemRule DEF Inv, NobodyStranded, WellInv, SolnWellInv
<1> QED
  BY <1>1, ProgramsKeepInvariants, PTL

\* soln/well_sem.c only, whose wells count nobody's turns: while the other kind waits, no step lets
\* more of the kind inside in, for any number of people and any limit.
THEOREM WellTakesTurns == Spec => TakesTurns
<1>1. Inv /\ [Next]_vars => (program = "well_sem" => WS!TurnsKept)
  BY StepInv
<1> QED
  BY <1>1, ProgramsKeepInvariants, PTL DEF TakesTurns, Spec

\* pc_sem.c and soln/pc_sem.c: the pool keeps within its limits, one thread at a time changes
\* it, and what the semaphores count and the threads hold adds up.
THEOREM PoolConservesPermits == Spec => []PermitsConserved
<1>1. Inv => PermitsConserved
  BY PoolRule DEF Inv, PermitsConserved
<1> QED
  BY <1>1, ProgramsKeepInvariants, PTL

\* q1.c, q3.c, q4.c and test.c print in order, however the threads are scheduled.
THEOREM PrintsInOrder == Spec => []PrintedInOrder
<1>1. Inv => PrintedInOrder
  BY DEF Inv, PrintedInOrder, OrderInv, O!PrintedInOrder, Sorted
<1> QED
  BY <1>1, ProgramsKeepInvariants, PTL

\* smoke.c, soln/smoke.c and soln/smoke_sem.c: when the agent goes on, each offer has been smoked
\* by the one who was meant, and meanwhile at most the last one has not.
THEOREM OffersAreSmoked == Spec => []OffersSmoked
<1>1. Inv => OffersSmoked
  BY SmokeRule, SolnSmokeRule, SmokeSemRule DEF Inv, OffersSmoked
<1> QED
  BY <1>1, ProgramsKeepInvariants, PTL
=============================================================================
