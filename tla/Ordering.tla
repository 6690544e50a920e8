------------------------------ MODULE Ordering ------------------------------
(***************************************************************************)
(* Four small programs that put what three threads print in order:          *)
(* a10/q1.c with joins, a10/q3.c with a barrier, a10/q4.c and a11/test.c    *)
(* with conditions.  (test.c uses two threads.)                             *)
(***************************************************************************)
EXTENDS Integers, Sequences

VARIABLES
  g,     \* which program this is, its counter or flag, and what was printed
  my,    \* how many threads main has joined
  pc,
  writers, readers, lockers, rlockers, waiters

monitor == <<writers, readers, lockers, rlockers, waiters>>
vars == <<g, my, pc, monitor>>

Thread == 0 .. 2
Cond == {"oneCanGo", "twoCanGo"}

mx == INSTANCE Monitor

\* main creates all threads at once, but in q1.c each after it joined the one before.
Init ==
  /\ \E p \in {"q1", "q3", "q4", "test"} :
       /\ g = [program |-> p, count |-> 0, out |-> <<>>]
       /\ pc = [t \in Thread |->
                 CASE p = "q1" -> IF t = 0 THEN "start" ELSE "none"
                   [] p = "test" -> IF t < 2 THEN "start" ELSE "end"
                   [] OTHER -> "start"]
  /\ my = 0
  /\ mx!Init

Go(t, place) == pc' = [pc EXCEPT ![t] = place]
Say(n) == g' = [g EXCEPT !.out = Append(@, n)]
Say_Count(n, count) == g' = [g EXCEPT !.out = Append(@, n), !.count = count]

Entering(t) == pc[t] = "start" \/ (pc[t] = "wait" /\ t \in lockers)

main ==
  /\ my < 3 /\ pc[my] = "end"
  /\ my' = my + 1
  /\ pc' = IF g.program = "q1" /\ my < 2 THEN [pc EXCEPT ![my + 1] = "start"] ELSE pc
  /\ IF my = 2 THEN Say(3) ELSE UNCHANGED g
  /\ UNCHANGED monitor

q1_p(t) ==
  /\ g.program = "q1" /\ pc[t] = "start"
  /\ Say(t) /\ Go(t, "end")
  /\ UNCHANGED <<my, monitor>>

\* p of q3.c prints a (0), counts under the mutex, polls the counter without it, and prints b (1).
q3_p(t) ==
  /\ g.program = "q3"
  /\ \/ pc[t] = "start" /\ Say(0) /\ Go(t, "count") /\ UNCHANGED monitor
     \/ pc[t] = "count" /\ g' = [g EXCEPT !.count = @ + 1] /\ Go(t, "poll") /\ mx!Section(t, {})
     \/ pc[t] = "poll" /\ g.count = 3 /\ Say(1) /\ Go(t, "end") /\ UNCHANGED monitor
  /\ UNCHANGED my

\* Mistake: off by one.
MustWait_OneAhead(t) == g.count < t - 1

\* p1 and p2 of q4.c wait for their turn.
MustWait(t) == g.count # t

\* Mistake: p1 signals the condition that it waited for.
NextTurn_Same(t) == IF t = 2 THEN {{}} ELSE mx!Signalled("oneCanGo")

\* p0 wakes p1, and p1 wakes p2.
NextTurn(t) ==
  IF t = 2 THEN {{}} ELSE mx!Signalled(IF t = 0 THEN "oneCanGo" ELSE "twoCanGo")

q4_p(t) ==
  /\ g.program = "q4" /\ Entering(t)
  /\ IF MustWait(t)
     THEN /\ mx!SectionWait(t, {}, IF t = 1 THEN "oneCanGo" ELSE "twoCanGo")
          /\ Go(t, "wait") /\ UNCHANGED g
     ELSE /\ Say_Count(t, IF t < 2 THEN t + 1 ELSE 2)
          /\ Go(t, "end")
          /\ \E woken \in NextTurn(t) : mx!Section(t, woken)
  /\ UNCHANGED my

\* In test.c thread 0 is c, which sets the flag, and 1 is a, which waits with an if.
test_thread(t) ==
  /\ g.program = "test" /\ Entering(t)
  /\ IF t = 1 /\ pc[t] = "start" /\ g.count = 0
     THEN mx!SectionWait(t, {}, "oneCanGo") /\ Go(t, "wait") /\ UNCHANGED g
     ELSE /\ Say_Count(t, 1) /\ Go(t, "end")
          /\ \E s \in IF t = 0 THEN mx!Signalled("oneCanGo") ELSE {{}} : mx!Section(t, s)
  /\ UNCHANGED my

Step(t) == q1_p(t) \/ q3_p(t) \/ q4_p(t) \/ test_thread(t)

Finished == my = 3

Next == main \/ \E t \in Thread : Step(t)

Spec == Init /\ [][Next]_vars /\ WF_vars(main) /\ \A t \in Thread : WF_vars(Step(t))
-----------------------------------------------------------------------------
\* What is printed is in order: zero, one, two, three; in q3.c all a before any b; and main
\* prints last.
PrintedInOrder == \A i, j \in DOMAIN g.out : i < j => g.out[i] =< g.out[j]
=============================================================================
