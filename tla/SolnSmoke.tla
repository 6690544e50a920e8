----------------------------- MODULE SolnSmoke -----------------------------
(***************************************************************************)
(* soln/smoke.c: the agent signals two resources, their pushers find out    *)
(* together which smoker has the third and pass the turn to him and from    *)
(* him back to the agent.  Nothing remembers a signal that nobody waits for.*)
(***************************************************************************)
EXTENDS Integers, FiniteSets

CONSTANT NUM_ITERATIONS

VARIABLES
  g,     \* the flags of struct Pusher and the counts
  my,    \* the agent's loop counter
  pc,    \* the wait each thread is in, "start" or "end"
  writers, readers, lockers, rlockers, waiters

monitor == <<writers, readers, lockers, rlockers, waiters>>
vars == <<g, my, pc, monitor>>

Resource == {"match", "paper", "tobacco"}
Agent == <<"agent", "all">>
Pusher == {"pusher"} \X Resource
Smoker == {"smoker"} \X Resource
Thread == {Agent} \cup Pusher \cup Smoker
\* Of struct Agent and, with the name of the smoker who waits on them, of struct Pusher.
Cond == Resource \cup {"agent_smoke", "pusher_smoke", "for_match", "for_paper", "for_tobacco"}
For(r) == CASE r = "match" -> "for_match" [] r = "paper" -> "for_paper" [] OTHER -> "for_tobacco"

mx == INSTANCE Monitor

Init ==
  /\ g = [have |-> {}, signal_count |-> [r \in Resource |-> 0], smoke_count |-> [r \in Resource |-> 0]]
  /\ my = 0
  /\ pc = [t \in Thread |-> "start"]
  /\ mx!Init

WaitFor(t, woken, c, place) ==
  mx!SectionWait(t, woken, c) /\ pc' = [pc EXCEPT ![t] = place]
Back(t, place) == pc[t] = place /\ t \in lockers

\* Every pusher and smoker begins with a wait.
Begin(t) ==
  /\ pc[t] = "start"
  /\ WaitFor(t, {}, IF t \in Pusher THEN t[2] ELSE For(t[2]), "wait")
  /\ UNCHANGED <<g, my>>

\* The agent keeps the mutex from one wait for a smoker to the next.
agent ==
  /\ pc[Agent] = "start" \/ Back(Agent, "smoke")
  /\ my' = my + (IF pc[Agent] = "start" THEN 0 ELSE 1)
  /\ IF my' = NUM_ITERATIONS
     THEN mx!Section(Agent, {}) /\ pc' = [pc EXCEPT ![Agent] = "end"] /\ UNCHANGED g
     ELSE \E r \in Resource :
            /\ g' = [g EXCEPT !.signal_count[r] = @ + 1]
            /\ \E woken \in SUBSET UNION {waiters[s] : s \in Resource \ {r}} :
                 /\ \A s \in Resource \ {r} : woken \cap waiters[s] \in mx!Signalled(s)
                 /\ WaitFor(Agent, woken, "agent_smoke", "smoke")

Taken(have, r) == have \cap {r}

\* Who smokes when these resources are there: the pairs are tried in this order.
Match(have) ==
  IF {"match", "paper"} \subseteq have THEN "tobacco"
  ELSE IF {"match", "tobacco"} \subseteq have THEN "paper" ELSE "match"

\* A pusher is told of its resource: the second of a pair calls the smoker and waits for him.
Push(t) ==
  /\ Back(t, "wait")
  /\ LET have == g.have \cup {t[2]}
         r == Match(have)
     IN  IF Cardinality(have) < 2
         THEN WaitFor(t, {}, t[2], "wait") /\ g' = [g EXCEPT !.have = have]
         ELSE /\ g' = [g EXCEPT !.have = Taken(have, r)]
              /\ \E s \in mx!Signalled(For(r)) : WaitFor(t, s, "pusher_smoke", "smoker")
  /\ UNCHANGED my

Smoked(t) ==
  /\ Back(t, "smoker")
  /\ \E a \in mx!Signalled("agent_smoke") : WaitFor(t, a, t[2], "wait")
  /\ UNCHANGED <<g, my>>

pusher(t) == Push(t) \/ Smoked(t)

smoke(t) ==
  /\ Back(t, "wait")
  /\ g' = [g EXCEPT !.smoke_count[t[2]] = @ + 1]
  /\ \E p \in mx!Signalled("pusher_smoke") : WaitFor(t, p, For(t[2]), "wait")
  /\ UNCHANGED my

Step(t) ==
  \/ t = Agent /\ agent
  \/ t \in Pusher \cup Smoker /\ Begin(t)
  \/ t \in Pusher /\ pusher(t)
  \/ t \in Smoker /\ smoke(t)

Next == \E t \in Thread : Step(t)

Spec == Init /\ [][Next]_vars /\ \A t \in Thread : WF_vars(Step(t))
-----------------------------------------------------------------------------
\* Each time the agent runs again, what it offered has been smoked, by the smoker who was
\* meant (the asserts of main), and nothing is left over for the next round.
OffersSmoked ==
  /\ pc[Agent] = "end" \/ Back(Agent, "smoke") => g.signal_count = g.smoke_count /\ g.have = {}
  /\ \A r \in Resource : g.signal_count[r] - g.smoke_count[r] \in 0 .. 1

\* The pushers and smokers came to their waits before the agent's first signals.  (Otherwise
\* a signal may be lost, and then all wait.)
Awaited ==
  pc[Agent] = "start" /\ \A t \in Pusher \cup Smoker : pc[t] = "wait" /\ t \notin lockers
Ended == pc[Agent] = "end"
=============================================================================
