------------------------------- MODULE Smoke -------------------------------
(***************************************************************************)
(* smoke.c: an agent offers two of three resources, a manager for each      *)
(* resource notes it and the smoker who has the third one smokes.  All of   *)
(* them run in sections of one Monitor; counters say how far a round is.    *)
(***************************************************************************)
EXTENDS Integers, FiniteSets

CONSTANT NUM_ITERATIONS

VARIABLES
  g,     \* the global variables
  my,    \* the loop counter of each thread
  pc,    \* the wait each thread is in, "start", "end", or "spin" for the agent
  writers, readers, lockers, rlockers, waiters

monitor == <<writers, readers, lockers, rlockers, waiters>>
vars == <<g, my, pc, monitor>>

Resource == {"match", "paper", "tobacco"}
Agent == <<"agent", "all">>
Manager == {"manager"} \X Resource
Smoker == {"smoker"} \X Resource
Thread == {Agent} \cup Manager \cup Smoker
Cond == Resource \cup {"smoke", "signal_go", "smoker_go", "new_i", "last_man"}

mx == INSTANCE Monitor

Init ==
  /\ g = [sig |-> [r \in Resource |-> 0], mans |-> 0, smoks |-> 0, done |-> 0,
          signal_count |-> [r \in Resource |-> 0], smoke_count |-> [r \in Resource |-> 0]]
  /\ my = [t \in Thread |-> 0]
  /\ pc = [t \in Thread |-> "start"]
  /\ mx!Init

Go(t, place) == pc' = [pc EXCEPT ![t] = place]

\* The thread wakes others, goes on to a wait and releases the mutex there.
WaitFor(t, woken, c, place) == mx!SectionWait(t, woken, c) /\ Go(t, place)

\* A thread begins a round at its start or when new_i wakes it.
Begin(t) == pc[t] = "start" \/ (pc[t] = "new_i" /\ t \in lockers)
Back(t, place) == pc[t] = place /\ t \in lockers

Round(t) == my[t] + (IF pc[t] = "start" THEN 0 ELSE 1)

\* The last wait for new_i is over: the loop ends and the mutex is released.
Leave(t) ==
  /\ t # Agent /\ Begin(t) /\ Round(t) = NUM_ITERATIONS
  /\ my' = [my EXCEPT ![t] = Round(t)]
  /\ mx!Section(t, {}) /\ Go(t, "end")
  /\ UNCHANGED g

(***************************************************************************)
(* manager                                                                 *)
(***************************************************************************)
\* The resource is there: the last part of the loop.
FinishManager(t, mans, sig, woken) ==
  /\ g' = [g EXCEPT !.sig[t[2]] = sig, !.mans = mans + 1, !.smoks = @ + 1, !.done = @ + 1]
  /\ \E last \in mx!Signalled("last_man") :
       WaitFor(t, woken \cup waiters["smoker_go"] \cup last, "new_i", "new_i")

BeginManager(t) ==
  /\ Begin(t) /\ Round(t) < NUM_ITERATIONS
  /\ my' = [my EXCEPT ![t] = Round(t)]
  /\ \E go \in mx!Signalled("signal_go") :
       IF g.sig[t[2]] # 0
       THEN FinishManager(t, g.mans + 1, g.sig[t[2]], go)
       ELSE g' = [g EXCEPT !.mans = @ + 1] /\ WaitFor(t, go, t[2], "resource")

HaveResource(t) ==
  /\ Back(t, "resource")
  /\ FinishManager(t, g.mans, g.sig[t[2]] + 1, {})
  /\ UNCHANGED my

manager(t) == BeginManager(t) \/ HaveResource(t)

(***************************************************************************)
(* smoker                                                                  *)
(***************************************************************************)
\* The two managers and the two other smokers have counted themselves.
Ready == g.mans = 4

\* mans, done and the last broadcast of the loop, after smoking or without.
FinishSmoker(t, next, woken) ==
  /\ g' = [next EXCEPT !.mans = @ + 1, !.done = @ + 1]
  /\ WaitFor(t, waiters["smoker_go"] \cup woken, "new_i", "new_i")

SmokeOrWait(t, next) ==
  IF Ready
  THEN \E agent \in mx!Signalled("smoke") :
         FinishSmoker(t, [next EXCEPT !.smoke_count[t[2]] = @ + 1], agent)
  ELSE g' = next /\ WaitFor(t, {}, "smoker_go", "matched")

Others(t) == Resource \ {t[2]}
Offered(t) == \A r \in Others(t) : g.sig[r] > 0

BeginSmoker(t) ==
  /\ (Begin(t) /\ Round(t) < NUM_ITERATIONS) \/ Back(t, "idle")
  /\ my' = [my EXCEPT ![t] = IF pc[t] = "idle" THEN @ ELSE Round(t)]
  /\ CASE g.smoks < 2 -> WaitFor(t, {}, "smoker_go", "idle") /\ UNCHANGED g
       [] g.smoks >= 2 /\ Offered(t) ->
            SmokeOrWait(t, [g EXCEPT !.sig =
              [r \in Resource |-> IF r \in Others(t) THEN @[r] - 1 ELSE @[r]]])
       [] OTHER -> FinishSmoker(t, g, {})

Matched(t) ==
  /\ Back(t, "matched")
  /\ SmokeOrWait(t, g)
  /\ UNCHANGED my

smoker(t) == BeginSmoker(t) \/ Matched(t)

(***************************************************************************)
(* agent                                                                   *)
(***************************************************************************)
\* All managers wait for resources: two of them are signalled, and the smoker with the
\* third resource is to smoke.
Offer ==
  /\ pc[Agent] = "start" \/ Back(Agent, "signal_go")
  /\ IF g.mans # 3
     THEN WaitFor(Agent, {}, "signal_go", "signal_go") /\ UNCHANGED g
     ELSE \E r \in Resource :
            /\ g' = [g EXCEPT !.mans = 0, !.signal_count[r] = @ + 1]
            /\ \E woken \in SUBSET UNION {waiters[s] : s \in Resource \ {r}} :
                 /\ \A s \in Resource \ {r} : woken \cap waiters[s] \in mx!Signalled(s)
                 /\ WaitFor(Agent, woken, "smoke", "smoke")
  /\ UNCHANGED my

Smoked ==
  /\ Back(Agent, "smoke")
  /\ WaitFor(Agent, UNION {waiters[r] : r \in Resource}, "last_man", "last_man")
  /\ UNCHANGED <<g, my>>

\* The round ends: while (done != 6) is polled with the mutex held.  Then mans is 0, so the
\* agent waits for signal_go in the same section, or its loop ends.
EndRound ==
  /\ Back(Agent, "last_man")
  /\ IF g.done # 6
     THEN mx!Acquire(Agent) /\ Go(Agent, "spin") /\ UNCHANGED <<g, my>>
     ELSE /\ g' = [g EXCEPT !.sig = [r \in Resource |-> 0], !.mans = 0, !.smoks = 0, !.done = 0]
          /\ my' = [my EXCEPT ![Agent] = @ + 1]
          /\ IF my[Agent] + 1 < NUM_ITERATIONS
             THEN WaitFor(Agent, waiters["new_i"], "signal_go", "signal_go")
             ELSE mx!Section(Agent, waiters["new_i"]) /\ Go(Agent, "end")

agent == Offer \/ Smoked \/ EndRound

Finished == pc[Agent] = "end"

Step(t) ==
  \/ t = Agent /\ agent
  \/ t \in Manager /\ manager(t)
  \/ t \in Smoker /\ smoker(t)
  \/ Leave(t)

Next == \E t \in Thread : Step(t)

Spec == Init /\ [][Next]_vars /\ \A t \in Thread : WF_vars(Step(t))
-----------------------------------------------------------------------------
\* Between two rounds and at the end each offer has been smoked, by the smoker who was meant
\* (the asserts of main), and during a round at most the last one has not.
OffersSmoked ==
  /\ pc[Agent] \in {"signal_go", "end"} => g.signal_count = g.smoke_count
  /\ \A r \in Resource : g.signal_count[r] - g.smoke_count[r] \in 0 .. 1
=============================================================================
