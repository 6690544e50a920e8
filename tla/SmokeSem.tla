------------------------------ MODULE SmokeSem ------------------------------
(***************************************************************************)
(* soln/smoke_sem.c: the agent signals two of three semaphores, pushers     *)
(* match them and signal the smoker who has the third resource.  Permits    *)
(* wait for whoever is late.  The semaphore mutex is only held over         *)
(* statements that do not wait, which are one step together.                *)
(***************************************************************************)
EXTENDS Integers, FiniteSets

CONSTANT NUM_ITERATIONS

VARIABLES
  g,    \* the flags of struct Pusher and the counts
  my,   \* the agent's loop counter
  pc,   \* where each thread is
  sem

vars == <<g, my, pc, sem>>

Resource == {"match", "paper", "tobacco"}
Agent == <<"agent", "all">>
Pusher == {"pusher"} \X Resource
Smoker == {"smoker"} \X Resource
Thread == {Agent} \cup Pusher \cup Smoker
For(r) == CASE r = "match" -> "for_match" [] r = "paper" -> "for_paper" [] OTHER -> "for_tobacco"

INSTANCE Semaphores

Init ==
  /\ g = [have |-> {}, offer |-> {},
          signal_count |-> [r \in Resource |-> 0], smoke_count |-> [r \in Resource |-> 0]]
  /\ my = 0
  /\ pc = [t \in Thread |-> IF t = Agent THEN "offer" ELSE "wait"]
  /\ sem = [s \in Resource \cup {For(r) : r \in Resource} \cup {"smoke"} |-> 0]

Go(t, place) == pc' = [pc EXCEPT ![t] = place]

\* The agent offers all but the resource of the smoker that it chose, one semaphore at a time.
Offer ==
  /\ pc[Agent] = "offer" /\ my < NUM_ITERATIONS
  /\ \E r \in Resource :
       g' = [g EXCEPT !.signal_count[r] = @ + 1, !.offer = Resource \ {r}]
  /\ Go(Agent, "signal")
  /\ UNCHANGED <<my, sem>>

\* match before paper before tobacco.
FirstOf(offer) == IF "match" \in offer THEN "match" ELSE IF "paper" \in offer THEN "paper" ELSE "tobacco"

SignalOffer ==
  /\ pc[Agent] = "signal" /\ g.offer # {}
  /\ V(FirstOf(g.offer))
  /\ g' = [g EXCEPT !.offer = @ \ {FirstOf(g.offer)}]
  /\ UNCHANGED <<my, pc>>

\* Mistake: the agent goes on without a smoke.
AwaitSmoke_Not ==
  /\ pc[Agent] = "signal" /\ g.offer = {}
  /\ UNCHANGED sem
  /\ my' = my + 1
  /\ Go(Agent, "offer")
  /\ UNCHANGED g

AwaitSmoke ==
  /\ pc[Agent] = "signal" /\ g.offer = {}
  /\ P("smoke")
  /\ my' = my + 1
  /\ Go(Agent, "offer")
  /\ UNCHANGED g

agent == Offer \/ SignalOffer \/ AwaitSmoke

Take(t) ==
  /\ t \in Pusher /\ pc[t] = "wait"
  /\ P(t[2])
  /\ Go(t, "push")
  /\ UNCHANGED <<g, my>>

\* Who smokes when these resources are there: the pairs are tried in this order.
Match(have) ==
  IF {"match", "paper"} \subseteq have THEN "tobacco"
  ELSE IF {"match", "tobacco"} \subseteq have THEN "paper" ELSE "match"

\* The rest of the pusher's loop, under the semaphore mutex.
Push(t) ==
  /\ pc[t] = "push"
  /\ LET have == g.have \cup {t[2]} IN
     IF Cardinality(have) < 2
     THEN g' = [g EXCEPT !.have = have] /\ UNCHANGED sem
     ELSE g' = [g EXCEPT !.have = have \cap {Match(have)}] /\ V(For(Match(have)))
  /\ Go(t, "wait")
  /\ UNCHANGED my

TakeTurn(t) ==
  /\ t \in Smoker /\ pc[t] = "wait"
  /\ P(For(t[2]))
  /\ Go(t, "smoke")
  /\ UNCHANGED <<g, my>>

smoke(t) ==
  /\ pc[t] = "smoke"
  /\ g' = [g EXCEPT !.smoke_count[t[2]] = @ + 1]
  /\ V("smoke")
  /\ Go(t, "wait")
  /\ UNCHANGED my

Step(t) == (t = Agent /\ agent) \/ Take(t) \/ Push(t) \/ TakeTurn(t) \/ smoke(t)

Finished == my = NUM_ITERATIONS

Next == \E t \in Thread : Step(t)

Spec == Init /\ [][Next]_vars /\ \A t \in Thread : WF_vars(Step(t))
-----------------------------------------------------------------------------
\* When the agent makes the next offer, or its last one is smoked, each offer has been smoked by
\* the smoker who was meant (the asserts of main) and no resource is left over.
OffersSmoked ==
  pc[Agent] = "offer" =>
    g.signal_count = g.smoke_count /\ g.have = {} /\ \A s \in DOMAIN sem : sem[s] = 0
=============================================================================
