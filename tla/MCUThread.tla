----------------------------- MODULE MCUThread -----------------------------
(***************************************************************************)
(* UThread under three clients: one that does everything, on one processor, *)
(* as uthread_init (1) gives it; and two in which no thread that blocks     *)
(* also yields or exits, on two processors and on three.                    *)
(***************************************************************************)
EXTENDS UThread, TLC

\* uthread_init starts some of the pthreads.
MCInit ==
  \E started \in SUBSET Proc : First \in started /\ InitWith(started)

MCSpec == MCInit /\ [][Next]_vars

processors == Cardinality(Proc \ At("absent"))

Blocks(t) == t \in parked' \ parked
Yields(t) == ops' > ops /\ \E p \in At("run") : run[p] = t /\ pc'[p] # "run" /\ ~Blocks(t)
Claims(t) == target'[t] # target[t]

\* With two processors main blocks, joins or detaches, or a worker yields; with three main
\* blocks and joins.
Client ==
  processors > 1 =>
    /\ ops' =< 1
    /\ ~Yields(Main)
    /\ \A w \in Worker : ~Blocks(w) /\ ~Claims(w)
    /\ processors > 2 => At("detach")' = {} /\ \A w \in Worker : ~Yields(w)

Symmetry == Permutations(Worker) \cup Permutations(Proc \ {First})
=============================================================================
