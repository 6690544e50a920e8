----------------------------- MODULE Semaphores -----------------------------
(***************************************************************************)
(* The semaphores of a program, by name: the value of a CountingSemaphore   *)
(* each.  A thread inside uthread_sem_wait is one whose P has no permit     *)
(* yet; as there, a permit goes to any of the threads that want it.         *)
(***************************************************************************)
EXTENDS Integers

VARIABLE sem

P(s) == sem[s] > 0 /\ sem' = [sem EXCEPT ![s] = @ - 1]
V(s) == sem' = [sem EXCEPT ![s] = @ + 1]
=============================================================================
