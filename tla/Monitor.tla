------------------------------ MODULE Monitor ------------------------------
(***************************************************************************)
(* What a client of uthread_mutex_cond.c relies on: a reader/writer monitor *)
(* with condition variables of the Mesa kind.  Who holds it, who is inside  *)
(* a lock call, who waits for which condition; no queues and no wake-ups.   *)
(***************************************************************************)
CONSTANTS Thread, Cond

VARIABLES
  writers,    \* the threads that hold the monitor for writing
  readers,    \* the threads that hold it for reading
  lockers,    \* the threads inside a call that acquires it for writing
  rlockers,   \* the threads inside a call that acquires it for reading
  waiters     \* waiters[c]: the threads that wait for condition c

vars == <<writers, readers, lockers, rlockers, waiters>>

Init ==
  /\ writers = {} /\ readers = {} /\ lockers = {} /\ rlockers = {}
  /\ waiters = [c \in Cond |-> {}]

Free == writers = {} /\ readers = {}

\* A thread is kept inside a lock call, or leaves it with the monitor: for
\* writing only when nobody has it, for reading only when nobody writes.
Await(t) ==
  /\ lockers' = lockers \cup {t}
  /\ UNCHANGED <<writers, readers, rlockers, waiters>>

AwaitRead(t) ==
  /\ rlockers' = rlockers \cup {t}
  /\ UNCHANGED <<writers, readers, lockers, waiters>>

Acquire(t) ==
  /\ Free
  /\ writers' = {t}
  /\ lockers' = lockers \ {t}
  /\ UNCHANGED <<readers, rlockers, waiters>>

AcquireRead(t) ==
  /\ writers = {}
  /\ readers' = readers \cup {t}
  /\ rlockers' = rlockers \ {t}
  /\ UNCHANGED <<writers, lockers, waiters>>

Release(t) ==
  /\ t \in writers \cup readers
  /\ writers' = writers \ {t}
  /\ readers' = readers \ {t}
  /\ UNCHANGED <<lockers, rlockers, waiters>>

\* Waiting for a condition gives the monitor up in the same step.
Wait(t, c) ==
  /\ t \in writers
  /\ writers' = writers \ {t}
  /\ waiters' = [waiters EXCEPT ![c] = @ \cup {t}]
  /\ UNCHANGED <<readers, lockers, rlockers>>

\* Only a thread that has the monitor wakes threads, exactly one (if there is
\* one) or all, and a woken thread has to acquire the monitor again.
Wake(c, woken) ==
  /\ waiters' = [waiters EXCEPT ![c] = @ \ woken]
  /\ lockers' = lockers \cup woken
  /\ UNCHANGED <<writers, readers, rlockers>>

Signal(t, c) ==
  /\ t \in writers
  /\ IF waiters[c] = {} THEN UNCHANGED vars ELSE \E s \in waiters[c] : Wake(c, {s})

Broadcast(t, c) == t \in writers /\ Wake(c, waiters[c])

(***************************************************************************)
(* Clients whose data are touched only by threads that have the monitor may *)
(* take a whole critical section as one step: nobody sees its middle.  The  *)
(* thread comes from outside or from lockers, and leaves or waits.          *)
(***************************************************************************)
Section(t, woken) ==
  /\ Free
  /\ lockers' = (lockers \ {t}) \cup woken
  /\ waiters' = [c \in Cond |-> waiters[c] \ woken]
  /\ UNCHANGED <<writers, readers, rlockers>>

SectionWait(t, woken, c) ==
  /\ Free
  /\ lockers' = (lockers \ {t}) \cup woken
  /\ waiters' = [d \in Cond |-> (waiters[d] \ woken) \cup (IF d = c THEN {t} ELSE {})]
  /\ UNCHANGED <<writers, readers, rlockers>>

Waiting == UNION {waiters[c] : c \in Cond}

\* The sets of threads that a signal may wake.
Signalled(c) == IF waiters[c] = {} THEN {{}} ELSE {{s} : s \in waiters[c]}

Next ==
  \E t \in Thread :
    \/ Await(t) \/ AwaitRead(t) \/ Acquire(t) \/ AcquireRead(t) \/ Release(t)
    \/ \E c \in Cond : Wait(t, c) \/ Signal(t, c) \/ Broadcast(t, c)

\* The monitor is not left free while a thread is inside a lock call.
AcquireFree ==
  /\ Free
  /\ \/ \E t \in lockers : Acquire(t)
     \/ \E t \in rlockers : AcquireRead(t)

Spec == Init /\ [][Next]_vars /\ WF_vars(AcquireFree)
=============================================================================
