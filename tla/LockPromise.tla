---------------------------- MODULE LockPromise ----------------------------
(***************************************************************************)
(* What the lock files of the AI runtime store promise their callers: one  *)
(* task inside at a time, who keeps the lock until it gives it back or its *)
(* process has died.                                                       *)
(*                                                                         *)
(*   holder  who has the lock, or None                                     *)
(*   inside  the tasks between acquireLock and the end of their release    *)
(***************************************************************************)
CONSTANTS Tasks, Procs, Process, None

VARIABLES holder, inside, alive

vars == <<holder, inside, alive>>

Init == holder = None /\ inside = {} /\ alive = Procs

Acquire(t) ==
    /\ holder = None
    /\ Process[t] \in alive
    /\ holder' = t
    /\ inside' = inside \cup {t}
    /\ UNCHANGED alive

Release(t) ==
    /\ holder = t
    /\ t \in inside
    /\ holder' = None
    /\ inside' = inside \ {t}
    /\ UNCHANGED alive

\* The caller gets an error, and the lock stays behind.
Abandon(t) ==
    /\ t \in inside
    /\ inside' = inside \ {t}
    /\ UNCHANGED <<holder, alive>>

\* The lock of a dead process may be taken away from it.
Recover ==
    /\ holder # None
    /\ Process[holder] \notin alive
    /\ holder' = None
    /\ UNCHANGED <<inside, alive>>

Die(p) ==
    /\ alive' = alive \ {p}
    /\ inside' = {t \in inside : Process[t] # p}
    /\ UNCHANGED holder

Next ==
    \/ \E t \in Tasks : Acquire(t) \/ Release(t) \/ Abandon(t)
    \/ Recover
    \/ \E p \in Procs : Die(p)

Spec == Init /\ [][Next]_vars
=============================================================================
