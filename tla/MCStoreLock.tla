---------------------------- MODULE MCStoreLock ----------------------------
(***************************************************************************)
(* Instance of StoreLock: the server with two tasks, the sweep with one,   *)
(* and one more process.                                                   *)
(***************************************************************************)
EXTENDS StoreLock, TLC

CONSTANTS t1, t2, t3, t4, server, sweep, other

ServerAndSweep ==
    [t \in Tasks |-> CASE t \in {t1, t2} -> server [] t = t3 -> sweep [] OTHER -> other]
=============================================================================
