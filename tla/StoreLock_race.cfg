\* The same instance against the comment of acquireLock.
CONSTANTS
    t1 = t1 t2 = t2 t3 = t3 t4 = t4
    server = server sweep = sweep other = other
    Tasks = {t1, t2, t3, t4}
    Procs = {server, sweep, other}
    Process <- ServerAndSweep
    Returning = {t3}
    MaxLocks = 5
    None = None
SPECIFICATION Spec
PROPERTIES OnlyDeadOwnersRecovered
CHECK_DEADLOCK FALSE
