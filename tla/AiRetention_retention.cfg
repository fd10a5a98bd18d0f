\* One assessment; a request and the sweep at work; one fault of any kind.
CONSTANTS
    u1 = u1
    Count = 1
    Users = {u1}
    Sweep = Sweep
    Parts = {"raw"}
    Faults = {"adapter", "restore", "blank"}
    MaxFaults = 1
    MaxBackups = 1
    MaxRequests = 2
    None = None
    Dead = Dead
    Blank = Blank
SPECIFICATION FairSpec
INVARIANTS
    DeletedStaysHidden
    PurgeIsComplete
    AuditedOnce
    NoEventLost
PROPERTIES
    PurgedEventually
CHECK_DEADLOCK FALSE
