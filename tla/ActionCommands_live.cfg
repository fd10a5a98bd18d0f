SPECIFICATION LiveSpec
CONSTANTS
    Procs = {p1}
    Keys = {k1, k2}
    Bodies = {b1}
    MaxToken = 3
    MaxRevision = 2
    IssueAt = {p1}
    ExecuteAt = {p1}
    SaveAt = {}
    None = None
    Direct = Direct
CHECK_DEADLOCK FALSE
PROPERTIES
    IssuanceEnds
    WriteLockIsReturned
