SPECIFICATION Spec
CONSTANTS
    Procs = {p1, p2}
    Keys = {k1, k2}
    Bodies = {b1, b2}
    MaxToken = 3
    MaxRevision = 1
    IssueAt = {p1, p2}
    ExecuteAt = {}
    SaveAt = {}
    None = None
    Direct = Direct
SYMMETRY AllSymmetry
CHECK_DEADLOCK FALSE
INVARIANTS
    TokensNeverShared
    IssuedReferenceMatchesBody
