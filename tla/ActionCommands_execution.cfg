SPECIFICATION Spec
CONSTANTS
    Procs = {p1, p2}
    Keys = {k1, k2}
    Bodies = {b1}
    MaxToken = 2
    MaxRevision = 2
    IssueAt = {p1}
    ExecuteAt = {p1, p2}
    SaveAt = {p2}
    None = None
    Direct = Direct
SYMMETRY KeySymmetry
CHECK_DEADLOCK FALSE
INVARIANTS
    EffectMatchesResult
    AnsweredOutcomeIsRecorded
PROPERTIES
    ExecutionsFollowTokens
    RetryGetsTheRecordedResult
    ImplementsLedger
