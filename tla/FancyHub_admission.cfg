\* Two assessments share the admission file; the provider reports a lower
\* limit than the deployment allows.
CONSTANTS
    a1 = a1
    a2 = a2
    Assessments = {a1, a2}
    Limit = 2
    Reported = {1}
    Rate = 2
    Window = 2
    Timeout = 2
    Models = 2
    Tries = 2
    Budget = 2
    MaxNow = 3
    MaxFaults = 1
    None = None
SPECIFICATION FairSpec
INVARIANTS
    CallsWithinLimit
    RateWithinLimitInOrder
    AnswerIsBacked
PROPERTIES
    EveryAssessmentEnds
CHECK_DEADLOCK FALSE
