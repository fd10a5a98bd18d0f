SPECIFICATION Spec
CONSTANTS
    Calls = {c1, c2}
    Packages = {q1}
    Edits = {e1}
    Workbooks = 2
    MaxPreviews = 1
    Faults = {"lock", "backup", "displace", "install", "undo", "cleanup", "reread", "validate", "record", "restore", "unlock"}
    Crashes = TRUE
    None = None
    Missing = Missing
    Torn = Torn
    Leaked = Leaked
SYMMETRY Symmetry
INVARIANTS
    OneCommitAtATime
    CommittedIsRecorded
    DeliveredOnce
    FailedLeavesNothing
    OriginalRecoverable
    EarlierEditsSurvive
PROPERTIES
    RecordedMeansDelivered
    OnlyConfirmedContent
    CommitEnds
