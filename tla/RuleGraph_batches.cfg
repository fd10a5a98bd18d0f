\* Every connected graph of four nodes, two rows, one formula that may throw;
\* some graphs are changed once while the batch runs.
CONSTANTS
    r1 = r1
    r2 = r2
    Nodes = {1, 2, 3, 4, 5}
    Rows = {r1, r2}
    Hits = {r1}
    Graphs <- AllDesigns
    Changing <- Redesigned
    Breaks <- OneBreak
    MaxEdits = 1
    None = None
SPECIFICATION FairSpec
INVARIANTS
    AppliedOnce
    RowsFollowTheGraph
    NothingUndone
PROPERTIES
    BatchProceeds
CHECK_DEADLOCK FALSE
