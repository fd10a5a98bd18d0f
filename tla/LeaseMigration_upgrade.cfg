SPECIFICATION OpeningSpec
CONSTANTS
    Procs = {p1, p2, p3}
    MaxToken = 4
    Upgrading = TRUE
    None = None
SYMMETRY Symmetry
INVARIANTS
    OpenStoreCoversLease
    UpgradeGrantsOnce
