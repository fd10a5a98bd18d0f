SPECIFICATION Spec
CONSTANTS
    m1 = m1
    m2 = m2
    x1 = x1
    Models = {m1, m2}
    Keys = {k1, k2}
    Tasks = {t1, t2}
    Names = {n1, n2}
    PartOf <- MCPartOf
    Targets = {x1}
    RefOf <- MCRefOf
    Offers <- MCOffers
    Thousand = 10
    Attempts = 2
    MaxRevision = 6
    MaxPapers = 4
    MaxToken = 2
    MaxMoves = 1
    None = None
SYMMETRY Symmetry
CHECK_DEADLOCK FALSE
INVARIANTS
    LedgerIsOneToOne
PROPERTIES
    IdentityFrozen
    AllocatedUnderLease
