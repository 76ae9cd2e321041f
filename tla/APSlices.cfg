SPECIFICATION Spec
CONSTANTS
    site = site
    ap1 = ap1
    ap2 = ap2
    ap3 = ap3
    Nobody = Nobody
    Wild = Wild
    APs = {site, ap1, ap2, ap3}
    Default = site
    Starts <- Lists
    MaxLen = 4
    MaxEdits = 3
INVARIANTS
    SliceShowsList
    SnapshotSeesRealAPs
    SnapshotKeepsDefault
    UndisturbedIsExact
CHECK_DEADLOCK FALSE
