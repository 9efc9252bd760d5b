SPECIFICATION ExclusiveSpec
CONSTANTS
    Procs = {p1, p2}
    d1 = d1
    d2 = d2
    d3 = d3
    x1 = x1
    x2 = x2
    Ids <- MCIds
    Patches <- MCPatches
    Scope <- MCScope
    MaxCrashes = 1
    NoRow = NoRow
    NoFile = NoFile
    Torn = Torn
    Live = Live
INVARIANTS
    AckedDurable
    MemoryMatchesFile
PROPERTY
    ImplementsDocStore
SYMMETRY Symmetry
CHECK_DEADLOCK FALSE
