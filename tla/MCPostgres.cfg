SPECIFICATION PgSpec
CONSTANTS
    a = a
    b = b
    c = c
    knows = knows
    Procs = {p1, p2}
    Nodes = {a, b, c}
    EdgeIds = {e1, e2, e3}
    Facts <- MCFacts
    Requests <- MCRequests
    MaxTime = 1
    MaxDepth = 2
    MaxFaults = 1
    NoEdge = NoEdge
    NoId = NoId
    Forever = Forever
    d1 = d1
    d2 = d2
    x1 = x1
    x2 = x2
    Backends = {b1, b2}
    Stores = {s1, s2}
    Ids = {d1, d2}
    Edits = {x1, x2}
    Named <- MCNamed
    Batches <- MCBatches
    MaxAdds = 2
    MaxLost = 1
    NoDoc = NoDoc
    NotLoaded = NotLoaded
INVARIANTS
    AllOrNothing
    SameReach
    CountCovers
    PatchAllOrNone
PROPERTY
    PgRetiredIsFinal
SYMMETRY Symmetry
CHECK_DEADLOCK FALSE
