SPECIFICATION AddsOverlapSpec
CONSTANTS
    Procs = {p1, p2}
    Ids = {d1, d2}
    Models = {m1, m2}
    InitialMax = 1
    MaxLabel = 3
    MaxCrashes = 2
    None = None
    NoFile = NoFile
    Torn = Torn
INVARIANTS
    AckedSearchable
    AckedListed
SYMMETRY Symmetry
CHECK_DEADLOCK FALSE
