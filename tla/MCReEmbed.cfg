SPECIFICATION OrderlySpec
CONSTANTS
    Stores = {atomic, inbound}
    Paths = {p1, p2}
    Models = {m1, m2}
    MaxVersion = 2
    MaxCrashes = 1
    MaxRuns = 2
    Note = Note
    NoFile = NoFile
    NoHash = NoHash
    Nil = Nil
    Torn = Torn
INVARIANTS
    SkipIsSafe
PROPERTIES
    FullRebuildExact
    RunSettles
SYMMETRY Symmetry
CHECK_DEADLOCK FALSE
