SPECIFICATION SerialSpec
CONSTANTS
    Procs = {p1, p2}
    Nodes = {a, b}
    Subjects = {a}
    EdgeIds = {e1, e2, e3}
    SingleRels = {livesIn}
    MultiRels = {knows}
    MaxTime = 1
    MaxCrashes = 1
    NoEdge = NoEdge
    NoId = NoId
    Forever = Forever
INVARIANTS
    SingleValued
    AsOfUnique
    MemoryMatchesFile
    SuccessorExists
PROPERTY
    RetiredIsFinal
SYMMETRY Symmetry
CHECK_DEADLOCK FALSE
