SPECIFICATION KnowledgeSpec
CONSTANTS
    make = make
    again = again
    change = change
    shut = shut
    open = open
    resolve = resolve
    i1 = i1
    i2 = i2
    h1 = h1
    Ops = {make, again, change, shut, open, resolve}
    OpKind <- MCKind
    OpId <- MCId
    OpStatus <- MCStatus
    Ids = {i1, i2, h1}
    IssueIds = {i1, i2}
    Beside = {make, change}
    MaxCrashes = 1
    NoFile = NoFile
    Lookups = {l1, l2}
    MaxRebuilds = 2
    NoIndex = NoIndex
    NoBody = NoBody
INVARIANTS
    InTurnNothingIsLost
    LayerKnowsWhenStale
    BodyNotOlderThanRow
SYMMETRY Symmetry
CHECK_DEADLOCK FALSE
