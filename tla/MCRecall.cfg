SPECIFICATION RecallSpec
CONSTANTS
    q1 = q1
    q2 = q2
    t1 = t1
    t2 = t2
    Calls = {q1, q2}
    Asked <- MCAsked
    Hits <- MCHits
    Tenants = {t1, t2}
    Anyone = Anyone
    Unset = Unset
    DefaultTopK = 2
    MaxTotal = 3
    Limit = 2
    Boost = 1
    Full = 20
    Clients = {c1, c2}
    Asks = {a1, a2}
    Ping = ping
    Dials = {d1, d2}
    Ttl = 2
    MaxEntries = 1
    InitTimeout = 1
    RequestTimeout = 1
    MaxClock = 3
    NoDial = NoDial
    NoEntry = NoEntry
INVARIANTS
    AnswerIsRecent
    OpenIsUsed
    OneBackend
    NobodyWaitsInVain
    TenantKept
    AnswerRanksAll
SYMMETRY Symmetry
CHECK_DEADLOCK FALSE
