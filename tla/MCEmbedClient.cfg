SPECIFICATION ClientSpec
CONSTANTS
    Calls = {c1, c2}
    Threshold = 2
    Cooldown = 2
    FailureCap = 3
    MaxAttempts = 2
    NoUsage = NoUsage
INVARIANTS
    ClosedIffBudgetLeft
    WasteBounded
PROPERTIES
    NoDoubleBilling
    EveryEmbedSettles
    Recovers
