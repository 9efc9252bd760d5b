SPECIFICATION Spec
CONSTANTS
    Procs = {p1, p2}
    Topics = {t}
    Texts = {x, y}
    tenantA = tenantA
    tenantB = tenantB
    Namespaces <- MCNamespaces
    TopK = 2
    MaxDocs = 4
INVARIANTS
    SuccessorLater
    SupersededByItsOwn
    LastRetainWins
SYMMETRY Symmetry
CHECK_DEADLOCK FALSE
