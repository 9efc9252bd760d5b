SPECIFICATION WorkflowSpec
CONSTANTS
    t1 = t1
    t2 = t2
    Promoters = {q1, q2}
    Ids = {t1, t2}
    Reviews = {r1, r2}
    Sessions = {s}
    Enders = {e1, e2}
    Bodies <- MCBodies
    Absent = Absent
    Torn = Torn
    MaxSteps = 1
    MinMessages = 1
    Scaffolders = {f1}
    Artifacts <- MCArtifacts
    MaxTasks = 1
INVARIANTS
    NamedEpisodeIsWhole
    NoProposalLost
    ParentsFirst
PROPERTIES
    ApprovedIsFinal
    EpisodeIsFinal
SYMMETRY Symmetry
CHECK_DEADLOCK FALSE
