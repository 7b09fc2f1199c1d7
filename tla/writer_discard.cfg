SPECIFICATION Spec
CONSTANTS
    r1 = r1
    r2 = r2
    Cohorts = {r1, r2}
    MaxSteps = 4
    QueueLimit = 3
    QueueFullPolicy = "Discard"
    ReserveQueueLimit = 2
    FirstTimestepPrecious = TRUE
    StepDistributionMode = "AllToAll"
    Rendezvous = 0
    Latest = {r2}
    MayLeave = {r2}
    MayFail = {}
INVARIANT PreciousPresented
INVARIANT ReserveKept
INVARIANT QueueWithinLimit
PROPERTY InOrder
CHECK_DEADLOCK FALSE
