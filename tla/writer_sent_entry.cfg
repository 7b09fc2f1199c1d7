SPECIFICATION Spec
CONSTANTS
    r1 = r1
    r2 = r2
    Cohorts = {r1, r2}
    MaxSteps = 2
    QueueLimit = 1
    QueueFullPolicy = "Block"
    ReserveQueueLimit = 0
    FirstTimestepPrecious = FALSE
    StepDistributionMode = "AllToAll"
    Rendezvous = 0
    Latest = {}
    MayLeave = {}
    MayFail = {}
INVARIANT SentEntryAlive
