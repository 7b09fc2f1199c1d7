SPECIFICATION Spec
CONSTANTS
    r1 = r1
    r2 = r2
    Cohorts = {r1}
    MaxSteps = 2
    QueueLimit = 0
    QueueFullPolicy = "Block"
    ReserveQueueLimit = 0
    FirstTimestepPrecious = FALSE
    StepDistributionMode = "AllToAll"
    Rendezvous = 0
    Latest = {}
    MayLeave = {r1}
    MayFail = {}
PROPERTY NoResurrection
CHECK_DEADLOCK FALSE
