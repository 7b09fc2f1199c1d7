SPECIFICATION FairSpec
CONSTANTS
    r1 = r1
    r2 = r2
    Cohorts = {r1, r2}
    MaxSteps = 4
    QueueLimit = 0
    QueueFullPolicy = "Block"
    ReserveQueueLimit = 0
    FirstTimestepPrecious = FALSE
    StepDistributionMode = "RoundRobin"
    Rendezvous = 2
    Latest = {}
    MayLeave = {}
    MayFail = {}
INVARIANT TypeOK
INVARIANT RoundRobinEven
PROPERTY CloseReturns
