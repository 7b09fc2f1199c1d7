SPECIFICATION Spec
CONSTANTS
    r1 = r1
    r2 = r2
    Cohorts = {r1, r2}
    MaxSteps = 2
    QueueLimit = 0
    QueueFullPolicy = "Block"
    ReserveQueueLimit = 0
    FirstTimestepPrecious = FALSE
    StepDistributionMode = "OnDemand"
    Rendezvous = 2
    Latest = {}
    MayLeave = {}
    MayFail = {r2}
INVARIANT ReferencesCounted
INVARIANT DeliveredOnce
PROPERTY DemandsAdvance
CHECK_DEADLOCK FALSE
