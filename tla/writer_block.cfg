SPECIFICATION Spec
CONSTANTS
    r1 = r1
    r2 = r2
    Cohorts = {r1, r2}
    MaxSteps = 3
    QueueLimit = 1
    QueueFullPolicy = "Block"
    ReserveQueueLimit = 0
    FirstTimestepPrecious = FALSE
    StepDistributionMode = "AllToAll"
    Rendezvous = 0
    Latest = {}
    MayLeave = {r1, r2}
    MayFail = {r1, r2}
SYMMETRY CohortSymmetry
INVARIANT ReferencesCounted
INVARIANT SentStepsRetained
INVARIANT DeliveredStepsRetained
INVARIANT ProvidedEntryKept
INVARIANT QueueWithinLimit
INVARIANT NoStepMissed
INVARIANT RegistrationQueued
INVARIANT NoLostWakeup
PROPERTY StartingStepKept
CHECK_DEADLOCK FALSE
