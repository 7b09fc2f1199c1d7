SPECIFICATION FairSpec
CONSTANTS
    CohortSize = 2
    Configs <- Streams
INVARIANT TypeOK
INVARIANT ReleasedOnce
INVARIANT StepsAccountedFor
INVARIANT CurrentEntryQueued
INVARIANT FormatsComplete
INVARIANT AttributesInOrder
INVARIANT SameEverywhere
PROPERTY StreamKept
PROPERTY CallsReturn
