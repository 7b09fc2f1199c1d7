SPECIFICATION FairSpec
CONSTANT Rank = {0, 1, 2, 3}
CONSTANT Plans <- Runs
CONSTANT StripeSize = 2
CONSTANT ReroutingThreshold = 30
INVARIANT TypeOK
INVARIANT EveryoneGrouped
INVARIANT GroupsBalanced
INVARIANT QueuedOnce
PROPERTY AppendsInTurn
PROPERTY ReturnsUnlessRejected
CHECK_DEADLOCK FALSE
