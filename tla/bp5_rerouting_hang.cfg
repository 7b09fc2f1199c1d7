SPECIFICATION FairSpec
CONSTANT Rank = {0, 1, 2, 3}
CONSTANT Plans <- ThreeOnly
CONSTANT StripeSize = 2
CONSTANT ReroutingThreshold = 30
PROPERTY WriteDataReturns
CHECK_DEADLOCK FALSE
