SPECIFICATION Spec
CONSTANT Rank = {0, 1, 2, 3}
CONSTANT Plans <- TwoOnly
CONSTANT StripeSize = 2
CONSTANT ReroutingThreshold = 30
INVARIANT CoordinatorReceives
CHECK_DEADLOCK FALSE
