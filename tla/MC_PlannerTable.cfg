CONSTANTS
    N = 3
    PlannerBatchSize = 0
    UsizeMax = 4
    OverflowChecks = FALSE
SPECIFICATION TableSpec
INVARIANT FollowsDesign
