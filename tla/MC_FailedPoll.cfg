CONSTANTS
    N = 2
    PlannerBatchSize = 0
    UsizeMax = 3
    OverflowChecks = FALSE
    EnableDeals = TRUE
    DisableCC = FALSE
    IgnoreProofCheck = FALSE
    t1 = t1
    t2 = t2
    Tickets <- MCTickets
    NoTicket = NoTicket
    ApplyPC2Outputs = TRUE
    MaxResumes = 0
SPECIFICATION Spec

PROPERTY FailedPollResubmits
CHECK_DEADLOCK FALSE
