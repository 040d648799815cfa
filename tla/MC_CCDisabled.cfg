CONSTANTS
    N = 2
    PlannerBatchSize = 0
    UsizeMax = 3
    OverflowChecks = FALSE
    EnableDeals = TRUE
    DisableCC = TRUE
    IgnoreProofCheck = FALSE
    t1 = t1
    t2 = t2
    Tickets <- MCTickets
    NoTicket = NoTicket
    ApplyPC2Outputs = FALSE
    MaxResumes = 0
SPECIFICATION Spec
INVARIANT CCOnlyWhenAllowed
CHECK_DEADLOCK FALSE
