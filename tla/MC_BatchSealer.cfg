CONSTANTS
    N = 2
    PlannerBatchSize = 0
    UsizeMax = 3
    OverflowChecks = FALSE
    EnableDeals = TRUE
    DisableCC = FALSE
    IgnoreProofCheck = FALSE
    t1 = t1
    t2 = t2
    Tickets <- MCTickets
    NoTicket = NoTicket
    ApplyPC2Outputs = FALSE
    MaxResumes = 3
SPECIFICATION Spec
INVARIANT TypeOK
PROPERTY ConfirmedOnlyIfLanded TicketStable PollingEnds FollowsPipeline
CHECK_DEADLOCK FALSE
