CONSTANTS
    N = 1
    PlannerBatchSize = 0
    UsizeMax = 3
    OverflowChecks = FALSE
    EnableDeals = FALSE
    DisableCC = FALSE
    IgnoreProofCheck = FALSE
    t1 = t1
    t2 = t2
    Tickets <- MCTickets
    NoTicket = NoTicket
    ApplyPC2Outputs = FALSE
    MaxResumes = 1
SPECIFICATION Spec
PROPERTY ProofRollbackToLast
CHECK_DEADLOCK FALSE
