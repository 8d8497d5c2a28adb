CONSTANTS
    r1 = r1
    r2 = r2
    u1 = u1
    u2 = u2
    q1 = q1
    q2 = q2
    Runs <- TwoRuns
    Users <- TwoUsers
    UserOf <- SameUser
    Requests <- NoRequests
    RunOf <- NoRunOf
    Envelope = 2
    Usages <- WithinEnvelope
    MaxTotalTokens = 3
    TeamMonthlyMax = 5
    MaxActiveRunsPerUser = 1
    MaxActiveRunsPerProject = 2
    Counters <- NoCounters
    Limit <- Limits
    MaxRecords = 2
    MaxOverlap = 1
SPECIFICATION Spec
INVARIANTS UserConcurrencyHeld
CHECK_DEADLOCK FALSE
