CONSTANTS
    r1 = r1
    r2 = r2
    u1 = u1
    u2 = u2
    q1 = q1
    q2 = q2
    Runs <- TwoRuns
    Users <- TwoUsers
    UserOf <- UserOfRuns
    Requests <- TwoRequests
    RunOf <- RunOfRequests
    Envelope = 2
    Usages <- WithinEnvelope
    MaxTotalTokens = 3
    TeamMonthlyMax = 5
    MaxActiveRunsPerUser = 1
    MaxActiveRunsPerProject = 2
    Counters <- ToolCallsOnly
    Limit <- Limits
    MaxRecords = 2
    MaxOverlap = 1
SPECIFICATION Spec
INVARIANTS TypeOK ChargedOnce RunWithinLimit GrantedWithinLimit
CHECK_DEADLOCK FALSE
