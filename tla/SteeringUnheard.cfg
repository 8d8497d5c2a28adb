CONSTANTS
    r1 = r1
    r2 = r2
    u1 = u1
    q1 = q1
    q2 = q2
    q3 = q3
    Runs <- OneRun
    Users <- OneUser
    UserOf <- UserOfRuns
    Requests <- ThreeRequests
    RunOf <- RunOfRequests
    Envelope = 2
    Usages <- WithinEnvelope
    MaxTotalTokens = 5
    TeamMonthlyMax = 7
    MaxActiveRunsPerUser = 1
    MaxActiveRunsPerProject = 2
    Counters <- BothCounters
    Limit <- Limits
    MaxRecords = 3
    MaxOverlap = 1
    Protocols <- Chat
    Shapes <- Mixed
    Reported <- Usual
    MaxInput = 5
    MaxBatch = 2
    MaxAnswers = 2
    MaxInstructions = 1
    MaxCrashes = 1
SPECIFICATION TurnSpec
INVARIANTS InstructionsReachProvider
CHECK_DEADLOCK FALSE
