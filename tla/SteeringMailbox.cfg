CONSTANTS
    w1 = w1
    w2 = w2
    d1 = d1
    d2 = d2
    s1 = s1
    s2 = s2
    s3 = s3
    c1 = c1
    c2 = c2
    Workers <- TwoWorkers
    Drivers <- TwoDrivers
    Attempts <- ThreeAttempts
    HostOf <- OneEach
    CommandOf <- RepeatedCommand
    Page = 1
    MaxTurns = 3
    MaxCrashes = 1
SPECIFICATION Spec
INVARIANTS InstructionsInOrder OneMessagePerCommand
PROPERTIES StagedIsTold
CHECK_DEADLOCK FALSE
