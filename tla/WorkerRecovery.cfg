CONSTANTS
    w1 = w1
    w2 = w2
    a1 = a1
    b1 = b1
    NoWorker = NoWorker
    NoTask = NoTask
    Workers <- TwoWorkers
    Tasks <- OneTaskEach
    WorkerOf <- Placement
    Commands <- Silent
    ToolCalls <- AllowedExec
    MaxCalls = 1
    MaxEntries = 2
    MaxCrashes = 1
    MaxExpiries = 0
    MaxFailures = 0
SPECIFICATION FairRecoverySpec
INVARIANT ScanGoesOn
PROPERTY TakenOver
CHECK_DEADLOCK FALSE
