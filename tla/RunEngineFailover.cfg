CONSTANTS
    w1 = w1
    w2 = w2
    a1 = a1
    a2 = a2
    b1 = b1
    b2 = b2
    NoWorker = NoWorker
    NoTask = NoTask
    Workers <- TwoWorkers
    Tasks <- OneTaskEach
    WorkerOf <- PlacementOfTasks
    Commands <- Cancel
    ToolCalls <- AllowedExec
    MaxCalls = 1
    MaxEntries = 3
    MaxCrashes = 1
    MaxExpiries = 1
    MaxFailures = 0
SPECIFICATION Spec
INVARIANTS AtMostOnce ResultsTruthful
PROPERTIES NoRevival LeaseContract
CHECK_DEADLOCK FALSE
