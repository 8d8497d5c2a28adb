CONSTANTS
    w1 = w1
    w2 = w2
    a1 = a1
    a2 = a2
    b1 = b1
    b2 = b2
    NoWorker = NoWorker
    NoTask = NoTask
    Workers <- OneWorker
    Tasks <- TasksOfOne
    WorkerOf <- PlacementOfTasks
    Commands <- Decisions
    ToolCalls <- AskedExec
    MaxCalls = 1
    MaxEntries = 3
    MaxCrashes = 1
    MaxExpiries = 0
    MaxFailures = 0
SPECIFICATION Spec
INVARIANTS PerformedAsApproved
PROPERTIES PendingCallConsumedOnce
CHECK_DEADLOCK FALSE
