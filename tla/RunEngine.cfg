CONSTANTS
    w1 = w1
    w2 = w2
    a1 = a1
    a2 = a2
    b1 = b1
    b2 = b2
    NoWorker = NoWorker
    NoTask = NoTask
    Workers <- OneWorker
    Tasks <- OneTask
    WorkerOf <- PlacementOfTasks
    Commands <- AllCommands
    ToolCalls <- MixedCalls
    MaxCalls = 2
    MaxEntries = 2
    MaxCrashes = 1
    MaxExpiries = 0
    MaxFailures = 1
SPECIFICATION Spec
INVARIANTS WaitIsAnswerable PerformedAsApproved
PROPERTIES ImplementsLifecycle PendingCallConsumedOnce
CHECK_DEADLOCK FALSE
