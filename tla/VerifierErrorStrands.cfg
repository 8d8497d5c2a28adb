CONSTANTS
    w1 = w1
    w2 = w2
    a1 = a1
    a2 = a2
    b1 = b1
    b2 = b2
    NoWorker = NoWorker
    NoTask = NoTask
    Workers <- OneWorker
    Tasks <- OneTask
    WorkerOf <- PlacementOfTasks
    Commands <- NoCommands
    ToolCalls <- AllowedExec
    MaxCalls = 0
    MaxEntries = 1
    MaxCrashes = 0
    MaxExpiries = 0
    MaxFailures = 1
SPECIFICATION Spec
INVARIANTS InterruptedRunIsStartable
CHECK_DEADLOCK FALSE
