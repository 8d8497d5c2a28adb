CONSTANTS
    w1 = w1
    w2 = w2
    a1 = a1
    a2 = a2
    b1 = b1
    b2 = b2
    NoWorker = NoWorker
    NoTask = NoTask
    Workers <- MCWorkers
    Tasks <- MCTasks
    WorkerOf <- MCWorkerOf
    Skews <- MCSkews
    LeaseMilliseconds = 1
    MaxClock = 3
    MaxGeneration = 4
SPECIFICATION Spec
INVARIANTS OneAcceptedToken
PROPERTIES StaleStaysStale ImplementsFence
CHECK_DEADLOCK FALSE
