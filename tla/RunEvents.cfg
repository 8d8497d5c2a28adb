CONSTANTS
    w1 = w1
    w2 = w2
    Processes <- OneWorker
    BatchSize = 2
    MaxEvents = 3
    MaxRestarts = 1
    MaxLapses = 1
    MaxErrors = 2
SPECIFICATION EventsSpec
PROPERTIES ImplementsFeed EventuallySeen
CHECK_DEADLOCK FALSE
