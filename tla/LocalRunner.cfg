SPECIFICATION Spec
CONSTANTS
    r1 = r1
    r2 = r2
    Runs <- OneRun
    Scopes <- Asked
    Tiers <- Windows
    Arguments <- Argued
    MaxCommands = 3
    MaxLaunches = 2
    MissingPathResolves = TRUE
CHECK_DEADLOCK FALSE
INVARIANTS
    AtMostOnce
    ConfinedToConsent
    AnsweredMeansDone
    RecordedMeansDone
