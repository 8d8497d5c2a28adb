CONSTANTS
    r1 = r1
    r2 = r2
    r3 = r3
    p1 = p1
    p2 = p2
    None = None
    Runs <- AllRuns
    Existing <- Started
    Projects <- BothProjects
    ProjectOf <- OneInTheOther
    Writable <- FirstProject
    Default = p1
    Final = 3
    MaxOps = 2
    MaxFailures = 1
SPECIFICATION ConsoleSpec
INVARIANT NoForeignView
PROPERTIES NeverBackwards EditSurvives
CHECK_DEADLOCK FALSE
