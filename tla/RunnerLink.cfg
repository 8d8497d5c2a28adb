CONSTANTS
    MaxCalls = 2
    MaxAborts = 1
    MaxSockets = 2
    MaxRestarts = 1
SPECIFICATION Spec
INVARIANTS AnsweredByOwnExecution NothingRunsUnattended
CHECK_DEADLOCK FALSE
