CONSTANTS
    MaxCalls = 1
    MaxAborts = 0
    MaxSockets = 2
    MaxRestarts = 0
SPECIFICATION Spec
INVARIANTS LiveIsRouted
CHECK_DEADLOCK FALSE
