CONSTANTS
    MaxCalls = 1
    MaxAborts = 0
    MaxSockets = 1
    MaxRestarts = 0
SPECIFICATION Spec
INVARIANTS ReconnectingCanReconnect
CHECK_DEADLOCK FALSE
