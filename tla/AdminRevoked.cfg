SPECIFICATION BusySpec
CONSTANTS
    Callers = {"k1"}
    MaxTokens = 2
    MaxRevocations = 1
    MaxCrashes = 0
PROPERTIES DeadTokenReplaced
CHECK_DEADLOCK FALSE
