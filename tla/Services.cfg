SPECIFICATION MCSpec
CONSTANTS
    Calls = {"c1", "c2"}
    Creates = {"c1"}
    Callers = {"k1", "k2"}
    MaxTokens = 4
    MaxRevocations = 1
    MaxCrashes = 1
    Ports = {0, 1, 2}
    FirstListen = 9
    MaxUpsets = 4
    Services = {"a", "b"}
    Pollers = {"p", "q"}
    MaxTime = 9
    MaxFlips = 1
    Hashes = {"a", "b"}
    Deleters = {"p", "q"}
    PageSize = 1
    MaxFailures = 1
    MaxMoves = 1
INVARIANTS CreatedOnce HeldTokensLive
PROPERTIES CreatesKeepPromise EveryCallerServed PortsAgree AnswersAreRecent OneProbePerTTL DoneIsDone
CHECK_DEADLOCK FALSE
