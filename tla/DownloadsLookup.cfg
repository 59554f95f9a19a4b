SPECIFICATION DownloadSpec
CONSTANTS
    Hashes = {"a", "b"}
    Deleters = {"p"}
    PageSize = 1
    MaxFailures = 1
    MaxMoves = 0
INVARIANTS GoesThroughQueue
CHECK_DEADLOCK FALSE
