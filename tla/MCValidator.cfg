SPECIFICATION Spec
CONSTANTS
    Corr = {"c1"}
    TruncateAfter = 0
    Requests <- MCMixed
    Concurrency = 2
    Retries = 2
    MaxSize = 1
    MaxRestarts = 1
INVARIANTS
    HeldByOne
    ChannelsSafe
    CleanExitDrained
    NoneSkipped
    RelayedSound
CHECK_DEADLOCK FALSE
