SPECIFICATION FairSpec
CONSTANTS
    Corr = {"c1"}
    TruncateAfter = 0
    Requests <- MCQueue
    Concurrency = 1
    Retries = 1
    MaxSize = 1
    MaxRestarts = 0
INVARIANT
    RelayedInOrder
PROPERTIES
    Settled
    Drains
CHECK_DEADLOCK FALSE
