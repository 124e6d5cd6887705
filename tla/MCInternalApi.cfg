SPECIFICATION ApiSpec
CONSTANTS
    Requests <- MCRequests
    AuthKeys <- MCKeys
    Blocklist = {"o2"}
    RunRows <- MCRows
    Bucket = 2
    HostRequests <- MCHostRequests
    Inventory <- MCInventory
    RhcIds = {"c1", "c2"}
    MaxHosts = 4
    Client = {"x", "y", "z"}
INVARIANTS
    TypesOK
    AnswersTrue
    CancelJustified
    RateRespected
    StatusAsTold
    HostsAccountedFor
    RequestsOutlived
PROPERTIES
    RequestsAnswered
    ProcessEnds
CHECK_DEADLOCK FALSE
