SPECIFICATION ApiSpec
CONSTANTS
    Config <- MCConfig
    Identity <- MCIdentity
    Grants <- MCGrants
    MaxPolls = 1
    Id = {1, 2, 3}
    Kind <- MCKind
    Walks <- MCWalks
    Blocklist = {"o2"}
    DefaultLimit = 2
    MaxLimit = 2
    MaxTime = 1
    MaxItems <- MCMaxItems
    MaxChanges <- MCMaxChanges
INVARIANTS
    TypesOK
    KesselEnforced
    KesselOnlyWatches
    RetriesBounded
    TenantIsolated
    StatusFilters
    WalkComplete
PROPERTIES
    CancelStopsCalls
    Answered
CHECK_DEADLOCK FALSE
