SPECIFICATION ApiSpec
CONSTANTS
    Config <- MCConfig
    Identity <- MCIdentity
    Grants <- MCGrants
    MaxPolls = 1
    Id = {1}
    Kind <- MCKind
    Walks <- MCWalks
    Blocklist = {"o2"}
    DefaultLimit = 2
    MaxLimit = 2
    MaxTime = 1
    MaxItems <- MCMaxItems
    MaxChanges <- MCMaxChanges
INVARIANT
    InitFailureDegrades
CHECK_DEADLOCK FALSE
