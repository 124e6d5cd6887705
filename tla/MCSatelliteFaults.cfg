SPECIFICATION FairSpec
CONSTANTS
    r1 = r1
    c1 = c1
    c2 = c2
    Host = {"localhost", "h1", "h2"}
    Run <- MCRun
    SatRun <- MCRun
    RequestHosts <- MCRequestHosts
    ResponseFull = FALSE
    Upload <- FaultyUploads
    Consumer <- OneConsumer
    MaxSmallint = 3
    NoRow = NoRow
    NoMsg = NoMsg
    MaxFaults = 1
    MaxCopies = 2
INVARIANTS
    TypeOK
    LogInOrder
PROPERTY
    Settles
CHECK_DEADLOCK FALSE
