SPECIFICATION FullSpec
CONSTANTS
    r1 = r1
    r2 = r2
    r3 = r3
    c1 = c1
    c2 = c2
    Host = {"localhost", "h1", "h2"}
    Run <- FullRun
    SatRun <- FullSatRun
    RequestHosts <- FullRequestHosts
    ResponseFull = TRUE
    Upload <- FullUpload
    Consumer <- MCConsumer
    MaxSmallint = 3
    NoRow = NoRow
    NoMsg = NoMsg
    MaxFaults = 1
    MaxCopies = 1
SYMMETRY ConsumerSymmetry
INVARIANTS
    RunAndHostsAgree
    FullLogWhole
PROPERTIES
    NeverRunningAgain
    HostsForward
    KeepsPromise
CHECK_DEADLOCK FALSE
