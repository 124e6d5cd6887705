SPECIFICATION Spec
CONSTANTS
    r1 = r1
    c1 = c1
    c2 = c2
    Host = {"localhost", "h1", "h2"}
    Run <- MCRun
    SatRun <- MCRun
    RequestHosts <- MCRequestHosts
    ResponseFull = FALSE
    Upload <- PartialUploads
    Consumer <- TwoConsumers
    MaxSmallint = 3
    NoRow = NoRow
    NoMsg = NoMsg
    MaxFaults = 0
    MaxCopies = 1
SYMMETRY ConsumerSymmetry
INVARIANT
    MissedIsMarked
PROPERTY
    CanceledOnlyByStale
CHECK_DEADLOCK FALSE
