SPECIFICATION FairSpec
CONSTANTS
    r1 = r1
    r2 = r2
    c1 = c1
    c2 = c2
    Host = {"localhost", "h1"}
    Run <- MCRun
    SatRun = {}
    RequestHosts <- MCRequestHosts
    ResponseFull = TRUE
    Upload <- MCUpload
    Consumer = {c1}
    MaxSmallint = 1
    NoRow = NoRow
    NoMsg = NoMsg
    MaxFaults = 0
    MaxCopies = 1
INVARIANT
    RecordedBeforeSent
CHECK_DEADLOCK FALSE
