CONSTANTS
    MaxConn = 2
    MaxDev = 3
    MaxDp = 2
    Cfgs = {"a", "b", "bad"}
    BadCfg = "bad"
    Handlers = {1, 2}
    Main = 0
    MaxPollers = 2
    MaxEvents = 2
    Requests <- MCRequests
    Files <- MCFiles
SPECIFICATION MCSpec
INVARIANTS
    TypeOK
    ReferentialIntegrity
    ReloadedMatches
    OnePollerPerConnection
    QuietAfterWait
    LatestIsOwn
    RoundTrip
PROPERTIES
    StopsInTheEnd
    CancelledEnd
