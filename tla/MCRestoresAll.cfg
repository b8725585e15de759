CONSTANTS
    MaxConn = 1
    MaxDev = 2
    MaxDp = 2
    Cfgs = {"a", "b", "bad"}
    BadCfg = "bad"
    Handlers = {1}
    Main = 0
    MaxPollers = 1
    MaxEvents = 1
    Requests = {}
    Files <- OldFiles
SPECIFICATION EmptySpec
INVARIANT RestoresAll
