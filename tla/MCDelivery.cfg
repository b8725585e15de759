CONSTANTS
    Transports = {"mqtt", "http"}
    EchoStream = TRUE
    SubscribeAttempts = 3
    MaxReadings = 2
    ReadBatchScanLimit = 2
    Size <- MCSize
    MaxSeq = 3
    MaxStreams = 2
    MaxInFlight = 2
    MaxDamages = 1
    MaxServerRestarts = 1
    MaxBreaks = 1
SPECIFICATION Spec
CONSTRAINT Budget
INVARIANTS
    TypeOK
    AckedIsStored
    GapsAreGivenUp
