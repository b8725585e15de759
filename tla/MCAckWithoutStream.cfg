CONSTANTS
    Transports = {"mqtt", "http"}
    EchoStream = FALSE
    SubscribeAttempts = 3
    MaxReadings = 2
    ReadBatchScanLimit = 2
    Size <- MCSize
    MaxSeq = 2
    MaxStreams = 2
    MaxInFlight = 1
    MaxDamages = 0
    MaxServerRestarts = 1
    MaxBreaks = 0
SPECIFICATION Spec
INVARIANTS
    AckedIsStored
