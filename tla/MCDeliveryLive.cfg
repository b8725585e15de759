CONSTANTS
    Transports = {"mqtt", "http"}
    EchoStream = TRUE
    SubscribeAttempts = 3
    MaxReadings = 2
    ReadBatchScanLimit = 2
    Size <- MCSize
    MaxSeq = 2
    MaxStreams = 1
    MaxInFlight = 1
    MaxDamages = 0
    MaxServerRestarts = 0
    MaxBreaks = 1
SPECIFICATION FairSpec
PROPERTY
    EventuallyForwarded
