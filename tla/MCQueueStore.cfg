CONSTANTS
    MaxAppends = 3
    MaxFaults = 1
    MaxStops = 0
    TimeOf <- MCTimeOf
    MaxReadings = 2
    ReadBatchScanLimit = 2
    MaxUnflushedChunks = 1
    MaxPages = 1
    MaxEvictChunks = 2
    MaxEvictPasses = 2
    DiskExcess = {0, 1}
SPECIFICATION Spec
INVARIANTS
    TypeOK
    Accounted
    FirstInFirstOut
    CountersInStep
    AckedWereSent
PROPERTY
    ImplementsDurableQueue
