CONSTANTS
    MaxAppends = 2
    MaxFaults = 2
    MaxStops = 1
    TimeOf <- MCTimeOf
    MaxReadings = 2
    ReadBatchScanLimit = 2
    MaxUnflushedChunks = 1
    MaxPages = 1
    MaxEvictChunks = 2
    MaxEvictPasses = 2
    DiskExcess = {0}
SPECIFICATION Spec
INVARIANTS
    Accounted
    FirstInFirstOut
    CountersInStep
    BacklogBounded
    CleanClose
