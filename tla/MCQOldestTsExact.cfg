CONSTANTS
    MaxAppends = 3
    MaxFaults = 0
    MaxStops = 0
    TimeOf <- MCTimeOf
    MaxReadings = 2
    ReadBatchScanLimit = 2
    MaxUnflushedChunks = 1
    MaxPages = 1
    MaxEvictChunks = 2
    MaxEvictPasses = 2
    DiskExcess = {0, 1}
SPECIFICATION Spec
INVARIANT OldestTsExact
