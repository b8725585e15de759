CONSTANTS
    MaxAppends = 2
    MaxFaults = 1
    MaxStops = 1
    TimeOf <- MCTimeOf
    MaxReadings = 2
    ReadBatchScanLimit = 2
    MaxUnflushedChunks = 1
    MaxPages = 1
    MaxEvictChunks = 2
    MaxEvictPasses = 1
    DiskExcess = {0}
SPECIFICATION FairSpec
PROPERTIES
    EventuallyWritten
    LimitRestored
