CONSTANTS
    Words = 65536
    Layouts <- MCLayouts
    Holes <- MCHoles
    Retry = 2
    Times = {2, 5}
    MaxPasses = 2
    MaxLineFaults = 1
SPECIFICATION MCSpec
INVARIANTS
    PlanSound
    PolledAsDedicated
    ChunkRoundTrip
    TestReadPersists
CHECK_DEADLOCK FALSE
