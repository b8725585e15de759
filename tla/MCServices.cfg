CONSTANTS
    Ifaces = {1, 2}
    Addresses = {1, 2, 3, 4}
    Servers = {1, 2}
    Lease <- MCLease
    Profiles <- MCProfiles
    Changes <- MCChanges
    Operators = {1, 2}
    MaxTimers = 2
    Savers = {1, 2}
    Forms <- MCForms
    Starts <- MCStarts
    MaxCallbacks = 2
    EraLength = 6
    MaxReal = 7
    Skews <- MCSkews
    Earliest = 0
    Latest = 7
    MaxEvents = 3
SPECIFICATION MCSpec
INVARIANTS
    TypeOK
    Confirmable
    RevertRestores
    SavedStarts
    ClockBounded
PROPERTY
    ReconnectForced
CHECK_DEADLOCK FALSE
