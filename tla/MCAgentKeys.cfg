SPECIFICATION Spec
CONSTANTS
    Keys <- MCKeys
    Providers <- MCProviders
    Requests = {"first", "again", "other"}
    Of <- MCOf
    NonceCap = 1
    FirstKey = "k0"
    MaxStarted = 3
    MaxFaults = 2
INVARIANTS
    RevokedRefused
    HandledOnce
    NoOrphanKey
CHECK_DEADLOCK FALSE
