SPECIFICATION Spec
CONSTANTS
    User = {u1}
    ApiKey = {k1}
    Nobody = Nobody
    Slot = {r1, r2}
    Settings <- MCSettings
    Burst = 1
    PerTick = 1
    EvictAfter = 1
    MaxDelay = 1
    AccessTTL = 1
    Faults = {"store", "panic", "crash"}
    MaxClock = 3
    MaxRequests = 3
    MaxTokens = 1
SYMMETRY MCSymmetry
INVARIANTS
    LockedOutIsRefused
    RoleIsRecent
    RateHolds
    ChangeIsLogged
CHECK_DEADLOCK FALSE
