SPECIFICATION Spec
CONSTANTS
    User = {u1}
    ApiKey = {k1}
    Nobody = Nobody
    Slot = {r1, r2}
    Settings <- MCDefaultSettings
    Burst = 1
    PerTick = 1
    EvictAfter = 2
    MaxDelay = 1
    AccessTTL = 1
    Faults = {"store", "panic", "crash"}
    MaxClock = 3
    MaxRequests = 3
    MaxTokens = 1
SYMMETRY MCSymmetry
PROPERTIES
    AnnotationsKept
CHECK_DEADLOCK FALSE
