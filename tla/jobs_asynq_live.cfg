CONSTANTS
    j1 = j1
    j2 = j2
    w1 = w1
    w2 = w2
    c1 = c1
    c2 = c2
    i1 = i1
    i2 = i2
    None = None
    Job = {j1}
    Worker = {w1, w2}
    Canceler = {c1}
    Instance = {i1, i2}
    Home <- TwoHomes
    Backend = "asynq"
    Store = "postgres"
    Faults = {"crash"}
    Uses = {"cache", "retention"}
    MaxDeliveries = 3
    MaxMishaps = 1
    QueueBuffer = 1
SPECIFICATION FairSpec
INVARIANTS
    CompletedIsStored
PROPERTIES
    QueuedJobSettles
    ProgressWithinAttempt
CHECK_DEADLOCK FALSE
