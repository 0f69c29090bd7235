CONSTANTS
    j1 = j1
    j2 = j2
    w1 = w1
    w2 = w2
    c1 = c1
    c2 = c2
    i1 = i1
    i2 = i2
    None = None
    Job = {j1}
    Worker = {w1, w2}
    Canceler = {c1}
    Instance = {i1, i2}
    Home <- TwoHomes
    Backend = "asynq"
    Store = "postgres"
    Faults = {"provider", "store", "enqueue", "crash"}
    Uses = {}
    MaxDeliveries = 2
    MaxMishaps = 1
    QueueBuffer = 1
SPECIFICATION Spec
PROPERTIES
    FollowsLifecycle
CHECK_DEADLOCK FALSE
