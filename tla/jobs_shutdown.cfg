CONSTANTS
    j1 = j1
    j2 = j2
    w1 = w1
    w2 = w2
    c1 = c1
    c2 = c2
    i1 = i1
    i2 = i2
    None = None
    Job = {j1}
    Worker = {w1}
    Canceler = {}
    Instance = {i1}
    Home <- OneHome
    Backend = "list"
    Store = "postgres"
    Faults = {"shutdown"}
    Uses = {}
    MaxDeliveries = 1
    MaxMishaps = 1
    QueueBuffer = 1
SPECIFICATION Spec
INVARIANTS
    CanceledByClient
CHECK_DEADLOCK FALSE
