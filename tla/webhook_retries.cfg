CONSTANTS
    w1 = w1
    w2 = w2
    c1 = c1
    c2 = c2
    f1 = f1
    f2 = f2
    r1 = r1
    s1 = s1
    s2 = s2
    Webhook = {w1}
    Call = {c1}
    TestCall = {}
    Flight = {f1, f2}
    Retrier = {r1}
    Sweeper = {s1, s2}
    Answer = {"2xx", "3xx", "4xx", "5xx", "none"}
    Faults = {"store", "crash"}
    MaxAttempts = 3
    SweepLimit = 1
    MaxRetries = 1
    MaxFaults = 1
SPECIFICATION Spec
SYMMETRY GoroutineSymmetry
INVARIANTS
    StatusEarned
    AttemptBudget
PROPERTIES
    SettledStays
