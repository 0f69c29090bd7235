CONSTANTS
    w1 = w1
    w2 = w2
    c1 = c1
    c2 = c2
    f1 = f1
    f2 = f2
    r1 = r1
    s1 = s1
    s2 = s2
    Webhook = {w1}
    Call = {c1, c2}
    TestCall = {c2}
    Flight = {f1}
    Retrier = {r1}
    Sweeper = {s1, s2}
    Answer = {"2xx", "5xx"}
    Faults = {"store", "crash"}
    MaxAttempts = 2
    SweepLimit = 1
    MaxRetries = 0
    MaxFaults = 1
SPECIFICATION FairSpec
PROPERTIES
    DeliverySettles
