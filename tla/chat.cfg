CONSTANTS
    r1 = r1
    r2 = r2
    a1 = a1
    a2 = a2
    None = None
    Caller = {r1, r2}
    Analysis = {a1}
    Faults = {"responder", "store", "crash"}
    Window = 2
    MaxAsks = 3
    MaxSaves = 1
SPECIFICATION FairSpec
INVARIANTS
    ExchangesPaired
    NothingOutlivesAnalysis
PROPERTIES
    TakesTurns
    ForgottenStaysForgotten
    LockReturns
CHECK_DEADLOCK FALSE
