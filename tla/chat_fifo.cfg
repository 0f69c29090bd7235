CONSTANTS
    r1 = r1
    r2 = r2
    a1 = a1
    a2 = a2
    None = None
    Caller = {r1, r2}
    Analysis = {a1}
    Faults = {}
    Window = 2
    MaxAsks = 4
    MaxSaves = 1
SPECIFICATION Spec
PROPERTIES
    FirstComeFirstServed
CHECK_DEADLOCK FALSE
