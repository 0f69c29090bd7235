SPECIFICATION Spec
CONSTANTS
    Provider = {p1}
    Llm = {l1, l2}
    Request = {r1, r2}
    Bootstrap = Bootstrap
    Nothing = Nothing
    Nobody = Nobody
    Faults = {"store", "crash"}
    MaxEdits = 2
    MaxCalls = 3
SYMMETRY MCSymmetry
INVARIANTS
    OneActive
    OnlyBuiltServes
    SettledIsCurrent
CHECK_DEADLOCK FALSE
