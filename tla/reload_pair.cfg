SPECIFICATION Spec
CONSTANTS
    Provider = {p1}
    Llm = {l1, l2}
    Request = {r1, r2}
    Bootstrap = Bootstrap
    Nothing = Nothing
    Nobody = Nobody
    Faults = {}
    MaxEdits = 2
    MaxCalls = 4
SYMMETRY MCSymmetry
INVARIANT
    PairAgrees
CHECK_DEADLOCK FALSE
