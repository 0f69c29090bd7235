SPECIFICATION Spec
CONSTANTS
    User = {u1, u2}
    Email = {e1, e2}
    Nobody = Nobody
    NoEmail = NoEmail
    Request = {r1, r2}
    Patch <- MCPatch
    Faults = {"store"}
    MaxTokens = 4
    MaxChanges = 1
    MaxCalls = 4
SYMMETRY MCSymmetry
INVARIANTS
    SingleHeir
PROPERTIES
    RevocationIsFinal
    EndedStaysEnded
    LockedOutStaysOut
CHECK_DEADLOCK FALSE
