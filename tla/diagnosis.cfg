SPECIFICATION Spec
CONSTANTS
    Service = {"cart", "pay", "mail", "Cart", "Cart ", " "}
    Trimmed <- MCTrimmed
    Folded <- MCFolded
    ManyErrors = 3
    Volume = 4
    MaxLLMEvidenceItems = 2
    FallbackItems = 1
    Now = 5
    Collectors <- MCCollectors
    LLM = "openai"
    MaxAttempts = 2
    Requests <- MCRequests
    Answers <- MCAnswers
    Payloads <- MCPayloads
CHECK_DEADLOCK FALSE
INVARIANTS
    WholeOrNothing
    CutShortIsNotStored
    NeverUnderReported
    BestEvidenceShown
    Grounded
    GapsAreNamed
