SPECIFICATION Spec
CONSTANTS
    Id = {1, 2, 3}
    Service = {1, 2}
    Collation <- MCCollation
    Provider = {"loki"}
    Word = {"timeout"}
    Wild = Wild
    NotGiven = NotGiven
    Stores = {"memory", "postgres"}
    Contents <- MCContents
    Queries <- MCQueries
    Keeps = {1, 5, 8}
    Limits = {0, 2, 9}
    DefaultLimit = 1
    MaxLimit = 2
    StatsFetch = 2
    TopCount = 1
    Day = 2
    Int32Max = 3
    Int64Max = 15
    MaxTime = 1
    MaxWrites = 3
INVARIANTS
    QuietWalkIsExact
    InsertionsHideNothing
    BackendsAgree
PROPERTIES
    PurgesAsPreviewed
