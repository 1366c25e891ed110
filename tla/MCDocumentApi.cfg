SPECIFICATION FairSpec
CONSTANTS
    Request = {"r1", "r2", "r3"}
    User = {"ann", "bob"}
    Server = {"s1", "s2"}
    ServerOf <- MCServerOf
    MaxMembers = 2
    Scenarios <- MCScenarios
INVARIANTS
    DuplicatesOnlyFromRaces
    RemovedStaysOut
    AddedAreMembers
    AssetsAgree
    ToldIsEnforced
PROPERTIES
    OnlyAskedColumns
    RequestsEnd
CHECK_DEADLOCK FALSE
