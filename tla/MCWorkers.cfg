SPECIFICATION FairSpec
CONSTANTS
    Worker = {"w1", "w2"}
    Message <- MCMessage
    Edits = 2
    PauseTicks = 6
    Scenarios <- MCScenarios
INVARIANTS
    SendsBounded
    ThumbnailFollows
PROPERTIES
    WorkGetsDone
CHECK_DEADLOCK FALSE
