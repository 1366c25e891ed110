CONSTANTS
    Document = {"d1"}
    Pane = {"p1"}
    User <- MCUser
    Submission <- MCSubmission
    Operation <- PoolOperation
    Request = {1, 2, 3}
    Carries <- PoolCarries
    Server = {"A"}
    ServerOf <- PoolServerOf
    LockKey <- CollidingKey
    SnapshotCoefficient <- EverySecond
    StrayRevision = {}
    Fault = {"connection", "crash"}
    PoolMax = 3
    Visitor = {11}
    VisitorAt <- PoolVisitorAt
    Nesting = {11}
SPECIFICATION PoolFairSpec
INVARIANTS
    ConnectionsKept
    StandstillIsFullPool
PROPERTIES
    PoolOnlyDelays
    EveryRequestAnswered
CHECK_DEADLOCK FALSE
