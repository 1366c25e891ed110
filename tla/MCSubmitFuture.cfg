CONSTANTS
    Document = {"d1"}
    Pane = {}
    User <- MCUser
    Submission <- MCSubmission
    Operation <- StrayOperation
    Request = {1, 2}
    Carries <- StrayCarries
    Server = {"A"}
    ServerOf <- OneServerOf
    LockKey <- DistinctKey
    SnapshotCoefficient <- EverySecond
    StrayRevision = {0, 1, 2, 3}
    Fault = {}
SPECIFICATION Spec
INVARIANTS
    IncomingAtMostOneAhead
CHECK_DEADLOCK FALSE
