CONSTANTS
    Document = {"d1"}
    Pane = {"p1", "p2"}
    User <- MCUser
    Submission <- MCSubmission
    Operation <- FaultOperation
    Request = {1, 2, 3, 4}
    Carries <- FaultCarries
    Server = {"A", "B"}
    ServerOf <- FaultServerOf
    LockKey <- DistinctKey
    SnapshotCoefficient <- EverySecond
    StrayRevision = {}
    Fault = {"database", "commit", "crash"}
SPECIFICATION Spec
INVARIANTS
    RevisionsContiguous
    RebasedOnPredecessors
    LatestBroadcastIsStored
    RefusedStoresNothing
CHECK_DEADLOCK FALSE
