CONSTANTS
    Document = {"d1", "d2"}
    Pane = {}
    User <- MCUser
    Submission <- MCSubmission
    Operation <- ReuseOperation
    Request = {1, 2, 3, 4}
    Carries <- ReuseCarries
    Server = {"A"}
    ServerOf <- OneServerOf
    LockKey <- DistinctKey
    SnapshotCoefficient <- EverySecond
    StrayRevision = {0, 1, 3}
    Fault = {}
SPECIFICATION Spec
INVARIANTS
    SubmittedOnce
    EmptyMeansStored
    NoStandstill
CHECK_DEADLOCK FALSE
