CONSTANTS
    Document = {"d1"}
    Pane = {}
    User <- MCUser
    Submission <- MCSubmission
    Operation <- RetryOperation
    Request = {1, 2, 3}
    Carries <- RetryCarries
    Server = {"A", "B"}
    ServerOf <- RetryServerOf
    LockKey <- DistinctKey
    SnapshotCoefficient <- EverySecond
    StrayRevision = {}
    Fault = {}
SPECIFICATION Spec
INVARIANTS
    AuthoredOnLog
    AcknowledgedIsStored
PROPERTIES
    NoRevisionOnArchived
    ImplementsRevisionLog
CHECK_DEADLOCK FALSE
