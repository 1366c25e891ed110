CONSTANTS
    Call = {1, 2, 3}
    None = None
    Process = {"A", "B"}
    ProcessOf <- MCProcessOf
    Fault = {"fail", "crash"}
SPECIFICATION FairSpec
INVARIANTS
    LockExcludes
    AcceptedKept
    OldestFirst
PROPERTIES
    EditsEnd
CHECK_DEADLOCK FALSE
