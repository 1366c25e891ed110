CONSTANTS
    Call = {1, 2, 3}
    None = None
    Process = {"A", "B"}
    ProcessOf <- MCProcessOf
    Fault = {"fail"}
SPECIFICATION FairSpec
INVARIANTS
    EndedCallsAdded
CHECK_DEADLOCK FALSE
