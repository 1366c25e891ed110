CONSTANTS
    Socket = {"k1", "k2"}
    User = {"alice", "bob"}
    Server = {"A", "B"}
    UserOf <- MCUserOf
    ServerOf <- MCServerOf
    Leaver = {"k2"}
    MaxActive = 2
    MaxLate = 1
    Fault = {"crash", "start"}
SPECIFICATION FairSpec
INVARIANTS
    ListFits
    SettlesUndisturbed
PROPERTIES
    JoinerTold
CHECK_DEADLOCK FALSE
