CONSTANTS
    Reader = {r1}
    Saver = {w1, w2}
    MaxRevision = 3
SPECIFICATION Spec
SYMMETRY SaverSymmetry
INVARIANTS
    SnapshotInv
    ReadsCompose
    ReadsFresh
CHECK_DEADLOCK FALSE
