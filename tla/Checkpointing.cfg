SPECIFICATION Spec
SYMMETRY MCSymmetry
CONSTANTS
    Threads = {t1, t2}
    Witnesses = {w1, w2}
    Modes = {"hybrid", "threshold"}
    MaxSize = 2
    MaxEpoch = 1
    MaxCalls = 3
INVARIANT SnapshotConsistent
 
CHECK_DEADLOCK FALSE
