SPECIFICATION Spec
CONSTANTS
    Threads = {t1, t2}
    Witnesses = {w1, w2}
    Modes = {"single"}
    MaxSize = 2
    MaxEpoch = 1
    MaxCalls = 3
INVARIANT StoredCheckpointVerifies
CHECK_DEADLOCK FALSE
