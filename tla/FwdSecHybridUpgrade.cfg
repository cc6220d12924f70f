CONSTANTS
    HybridModes = {TRUE, FALSE}
    ThresholdModes = {FALSE}
    MaxKeys = 3
    MaxClock = 1
    MaxFaults = 0
    MaxCrashes = 1
SPECIFICATION Spec
INVARIANTS
    ChainVerifies
