SPECIFICATION FairSpec
CONSTANTS
    Witnesses = {w1, w2}
    Sizes = {1}
    Roots = {r1, r2}
    Shows <- ShowsSplit
    NoRequest = NoRequest
    NoFork = NoFork
    NoPeer = NoPeer
    MaxFaults = 1
    MaxCrashes = 1
    MaxClears = 1
PROPERTY SplitViewDetected
