SPECIFICATION Spec
SYMMETRY MCSymmetry
CONSTANTS
    Witnesses = {w1, w2}
    Sizes = {1}
    Roots = {r1, r2}
    Shows <- ShowsAll
    NoRequest = NoRequest
    NoFork = NoFork
    NoPeer = NoPeer
    MaxFaults = 1
    MaxCrashes = 1
    MaxClears = 1
INVARIANT NoFalseFork
INVARIANT ConfirmsWhatItSaw
PROPERTY ImplementsCosigner
