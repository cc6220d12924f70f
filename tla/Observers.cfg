SPECIFICATION AllSpec
CONSTANTS
    Threads = {t1, t2}
    Ids = {p1}
    Keys = {k1, k2}
    NoSig = NoSig
    MaxSerial = 3
    MaxEpoch = 1
    MaxRevokes = 1
    MaxCrashes = 1
    ClientKinds = {"audit", "include", "consist"}
    SampleN = 3
    ReadMaxSize = 6
    ReadMaxEpoch = 2
    Payloads = {a, b}
    ChunkSize = 2
    CopyMaxSize = 4
    CopyMaxFaults = 1
    CopyMaxCrashes = 1
    MaxRestores = 1
    MaxAppends = 5
    MaxChanges = 2
    MaxStops = 2
    WitnessURLs <- MCWitnessURLs
    WatchRoots = {r1, r2}
    WatchMaxSize = 2
    WatchMaxFaults = 1
    MaxPasses = 2
INVARIANT ChallengeUsedOnce
 
 
INVARIANT OneHistory
 
 
CHECK_DEADLOCK FALSE
