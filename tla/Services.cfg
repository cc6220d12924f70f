SPECIFICATION AllSpec
CONSTANTS
    HybridModes = {TRUE, FALSE}
    ThresholdModes = {TRUE, FALSE}
    MaxKeys = 4
    MaxClock = 1
    MaxFaults = 2
    MaxCrashes = 1
    JournalThreads = {t1, t2}
    Texts = {"utf8", "bytes"}
    MaxEvents = 3
    JournalMaxFaults = 1
    JournalMaxCrashes = 2
    Tampering = TRUE
    Handlers = {h1, h2}
    Producers = {p1, p2}
    Capacity = 1
    Rate = 1
    Burst = 2
    IdleAfter = 2
    NoProducer = NoProducer
    GateMaxTime = 5
    MaxRequests = 4
    Interval = 3
    MinDebounce = 2
    Ignored = 2
    Buckets = 2
    Batches = {1, 11}
    MaxCount = 11
    MaxRotate = 1
    DogMaxFaults = 1
    MaxTouches = 1
    DogMaxTime = 8
    Incremental = TRUE
    BackupMaxSize = 2
    MaxEntries = 3
    BackupMaxEpoch = 1
    MaxSnapshots = 2
    MaxExports = 1
    MaxLosses = 1
INVARIANT KeyRecoverable
INVARIANT ChainVerdict
 
INVARIANT GateHolds
INVARIANT RotationsPaced
 
 
PROPERTY ImplementsKeyChain
CHECK_DEADLOCK FALSE
