CONSTANTS
    p1 = p1
    k1 = k1
    k2 = k2
    q1 = q1
    d1 = d1
    d2 = d2
    NoKey = NoKey
    NoThread = NoThread
    NoRequest = NoRequest
    Threads = {t1, t2}
    Requests <- MCRequestsAll
    ProducerIDs = {p1}
    Credentials <- MCCredentialsAll
    Payloads = {d1, d2}
    RequireEnrollment = FALSE
    ReplayTTL = FALSE
    MaxLeafNodes = 1
    Tampering = TRUE
    MaxSize = 3
    MaxFaults = 1
    MaxCrashes = 2
    MaxAdmin = 2
    maxInternal = 3
    maxLeaf = 2
    MaxLeaves = 9
SPECIFICATION AllSpec
INVARIANTS
    ChainIntact
    ProofsMatchRoot
    NoEnvelopeTwice
    AckedDurable
    OnlyGrantedProducers
    TamperRefused
    ProofsVerify
