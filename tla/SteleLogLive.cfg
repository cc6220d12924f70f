CONSTANTS
    p1 = p1
    k1 = k1
    k2 = k2
    q1 = q1
    d1 = d1
    d2 = d2
    NoKey = NoKey
    NoThread = NoThread
    NoRequest = NoRequest
    Threads = {t1, t2}
    Requests <- MCRequests
    ProducerIDs = {p1}
    Credentials <- MCCredentials
    Payloads = {d1, d2}
    RequireEnrollment = TRUE
    ReplayTTL = TRUE
    MaxLeafNodes = 1
    Tampering = FALSE
    MaxSize = 2
    MaxFaults = 1
    MaxCrashes = 1
    MaxAdmin = 2
    maxInternal = 3
    maxLeaf = 2
    MaxLeaves = 1
SPECIFICATION LogSpec
PROPERTIES
    ImplementsLedger
    Recovers
    AppendReturns
