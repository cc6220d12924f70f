SPECIFICATION AllSpec
CONSTANTS
    m1 = m1
    m2 = m2
    m3 = m3
    Members <- MCMembers
    GroupThreshold = 2
    Registered = {m2}
    Hybrid = {m2, m3}
    Routes <- MCRoutes
    Faulty = {m3}
    Messages = {old, new}
    NoSig = NoSig
    MaxCalls = 2
    MaxFaults = 2
    Options = {"chain", "hsm", "hybrid", "watchdog", "checkpoint"}
    DaemonRequests = {r1, r2}
    LbDrain = 2
    LBPeriod = 1
    ApiRequests = {q1, q2}
    Honeypots = {1}
    MaxRange = 2
    ApiMaxSize = 3
    ApiMaxEpoch = 3
    ApiMaxFaults = 1
    AnchorThreads = {t1, t2}
    NoThread = NoThread
    Torn = Torn
    Spoilt = Spoilt
    Strict = FALSE
    AnchorMaxSize = 2
    AnchorMaxCalls = 3
    AnchorMaxFaults = 1
    AnchorMaxCrashes = 1
    TokenKeys = {k1, k2, k3}
    NoTokenKey = NoTokenKey
    TokenMaxFaults = 2
    TokenMaxCrashes = 2
INVARIANT QuorumSigned
 
INVARIANT ExitReleasesAll
 
INVARIANT TrailCoversAnswers
INVARIANT AnchorsHold
PROPERTY SignTerminates
PROPERTY ShutdownCompletes
PROPERTY HoneypotFires
PROPERTY ImplementsKeyStore
CHECK_DEADLOCK FALSE
