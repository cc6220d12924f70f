SPECIFICATION Spec
CONSTANTS
    Threads = {t1}
    NoThread = NoThread
    Torn = Torn
    Spoilt = Spoilt
    Strict = FALSE
    MaxSize = 2
    MaxCalls = 2
    MaxFaults = 0
    MaxCrashes = 1
INVARIANT PublishedIsALine
CHECK_DEADLOCK FALSE
