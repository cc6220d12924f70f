SPECIFICATION Spec
CONSTANTS
    Options = {"chain"}
    Requests = {r1}
    LbDrain = 2
    LBPeriod = 1
INVARIANT DrainsBeforeClose
