SPECIFICATION FairSpec
CONSTANTS
    Calls = {c1, c2, c3}
    QueueSize = 1
    IdSpace = 3
    None = None
INVARIANTS
    NobodyWaitsForNothing
PROPERTIES
    PromiseKept
    EveryCallReturns
CHECK_DEADLOCK FALSE
