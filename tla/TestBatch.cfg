SPECIFICATION FairSpec
CONSTANTS
    b1 = b1
    b2 = b2
    Batches = {b1, b2}
    NTags = 2
    Mixes <- MCMixes
    MaxStops = 1
INVARIANTS
    BufferExact
    OneAfterStop
    RepliesTell
    QuerierSettles
PROPERTIES
    EveryBatchAnswers
CHECK_DEADLOCK FALSE
