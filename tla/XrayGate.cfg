SPECIFICATION FairSpec
CONSTANTS
    Conns = {c1, c2}
    Instances = {i1, i2}
    IdleWindow = 1
    None = None
INVARIANTS
    OneHolder
    ClosedStaysCold
    NoRelayAfterDrain
    OnlyLatecomersAreCut
PROPERTIES
    CloseReleasesAll
    HandlersProgress
    IdleInstanceGoes
CHECK_DEADLOCK FALSE
