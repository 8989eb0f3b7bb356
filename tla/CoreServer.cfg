SPECIFICATION Spec
CONSTANTS
    Requests = {r1, r2, r3}
    Tests = {t1}
    Configs <- MCConfigs
    Platforms = {"linux", "darwin"}
    Interfaces = {wifi, lan}
    MaxRouteChanges = 2
    None = None
SYMMETRY Symmetry
CONSTRAINT Apart
INVARIANTS
    ProfileComplete
    SidecarsOutliveBox
    NothingLeaks
    EgressFollowsRoute
PROPERTIES
    TestCarriesMarkIffTunUp
CHECK_DEADLOCK FALSE
