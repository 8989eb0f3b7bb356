SPECIFICATION Spec
CONSTANTS
    Requests = {r1, r2}
    Tests = {t1}
    Configs <- MCConfigs
    Platforms = {"linux", "darwin"}
    Interfaces = {wifi, lan}
    MaxRouteChanges = 1
    None = None
SYMMETRY Symmetry
INVARIANT
    ErrorPathsClose
CHECK_DEADLOCK FALSE
