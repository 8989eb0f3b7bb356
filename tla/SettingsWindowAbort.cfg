SPECIFICATION Spec
CONSTANTS
    Numbered <- MCNumbered
    PortNumbers = {"443"}
    Published = {"geosite-ru", "geosite-private"}
    Stored <- MCStored
    Throne <- MCThrone
    Typed <- MCTyped
    Texts <- MCTexts
    Touched = {"dns_enabled", "bypass_private"}
    Requests <- MCRequests
    Conns <- MCConns
    MaxDialogs = 3
    MaxSteps = 3
    MaxFaults = 0
INVARIANTS
    RemovingIsSafe
CHECK_DEADLOCK FALSE
