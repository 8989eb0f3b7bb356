SPECIFICATION Spec
CONSTANTS
    Numbered <- MCNumbered
    PortNumbers = {"443"}
    Published = {"geosite-ru", "geosite-private"}
    Stored <- MCStored
    Throne <- MCThrone
    Typed <- MCTyped
    Texts <- MCTexts
    Touched = {"dns_enabled", "bypass_private"}
    Requests <- MCRequests
    Conns <- MCConns
    MaxDialogs = 3
    MaxSteps = 5
    MaxFaults = 1
INVARIANTS
    SavedIsShown
    FreshUnlessCovered
    UserIntentDecides
    NamesLeadToOne
PROPERTIES
    ImportKeepsDecisions
CHECK_DEADLOCK FALSE
