SPECIFICATION FairSpec
CONSTANTS
    MaxSpawns = 3
    Tests = {t1}
    Hosts <- MCHosts
    MaxCommands = 3
    None = None
INVARIANTS
    OwnCore
    OnlyTheConnectionRuns
PROPERTIES
    CrashIsReportedIfOwn
    CommandsServed
CHECK_DEADLOCK FALSE
