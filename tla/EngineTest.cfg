SPECIFICATION Spec
CONSTANTS
    MaxSpawns = 3
    Tests = {t1}
    Hosts <- MCLinux
    MaxCommands = 2
    None = None
CHECK_DEADLOCK FALSE
PROPERTIES
    TestSparesConnection
