SPECIFICATION ExchangeSpec
CONSTANTS
    Numbered <- MCNumbered
    PortNumbers = {"443"}
    Published = {}
    Ports = {"443"}
    Numbers = {"2048"}
    Colons = {"::1"}
    Values = {"{}"}
    XrayTypes = {"xrayvless"}
    Special = {"%", ":", "#", "&", "=", "@", "?", "/", "?ed=", "/ws", "::1", "{}"}
    Offered <- MCOffered
    Bodies <- MCBodies
    MaxServers = 2
    MaxBrought = 1
INVARIANTS
    XhttpGoesToXray
    XrayGetsAll
    CopiesSettle
    CopyKeeps
CHECK_DEADLOCK FALSE
