SPECIFICATION Spec
CONSTANTS
    wifi = wifi
    lan = lan
    usb = usb
    Cores = {main, test}
    Interfaces <- MCInterfaces
    Resolvers <- MCResolvers
    Resolvers6 <- MCResolvers6
    Manual <- MCManual
    Offered <- MCOffered
    Six <- MCSix
    SixFirst <- MCSixFirst
    Requests = {r1, r2}
    MaxSteps = 4
    MaxFaults = 1
    None = None
INVARIANTS
    NothingOfTheOwnerIsLost
    PointsWhereAsked
SYMMETRY MCAlike
CONSTRAINT Within
CHECK_DEADLOCK FALSE
