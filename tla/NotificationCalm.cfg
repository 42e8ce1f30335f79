SPECIFICATION CalmSerialSpec
CONSTANTS
    None = None
    c1 = c1
    c2 = c2
    c3 = c3
    s1 = s1
    s2 = s2
    Calls <- ThreeCalls
    Conns <- OneConn
    Types <- TwoTypes
    TypeOf <- TypesOfThree
    Wants <- WantsOfOne
    Capacity = 1
    StorageFaults = FALSE
    Crashes = TRUE
    Stops = FALSE
INVARIANT NoMissedEvents
PROPERTY NewIdsLargest
PROPERTY OnlyOldDropped
CHECK_DEADLOCK FALSE
