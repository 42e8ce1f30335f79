SPECIFICATION Spec
CONSTANTS
    None = None
    c1 = c1
    c2 = c2
    c3 = c3
    s1 = s1
    s2 = s2
    Calls <- TwoCalls
    Conns <- OneConn
    Types <- TwoTypes
    TypeOf <- TypesOfTwo
    Wants <- WantsOfOne
    Capacity = 2
    StorageFaults = FALSE
    Crashes = FALSE
    Stops = FALSE
INVARIANT UniqueIds
CHECK_DEADLOCK FALSE
