SPECIFICATION FairSpec
CONSTANTS
    None = None
    c1 = c1
    c2 = c2
    c3 = c3
    s1 = s1
    s2 = s2
    Calls <- TwoCalls
    Conns <- OneConn
    Types <- TwoTypes
    TypeOf <- TypesOfTwo
    Wants <- WantsOfOne
    Capacity = 1
    StorageFaults = TRUE
    Crashes = TRUE
    Stops = TRUE
INVARIANT TypeOK
INVARIANT StreamInOrder
INVARIANT TwiceOnlyAtJoin
PROPERTY CallsReturn
PROPERTY LeaversReleased
PROPERTY StopEnds
CHECK_DEADLOCK FALSE
