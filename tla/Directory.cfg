SPECIFICATION Spec
CONSTANTS
    None = None
    Keep = Keep
    EmptyId = EmptyId
    r1 = r1
    r2 = r2
    Ids <- OneId
    Urns <- NoUrn
    Contents <- TwoContents
    Requests <- TwoRequests
    Ops <- PutDelete
    Bodies <- PastAndShort
    Patches <- NoPatches
    MaxTime = 1
    MaxTTL = 1
    Wrapped <- LeastDuration
    Capacity = 1
    StorageFaults = TRUE
    MaxConns = 2
    MaxRestarts = 1
SYMMETRY Symmetry
CONSTRAINT UndisturbedOrOnlyCatalog
INVARIANT FollowerExact
 
CHECK_DEADLOCK FALSE
