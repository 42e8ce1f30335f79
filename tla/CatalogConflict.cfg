SPECIFICATION Spec
CONSTANTS
    None = None
    Keep = Keep
    EmptyId = EmptyId
    r1 = r1
    r2 = r2
    r3 = r3
    Ids <- OneId
    Urns <- NoUrn
    Contents <- TwoContents
    Requests <- TwoRequests
    Ops <- PutOnly
    Bodies <- TwoPermanentBodies
    Patches <- NoPatches
    StorageFaults = FALSE
    MaxTime = 0
    MaxTTL = 1
    Wrapped <- LeastDuration
PROPERTY CreateNeverOverwrites
