SPECIFICATION Spec
CONSTANTS
    None = None
    Keep = Keep
    EmptyId = EmptyId
    r1 = r1
    r2 = r2
    r3 = r3
    Ids <- OneId
    Urns <- NoUrn
    Contents <- OneContent
    Requests <- TwoRequests
    Ops <- PutOnly
    Bodies <- RenewalBodies
    Patches <- NoPatches
    StorageFaults = FALSE
    MaxTime = 2
    MaxTTL = 1
    Wrapped <- LeastDuration
PROPERTY SilentRemovalOnlyOfExpired
