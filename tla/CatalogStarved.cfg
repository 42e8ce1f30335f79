SPECIFICATION FairSpec
CONSTANTS
    None = None
    Keep = Keep
    EmptyId = EmptyId
    r1 = r1
    r2 = r2
    r3 = r3
    Ids <- TwoIds
    Urns <- NoUrn
    Contents <- OneContent
    Requests <- ThreeRequests
    Ops <- PutPatch
    Bodies <- ExpiredBodies
    Patches <- NoIdPatches
    StorageFaults = FALSE
    MaxTime = 1
    MaxTTL = 1
    Wrapped <- LeastDuration
PROPERTY ExpiredEventuallyRemoved
