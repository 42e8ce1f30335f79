SPECIFICATION FairSpec
CONSTANTS
    None = None
    Keep = Keep
    EmptyId = EmptyId
    r1 = r1
    r2 = r2
    r3 = r3
    Ids <- TwoIds
    Urns <- Urn2
    Contents <- OneContent
    Requests <- ThreeRequests
    Ops <- AllButGet
    Bodies <- CleanerBodies
    Patches <- CleanerPatches
    StorageFaults = FALSE
    MaxTime = 2
    MaxTTL = 1
    Wrapped <- LeastDuration
PROPERTY ExpiredEventuallyRemoved
