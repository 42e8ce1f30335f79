SPECIFICATION ApartSpec
CONSTANTS
    None = None
    Keep = Keep
    EmptyId = EmptyId
    r1 = r1
    r2 = r2
    r3 = r3
    Ids <- TwoIds
    Urns <- Urn2
    Contents <- TwoContents
    Requests <- ThreeRequests
    Ops <- AllMethods
    Bodies <- MixedBodies
    Patches <- KeepingPatches
    StorageFaults = FALSE
    MaxTime = 2
    MaxTTL = 1
    Wrapped <- LeastDuration
SYMMETRY Symmetry
INVARIANT KeyMatchesBody
PROPERTY AtomicRegistry
