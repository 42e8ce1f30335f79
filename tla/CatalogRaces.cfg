SPECIFICATION Spec
CONSTANTS
    None = None
    Keep = Keep
    EmptyId = EmptyId
    r1 = r1
    r2 = r2
    r3 = r3
    Ids <- TwoIds
    Urns <- Urn2
    Contents <- TwoContents
    Requests <- ThreeRequests
    Ops <- AllMethods
    Bodies <- MixedBodies
    Patches <- MixedPatches
    StorageFaults = TRUE
    MaxTime = 2
    MaxTTL = 1
    Wrapped <- LeastDuration
SYMMETRY Symmetry
INVARIANT TypeOK
INVARIANT RegistrationCoherent
INVARIANT EventsExplainVersions
PROPERTY RemovedWasExpired
