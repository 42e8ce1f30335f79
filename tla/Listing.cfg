SPECIFICATION FairSpec
CONSTANTS
    Nil = Nil
    l1 = l1
    s1 = s1
    Keys <- ThreeKeys
    Listers <- OneLister
    Streams <- OneStream
    Pages <- SomePages
    MaxPerPage = 2
    Finds <- MixedFinds
    MaxChanges = 1
    Texts <- SomeTexts
    Numbers <- OneNumber
    Infinite <- NotANumber
    Truths <- SomeTruths
    StorageFaults = TRUE
INVARIANT TypeOK
INVARIANT StableListingExact
INVARIANT NoneTwice
INVARIANT GapsOnlyAfterRemovals
INVARIANT StreamIsSnapshot
INVARIANT CloseWaitsForReaders
INVARIANT SearchExact
PROPERTY StreamsEnd
PROPERTY CloseReturns
CHECK_DEADLOCK FALSE
