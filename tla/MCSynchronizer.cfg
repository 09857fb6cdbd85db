CONSTANTS
    MaxHeight <- MCMaxHeight
    MaxReorgs <- MCMaxReorgs
    ReorgDepth <- MCReorgDepth
    SyncChunkSize <- MCSyncChunkSize
    MaxFailures <- MCMaxFailures
    MaxRestarts <- MCMaxRestarts
    Networks <- MCNetworks
    NoHash = NoHash

SPECIFICATION Spec

INVARIANTS
    TypeOK
    TreeMatchesDeposits
    SingleBranch

PROPERTIES
    L1ResetDeletesOnlyOrphans
    EventuallyConsistent
    ImplementsCanonicalPrefix
