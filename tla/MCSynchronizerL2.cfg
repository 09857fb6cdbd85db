CONSTANTS
    MaxHeight <- MCMaxHeight
    MaxReorgs <- MCMaxReorgs
    ReorgDepth <- MCReorgDepth
    SyncChunkSize <- MCSyncChunkSize
    MaxFailures <- MCMaxFailures
    MaxRestarts <- MCMaxRestarts
    Networks <- L2Networks
    NoHash = NoHash

SPECIFICATION Spec

PROPERTY
    ResetDeletesOnlyOrphans
