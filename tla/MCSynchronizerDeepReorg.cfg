CONSTANTS
    MaxHeight <- DRMaxHeight
    MaxReorgs <- DRMaxReorgs
    ReorgDepth <- DRReorgDepth
    SyncChunkSize <- DRSyncChunkSize
    MaxFailures <- DRMaxFailures
    MaxRestarts <- DRMaxRestarts
    Networks <- DRNetworks
    NoHash = NoHash

SPECIFICATION Spec

INVARIANT
    SingleBranch
