----------------------- MODULE MCSynchronizerDeepReorg -----------------------
(* Synchronizer with a reorganisation deeper than two ranges while the     *)
(* synchronizer is still catching up (SyncChunkSize 0: one-block ranges).  *)
EXTENDS Synchronizer

DRMaxHeight == 3
DRMaxReorgs == 1
DRReorgDepth == 2
DRSyncChunkSize == 0
DRMaxFailures == 0
DRMaxRestarts == 0
DRNetworks == {0}

=============================================================================
