--------------------------- MODULE MCSynchronizer ---------------------------
(* Bounds under which TLC checks Synchronizer.                             *)
EXTENDS Synchronizer

\* A chain of blocks 0..3, one reorganisation replacing up to two blocks
\* by as many or fewer, ranges of two blocks (SyncChunkSize 1), one failed
\* call and one crash; the synchronizer of L1 (0) or of an L2 (1).
MCMaxHeight == 3
MCMaxReorgs == 1
MCReorgDepth == 2
MCSyncChunkSize == 1
MCMaxFailures == 1
MCMaxRestarts == 1
MCNetworks == {0, 1}
\* The synchronizer of an L2 only.
L2Networks == {1}

=============================================================================
