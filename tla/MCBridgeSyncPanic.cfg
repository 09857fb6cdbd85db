\* A sovereign L2 block taken before the L1 synchronizer stored its GER.
CONSTANTS
    MaxDeposits <- MCMaxDeposits
    MaxL2Blocks <- MCMaxL2Blocks
    ChanCap <- MCChanCap
    MaxCrashes <- MCMaxCrashes

SPECIFICATION Spec

INVARIANT
    NoEmptyExitRootsProcessed

CHECK_DEADLOCK FALSE
