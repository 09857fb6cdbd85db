\* A sovereign L2 removes its last GER while the claim manager has not yet
\* taken that GER off the channel, or after a GER below a removed one.
CONSTANTS
    MaxDeposits <- MCMaxDeposits
    MaxL2Blocks <- MCMaxL2Blocks
    ChanCap <- MCChanCap
    MaxCrashes <- MCMaxCrashes

SPECIFICATION Spec

INVARIANT
    ReadyOnlyAllowed

CHECK_DEADLOCK FALSE
