\* GER delivery from both synchronizers to the claim manager, sovereign and
\* zkEVM rollup alike, with one crash and the claim manager's panic.
CONSTANTS
    MaxDeposits <- MCMaxDeposits
    MaxL2Blocks <- MCMaxL2Blocks
    ChanCap <- MCChanCap
    MaxCrashes <- MCMaxCrashes

SPECIFICATION Spec

INVARIANTS
    TypeOK
    AllowedMatchesChain

PROPERTIES
    ActedGERsPersisted
    SyncsReachTip
    GroupedGERsEventuallyReady

\* With both chains at their bounds and every block stored the goroutines
\* only poll: that state is a real resting point.
CHECK_DEADLOCK FALSE
