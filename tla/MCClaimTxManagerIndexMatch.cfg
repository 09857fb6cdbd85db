CONSTANTS
    Deposits <- MCDeposits
    Ours <- MCOurs
    Other <- MCOther
    AreClaimsBetweenL2sEnabled = TRUE
    ChanCap <- MCChanCap
    MaxGoroutines <- MCMaxGoroutines
    MaxFailures = 0
    NoGER = NoGER

SPECIFICATION Spec

CHECK_DEADLOCK FALSE

PROPERTY NoUnclaimedL2DepositSkipped
