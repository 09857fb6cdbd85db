CONSTANTS
    Deposits <- MCDeposits
    Ours <- MCOurs
    Other <- MCOther
    AreClaimsBetweenL2sEnabled = TRUE
    ChanCap <- MCChanCap
    MaxGoroutines <- MCMaxGoroutines
    MaxFailures <- MCMaxFailures
    NoGER = NoGER

SPECIFICATION Spec

\* The select loop idles on its tickers once the bounded environment has
\* sent everything.
CHECK_DEADLOCK FALSE

INVARIANTS
    TypeOK
    ReadyL1DepositsHandled

PROPERTIES
    L1DepositHandledOnce
    GoroutinesTerminate
