\* Proof service over concurrent deposits, verifications and GER updates;
\* GetProofByGER callers name a GER that covers the deposit.
CONSTANTS
    Height <- MCHeight
    Rollups <- MCRollups
    Values <- MCValues
    MaxLeaves <- MCMaxLeaves
    MaxGers <- MCMaxGers
    CallerPinsCoveringGER = TRUE

SPECIFICATION Spec

INVARIANTS
    TypeOK
    RootsMatchReference
    ProofVerifiesUnderGER
    ProvableOnceReady

\* With no new events on either chain the synchronizers only poll: a state
\* in which no deposit, verification or GER remains is a real resting point.
CHECK_DEADLOCK FALSE
