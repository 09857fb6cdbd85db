CONSTANTS
    Base <- MCBase
    FieldBytes <- MCFieldBytes
    GIBytes <- MCGIBytes
    MaxNetwork <- MCMaxNetwork
    NoIndex = NoIndex
    NoClaim = NoClaim
    NoArgs = NoArgs
    Topics <- MCTopics
    MaxLogs <- MCMaxLogs
    MaxBlockNum <- MCMaxBlockNum

SPECIFICATION EthermanSpec

\* Each behaviour serves one deposit and sees its claim come back.
CHECK_DEADLOCK FALSE

INVARIANTS
    TypeOK
    IndexMatchesLayout
    ClaimIdentifiesDeposit
    ReplayMatchesLogs
