\* Three nodes in a line, pages of one hash, one connection that breaks or one
\* lock found busy.
SPECIFICATION SyncSpec
CONSTANTS
    Tx <- MCChain
    Root = "root"
    NoTx = "none"
    Addr <- MCAddr
    Burn = "burn"
    Faucet = "faucet"
    Sender <- MCSender
    Receiver <- MCReceiver
    Amount <- MCZero
    Fee <- MCZero
    AccountNonce <- MCNonce
    Parents <- MCParents
    PureValid <- MCChain
    WalkDepth = 2
    AncestryDepth = 2
    MinConfirmations = 1
    StabilityThreshold = 5
    ScoreDepth = 4
    Weight <- MCZero
    SenderReputation <- MCOne
    Nodes <- MCNodes
    Peerings <- MCPeerings
    Early <- MCPeerings
    Origin <- MCOrigin
    Timestamp <- MCTimestamp
    PageSize = 1
    MaxRequests = 1
    NodeWeight <- MCNodeWeight
    QuorumPercent = 67
    MajorityPercent = 50
    MaxFaults = 1
INVARIANTS
    SyncTypeOK
    QuietAgreement
    GlobalStatusBacked
PROPERTY
    OrphansResolve
CHECK_DEADLOCK FALSE
