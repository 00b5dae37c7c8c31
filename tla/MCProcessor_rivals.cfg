\* One RPC client and one solver, a mempool of one: evictions, refusals,
\* rollbacks, orphans, the mining loop and staking interleave.
SPECIFICATION Spec
CONSTANTS
    Table <- RivalTable
    Tx <- MCTx
    Root = "root"
    NoTx = "none"
    Addr <- MCAddr
    Burn = "burn"
    Faucet = "faucet"
    Sender <- MCSender
    Receiver <- MCReceiver
    Amount <- MCAmount
    Fee <- MCFee
    AccountNonce <- MCNonce
    Parents <- MCParents
    PureValid <- MCTx
    U64Max = 40
    MaxSupply = 30
    HalvingInterval = 2
    RewardEra <- MCRewardEra
    Clients = {"rpc"}
    Solvers = {"orphans"}
    RpcClients = {"rpc"}
    Miner = "bob"
    NoMiner = "nobody"
    Threshold = 1
    PoolSize = 1
    FeeCap = 2
    FeeLimit = 2
    Stakers = {"alice"}
    StakeAmounts = {3}
    Interest = {0, 1}
    GenesisBal <- MCGenesisBal
INVARIANTS
    TypeOK
    NonceTracksDag
    LedgerReplaysDag
    RewardOnce
    SettledPromptly
    MempoolInDag
PROPERTIES
    OrphansKept
    ImplementsBank
