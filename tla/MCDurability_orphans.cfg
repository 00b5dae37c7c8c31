\* One client and one solver: the node dies once, at any moment, while orphans
\* wait in memory and on disk.
SPECIFICATION DurableSpec
CONSTANTS
    Table <- OrphanTable
    Tx <- MCTx
    Root = "root"
    NoTx = "none"
    Addr <- MCAddr
    Burn = "burn"
    Faucet = "faucet"
    Sender <- MCSender
    Receiver <- MCReceiver
    Amount <- MCAmount
    Fee <- MCFee
    AccountNonce <- MCNonce
    Parents <- MCParents
    PureValid <- MCTx
    U64Max = 40
    MaxSupply = 30
    HalvingInterval = 2
    RewardEra <- MCRewardEra
    Clients = {"rpc"}
    Solvers = {"orphans"}
    RpcClients = {"rpc"}
    Miner = "miner"
    NoMiner = "nobody"
    Threshold = 1
    PoolSize = 2
    FeeCap = 1
    FeeLimit = 1
    Stakers = {}
    StakeAmounts = {}
    Interest = {}
    GenesisBal <- MCGenesisBal
    KeyOrder <- MCKeyOrder
    MaxFaults = 1
    Repairs = FALSE
INVARIANTS
    DagWellFormed
    PersistOrder
    RebuildComplete
