\* The faucet's transactions, whose nonces repeat and go backwards, next to an
\* account it funds, under the fairness of the scheduler and a cap that binds:
\* no coins but the emission's, the mempool drains, dead orphans are purged.
SPECIFICATION FairSpec
CONSTANTS
    Table <- FaucetTable
    Tx <- MCTx
    Root = "root"
    NoTx = "none"
    Addr <- MCAddr
    Burn = "burn"
    Faucet = "faucet"
    Sender <- MCSender
    Receiver <- MCReceiver
    Amount <- MCAmount
    Fee <- MCFee
    AccountNonce <- MCNonce
    Parents <- MCParents
    PureValid <- MCTx
    U64Max = 40
    MaxSupply = 2
    HalvingInterval = 2
    RewardEra <- MCRewardEra
    Clients = {"rpc"}
    Solvers = {"orphans"}
    RpcClients = {"rpc"}
    Miner = "bob"
    NoMiner = "nobody"
    Threshold = 1
    PoolSize = 1
    FeeCap = 1
    FeeLimit = 1
    Stakers = {}
    StakeAmounts = {}
    Interest = {}
    GenesisBal <- MCGenesisBal
INVARIANT
    EmissionBound
PROPERTIES
    MempoolDrains
    OrphansPurged
