\* One client: two faults, a put that fails and then a crash, or two crashes.
SPECIFICATION DurableSpec
CONSTANTS
    Table <- FaucetTable
    Tx <- MCTx
    Root = "root"
    NoTx = "none"
    Addr <- MCAddr
    Burn = "burn"
    Faucet = "faucet"
    Sender <- MCSender
    Receiver <- MCReceiver
    Amount <- MCAmount
    Fee <- MCFee
    AccountNonce <- MCNonce
    Parents <- MCParents
    PureValid <- MCTx
    U64Max = 40
    MaxSupply = 30
    HalvingInterval = 2
    RewardEra <- MCRewardEra
    Clients = {"rpc"}
    Solvers = {}
    RpcClients = {"rpc"}
    Miner = "miner"
    NoMiner = "nobody"
    Threshold = 1
    PoolSize = 2
    FeeCap = 1
    FeeLimit = 1
    Stakers = {}
    StakeAmounts = {}
    Interest = {}
    GenesisBal <- MCGenesisBal
    KeyOrder <- MCKeyOrder
    MaxFaults = 2
    Repairs = TRUE
INVARIANTS
    BurnAgrees
    SavedRewards
    RewardsRepeated
