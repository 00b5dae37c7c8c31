\* Alice, a genesis account, pays all she has.
SPECIFICATION DurableSpec
CONSTANTS
    Table <- SpendTable
    Tx <- MCTx
    Root = "root"
    NoTx = "none"
    Addr <- MCAddr
    Burn = "burn"
    Faucet = "faucet"
    Sender <- MCSender
    Receiver <- MCReceiver
    Amount <- MCAmount
    Fee <- MCFee
    AccountNonce <- MCNonce
    Parents <- MCParents
    PureValid <- MCTx
    U64Max = 40
    MaxSupply = 30
    HalvingInterval = 2
    RewardEra <- MCRewardEra
    Clients = {"rpc"}
    Solvers = {}
    RpcClients = {"rpc"}
    Miner = "miner"
    NoMiner = "nobody"
    Threshold = 1
    PoolSize = 2
    FeeCap = 1
    FeeLimit = 1
    Stakers = {}
    StakeAmounts = {}
    Interest = {}
    GenesisBal <- MCGenesisBal
    KeyOrder <- MCKeyOrder
    MaxFaults = 0
    Repairs = FALSE
INVARIANT
    BootMintsNothing
