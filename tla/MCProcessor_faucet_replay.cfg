\* The faucet's transactions, two of them with one nonce.
SPECIFICATION Spec
CONSTANTS
    Table <- FaucetTable
    Tx <- MCTx
    Root = "root"
    NoTx = "none"
    Addr <- MCAddr
    Burn = "burn"
    Faucet = "faucet"
    Sender <- MCSender
    Receiver <- MCReceiver
    Amount <- MCAmount
    Fee <- MCFee
    AccountNonce <- MCNonce
    Parents <- MCParents
    PureValid <- MCTx
    U64Max = 40
    MaxSupply = 3
    HalvingInterval = 2
    RewardEra <- MCRewardEra
    Clients = {"rpc"}
    Solvers = {}
    RpcClients = {"rpc"}
    Miner = "bob"
    NoMiner = "nobody"
    Threshold = 1
    PoolSize = 2
    FeeCap = 2
    FeeLimit = 2
    Stakers = {}
    StakeAmounts = {}
    Interest = {}
    GenesisBal <- MCGenesisBal
INVARIANT
    NonceSpentOnce
