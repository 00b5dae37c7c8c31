\* The instance of MCProcessor_rivals.cfg; a refused transaction stays in the DAG.
SPECIFICATION Spec
CONSTANTS
    Table <- RivalTable
    Tx <- MCTx
    Root = "root"
    NoTx = "none"
    Addr <- MCAddr
    Burn = "burn"
    Faucet = "faucet"
    Sender <- MCSender
    Receiver <- MCReceiver
    Amount <- MCAmount
    Fee <- MCFee
    AccountNonce <- MCNonce
    Parents <- MCParents
    PureValid <- MCTx
    U64Max = 40
    MaxSupply = 30
    HalvingInterval = 2
    RewardEra <- MCRewardEra
    Clients = {"rpc"}
    Solvers = {"orphans"}
    RpcClients = {"rpc"}
    Miner = "bob"
    NoMiner = "nobody"
    Threshold = 1
    PoolSize = 1
    FeeCap = 2
    FeeLimit = 2
    Stakers = {"alice"}
    StakeAmounts = {3}
    Interest = {0, 1}
    GenesisBal <- MCGenesisBal
INVARIANT
    DagImpliesCharged
