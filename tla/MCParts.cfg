\* Each part by itself: a DAG that grows in every order, with walks that stop
\* short of the tips; three validators and two votes, as a quorum that both
\* ballots may have is of two; a cap that binds; two faucet requests; a limiter
\* and an oracle under any load; a migration stopped twice; two bootnodes, one
\* of them also a seed, and a guest; the tasks of a miner node, which serve
\* everything but get_dag_stats.
SPECIFICATION PartsSpec
CONSTANTS
    Tx <- MCTx
    Root = "root"
    NoTx = "none"
    Addr <- MCAddr
    Burn = "burn"
    Faucet = "faucet"
    Sender <- MCSender
    Receiver <- MCReceiver
    Amount <- MCZero
    Fee <- MCZero
    AccountNonce <- MCNonce
    Parents <- MCParents
    PureValid <- MCTx
    WalkDepth = 2
    AncestryDepth = 2
    MinConfirmations = 2
    StabilityThreshold = 5
    ScoreDepth = 4
    Weight <- MCWeight
    SenderReputation <- MCReputation
    NeededConfirmations = 3
    Validators = {"v1", "v2", "v3"}
    Stakes = {0, 1, 2, 3}
    MinStake = 1
    MaxStake = 2
    BaseQuorum = 2
    AdaptiveThreshold = 20
    ApprovalPercent = 51
    Ballots = {"high", "middle"}
    BallotAmount <- MCAmounts
    MaxVotes = 2
    Earners = {"v1", "v2"}
    Difficulties = {999, 1000, 1500, 9000}
    MinDifficulty = 1000
    InitialReward = 4
    MinReward = 1
    HalvingInterval = 2
    HardCap = 30
    MaxEpoch = 6
    MaxRefused = 2
    Callers = {"w1", "w2"}
    Customers = {"x", "y"}
    Cooldown = 2
    MaxPlaced = 3
    MaxClock = 2
    PoolSize = 10
    FeeCap = 6
    Methods = {"send"}
    MaxRequests = 2
    Window = 3
    OracleInterval = 2
    MaxFee = 10
    LegacyTxs = {"l1", "l2"}
    LegacyBal <- MCLegacyBal
    GenesisCoins <- MCGenesisCoins
    MaxStops = 2
    Hosts = {"b1", "b2", "guest"}
    Bootnodes <- MCBootnodes
    Seeds = {"b2"}
    Guests = {"guest"}
    MaxTrouble = 1
    MaxQueue = 1
    Tasks <- MCTasks
    Duties <- MCDuties
INVARIANTS
    AncestorsFound
    SelectionUsable
    ConfirmationsBound
    RivalsExclusive
    EmissionAccounted
    OvertakenOnce
    OnePerCooldown
    WindowBounded
    HistoryBeforeCoins
    NoDeadlock
PROPERTIES
    AnswersStable
    FeeRecovers
    BootnodesConnected
    RequestsEnd
CHECK_DEADLOCK FALSE
