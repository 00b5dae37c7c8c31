\* Two accounts stake, add to their stake and unstake at the same time; one
\* write fails or the node dies once.  A position of 4 exceeds the maximum.
SPECIFICATION Spec
CONSTANTS
    Accounts <- MCAccounts
    Clients <- MCClients
    AccountOf <- OwnAccounts
    Funds <- MCFunds
    StakeAmounts = {1, 2}
    Interest = {0, 1}
    MinStake = 2
    MaxStake = 3
    MaxFaults = 1
INVARIANTS
    StakingTypeOK
    FundsOnlyMove
    AcknowledgedIsSaved
    CrashDriftBounded
    ValidatorsStaked
\* Without coins, requests or faults left there is nothing to do.
CHECK_DEADLOCK FALSE
