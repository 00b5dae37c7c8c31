\* Two clients stake and unstake for one account.
SPECIFICATION Spec
CONSTANTS
    Accounts <- MCAccounts
    Clients <- MCClients
    AccountOf <- OneAccount
    Funds <- MCFunds
    StakeAmounts = {1, 2}
    Interest = {0, 1}
    MinStake = 2
    MaxStake = 3
    MaxFaults = 0
INVARIANT
    FundsOnlyMove
