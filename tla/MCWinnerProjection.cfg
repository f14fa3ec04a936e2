SPECIFICATION SpecAll
CONSTANTS
    j1 = j1
    s1 = s1
    s2 = s2
    w1 = w1
    z1 = z1
    Account <- TwoAccounts
    Job = {j1}
    Share = {s1, s2}
    Block = {w1, z1}
    Zcash = {z1}
    AccountOf <- Miners
    WorkOf <- Works
    JobOf <- OneJob
    Proves <- BothChains
    RewardOf <- TwoRewards
    WindowWork = 4
    FeeBps = 1000
    MaxPplnsShares = 2
    MaxEvents = 7
    Accounts = {1, 2, 3}
    MaxWork = 3
    MaxShares = 4
    MaxWindow = 5
    MaxReward = 5
    FeeRates = {0, 5000}
PROPERTIES
    CreditIsSound
    ImplementsRewardLedger
    LostMaturityFreezes
    AllocationIsFair
CHECK_DEADLOCK FALSE
