\* The constants are those of the part "books"; module MCPayoutLedger replaces
\* some of them for the parts "audit" and "chain".
SPECIFICATION SpecAll
CONSTANTS
    w1 = w1
    Miner <- TwoMiners
    Winner = {w1}
    Batch = {b1, b2}
    Reward <- TwoRewards
    PoolFee <- OneFee
    OpeningSurplus = 8
    MinimumPayout = 2
    MaximumPayout = 3
    MaximumOutputs = 2
    AbsoluteFee = 2
    FeeBps = 5000
    PayoutConfirmations = 1
    FinalityDepth = 0
    RollbackWindow = 0
    Validity = 1
    MaxHeight = 2
    LastSigning = 1
    MaxBranch = 1
    MaxTransactions = 6
    MaxMismatches = 0
    Miners = {1, 2, 3}
    MaxLiability = 9
    AbsoluteCaps = {1, 3, 5, 8}
    FeeRates = {1000, 3000, 10000}
SYMMETRY Interchangeable
INVARIANTS
    BooksBalance
    ReleasedNeverPaid
    SplitIsExact
CHECK_DEADLOCK FALSE
