SPECIFICATION Spec
CONSTANTS
    run1 = run1
    run2 = run2
    Runs <- MCRuns
    Coins <- MCCoins
    Balances <- MCBalances
    QUANTITY = 2
    CoinPage = 2
    Prices <- MCPrices
    MinStrike = 1000
SYMMETRY Symmetric
INVARIANTS
    TypeOK
    CheckedBalanceSuffices
    StagedInOrder
    SpotInBand
PROPERTIES
    PaidExactly
CHECK_DEADLOCK FALSE
