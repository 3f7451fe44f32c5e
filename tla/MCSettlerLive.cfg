SPECIFICATION FairSpec
CONSTANTS
    n1 = n1
    n2 = n2
    rival = rival
    w1 = w1
    w2 = w2
    m1 = m1
    m2 = m2
    none = none
    nomarket = nomarket
    Nodes <- OneNode
    Rival = rival
    Keepers <- OneKeepers
    NoKeeper = none
    Workers <- TwoWorkers
    NodeOf <- BothOnOne
    Markets <- TwoMarkets
    RangeMarkets <- SecondMarket
    OutOfRange <- SecondMarket
    Minted <- MintOne
    DbQuantity <- NoFallback
    NoMarket = nomarket
    MaxPending = 1
    MayAge <- OneMarket
PROPERTIES
    ReferencesStayFresh
    EveryMarketSettles
CHECK_DEADLOCK FALSE
