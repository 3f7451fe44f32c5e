SPECIFICATION Spec
CONSTANTS
    n1 = n1
    n2 = n2
    rival = rival
    w1 = w1
    w2 = w2
    m1 = m1
    m2 = m2
    none = none
    nomarket = nomarket
    Nodes <- TwoNodes
    Rival = rival
    Keepers <- TwoKeepers
    NoKeeper = none
    Workers <- TwoWorkers
    NodeOf <- OneEach
    Markets <- OneMarket
    RangeMarkets <- OneMarket
    OutOfRange <- Empty
    Minted <- MintTwo
    DbQuantity <- OneLessOrMore
    NoMarket = nomarket
    MaxPending = 1
    MayAge <- Empty
INVARIANTS
    TypeOK
    ClaimExclusive
    HashTellsTruth
    SettlementEmptiesPosition
PROPERTIES
    SettledIsFinal
    ImplementsLedger
CHECK_DEADLOCK FALSE
