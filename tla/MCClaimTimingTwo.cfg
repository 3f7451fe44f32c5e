SPECIFICATION Spec
CONSTANTS
    w1 = w1
    w2 = w2
    w3 = w3
    w4 = w4
    w5 = w5
    NoWorker = noworker
    noworker = noworker
    Workers <- Two
    PrecheckLimit = 1
    SettleLimit = 3
    StaleAfter = 12
    MaxStalled = 4
SYMMETRY Symmetric
INVARIANTS
    TypeOK
    ReapedWereStalled
