SPECIFICATION Spec
CONSTANTS
    w1 = w1
    w2 = w2
    w3 = w3
    w4 = w4
    w5 = w5
    NoWorker = noworker
    noworker = noworker
    Workers <- Five
    PrecheckLimit = 0
    SettleLimit = 3
    StaleAfter = 12
    MaxStalled = 0
SYMMETRY Symmetric
INVARIANTS
    OnlyCrashedAreReaped
