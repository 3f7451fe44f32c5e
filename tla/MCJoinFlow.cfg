SPECIFICATION AttentiveSpec
CONSTANTS
    rich = rich
    poor = poor
    NoAccount = NoAccount
    Accounts <- MCAccounts
    MaxBonds <- MCMaxBonds
    MaxOrphans = 1
    MaxTimers = 2
INVARIANTS
    TypeOK
    SecondBondAfterErrorOnly
    ShownIsOwn
PROPERTIES
    CredentialSeen
