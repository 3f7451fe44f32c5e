SPECIFICATION Spec
CONSTANTS
    alice = alice
    bob = bob
    admin = admin
    nobody = nobody
    c1 = c1
    c2 = c2
    b1 = b1
    b2 = b2
    r1 = r1
    Keepers <- MCKeepers
    Admin = admin
    Nobody = nobody
    CredentialIds <- MCCredentialIds
    BinaryKeys <- MCBinaryKeys
    RangeKeys <- MCRangeKeys
    MIN_BOND = 2
    ACTIVATION_DELAY = 1
    Stakes <- MCStakes
    InitialWallet = 2
    MaxClock = 1
    InitialReward = 1
    Rewards <- MCRewards
    Coins <- MCCoins
SYMMETRY Symmetric
INVARIANTS
    TypeOK
    EventsMatchTables
    OnlyActivatedKeepersCredited
    JobsMatchSettlements
    SuiConserved
PROPERTIES
    TablesAreWriteOnce
CHECK_DEADLOCK FALSE
