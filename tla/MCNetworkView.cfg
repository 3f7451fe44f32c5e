SPECIFICATION FairSpec
CONSTANTS
    ann = ann
    bob = bob
    Keepers <- MCKeepers
    Legacy <- MCLegacy
    MaxRefreshes = 2
    TimeOf <- MCTimeOf
    PageLimit = 1
    RegLimit = 1
    PAGE = 1
    MaxSettlements = 2
    MaxRegistrations = 1
INVARIANTS
    TypeOK
    TotalNotAhead
    FeedHasNewest
PROPERTIES
    NothingVanishes
    CompleteInTheEnd
CHECK_DEADLOCK FALSE
