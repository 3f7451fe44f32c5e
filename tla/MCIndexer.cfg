SPECIFICATION FairSpec
CONSTANTS
    p1 = p1
    Processes <- OneProcess
    PageLimit = 2
    MaxEvents = 3
    MaxEmitted <- FewRanges
    MaxCount = 2
INVARIANTS
    TypeOK
    CursorNeverSkips
PROPERTIES
    SavedIsNotCountedAgain
    EveryEventHandled
