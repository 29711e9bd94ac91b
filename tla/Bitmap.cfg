SPECIFICATION AllocatorSpec
CONSTANTS
    NrBlocks = 6
    NrInodes = 3
    RootDirBlock = 1
    JournalStart = 5
    Discard = TRUE
    GranBlocks = 2
    JournalErrors = TRUE
    MaxLen = 3
INVARIANTS
    CountsMatchBitmaps
    PendingDiscardSparesLive
    HeldStayFree
