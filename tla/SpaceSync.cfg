SPECIFICATION Spec
CONSTANTS
    NrBlocks = 5
    NrInodes = 4
    RootDirBlock = 1
    JournalStart = 5
    Discard = TRUE
    GranBlocks = 1
    JournalErrors = TRUE
    MaxLen = 1
    Workload = {"create", "buffered", "direct", "truncate", "write", "fail", "zeroout_error", "trim", "fsync", "crash"}
INVARIANTS
    SingleOwner
    SyncedSurvives
    OnlineDiscardSparesDurable
CHECK_DEADLOCK FALSE
