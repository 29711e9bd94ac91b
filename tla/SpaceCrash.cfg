SPECIFICATION Spec
CONSTANTS
    NrBlocks = 5
    NrInodes = 4
    RootDirBlock = 1
    JournalStart = 5
    Discard = FALSE
    GranBlocks = 1
    JournalErrors = FALSE
    MaxLen = 1
    Workload = {"create", "evict", "meta", "kjournald", "crash"}
INVARIANTS
    TypeOK
    SingleOwner
    ReplayHitsOwner
    CheckpointHitsOwner
CHECK_DEADLOCK FALSE
