SPECIFICATION Spec
CONSTANTS
    NrBlocks = 6
    NrInodes = 4
    RootDirBlock = 1
    JournalStart = 6
    Discard = FALSE
    GranBlocks = 1
    JournalErrors = FALSE
    MaxLen = 2
    Workload = {"create", "evict", "buffered", "direct", "fallocate", "truncate", "write"}
INVARIANTS
    NothingLost
    BioHitsOwner
    OwnDataOnly
CHECK_DEADLOCK FALSE
