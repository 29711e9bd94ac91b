SPECIFICATION Spec
CONSTANTS
    Thread = {1, 2}
    Workload = {"create", "mknod", "link", "unlink", "rmdir", "rename", "evict", "nosync", "metasync", "fullsync", "fsync", "dirsync"}
    Faults = {"error", "log", "ioend"}
INVARIANTS
    TypeOK
    CommitWhole
    FsyncCommits
    CleanMeansDurable
PROPERTIES
    OperationsAtomic
    CallsReturn
    UmountCompletes
