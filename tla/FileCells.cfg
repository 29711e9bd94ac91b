SPECIFICATION Spec
CONSTANTS
    Thread = {1}
    Workload = {"write", "truncate", "store", "direct", "punch", "zero_keep", "falloc", "falloc_keep", "read"}
    Faults = {"sync"}
    NrLogical = 2
    NrPhysical = 1
    BlockCells = 2
    WritePrealloc = 2
    MaxInflight = 1
    MaxExtentLen = 2
PROPERTIES
    ContentKept
CHECK_DEADLOCK FALSE
