SPECIFICATION Spec
CONSTANTS
    Thread = {1}
    Workload = {"write", "store", "truncate", "release", "punch", "collapse", "insert", "zero"}
    Faults = {"sync"}
    NrLogical = 3
    NrPhysical = 2
    BlockCells = 1
    WritePrealloc = 2
    MaxInflight = 1
    MaxExtentLen = 2
INVARIANTS
    ExtentsSound
    BlocksAccounted
    LateBioOnlyInPunch
    ReservationHoldsNoData
PROPERTIES
    ContentKept
CHECK_DEADLOCK FALSE
