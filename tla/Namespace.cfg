SPECIFICATION Spec
CONSTANTS
    a = a
    b = b
    Name = {a, b}
    NrInodes = 5
    FilesPerBlock = 1
    MaxDirBlocks = 2
    MaxStray = 1
    Scenarios <- MCScenarios
SYMMETRY NameSymmetry
INVARIANTS
    LinkCountsRight
    TreeConnected
    DirIndexSound
    LiveNumbersTaken
    ReaddirComplete
    HandleMeansFile
PROPERTIES
    FailedCallKeepsNames
CHECK_DEADLOCK FALSE
