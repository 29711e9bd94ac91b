SPECIFICATION Spec
CONSTANTS
    a = a
    b = b
    Name = {a, b}
    NrInodes = 5
    FilesPerBlock = 1
    MaxDirBlocks = 2
    MaxStray = 1
    Scenarios <- MCRace
SYMMETRY NameSymmetry
INVARIANTS
    LiveNumbersTaken
CHECK_DEADLOCK FALSE
