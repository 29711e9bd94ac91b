SPECIFICATION Spec
CONSTANTS
    Block = {1, 2, 3}
    MaxVersion = 5
    Workload = {"protect", "norecovery", "shutdown", "crash", "error", "nojournal", "remount"}
INVARIANTS
    CleanMeansWhole
    MountShowsPromised
PROPERTIES
    HomeNeverOlder
