SPECIFICATION Spec
CONSTANTS
    Thread = {1}
    Workload = {"rename"}
    Faults = {"error"}
INVARIANT NothingHalfCommitted
