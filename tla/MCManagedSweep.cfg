CONSTANTS
    j1 = j1  j2 = j2
    Jobs = {j1, j2}
    Kind <- MCKind
    NoPid = NoPid
    Pids = {p1, p2, p3}
    MaxBirths = 3
    Recycle = FALSE
    Free = Free
    NoLeader = NoLeader
    ObservedSweep = ObservedSweep
CHECK_DEADLOCK FALSE
SPECIFICATION ManagedSpec
INVARIANTS StoppedLeavesNoOne
