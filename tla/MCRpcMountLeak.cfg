CONSTANTS
    t1 = t1
    t2 = t2
    Threads <- MCThreads
    MaxMounts = 2
    MaxOps = 2
    MountFails = FALSE
    PathFails = FALSE
    AllocFails = FALSE
SPECIFICATION Spec
INVARIANTS
    MountRefsBalanced
CHECK_DEADLOCK FALSE
