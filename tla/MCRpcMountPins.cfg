CONSTANTS
    t1 = t1
    t2 = t2
    Threads <- MCThreads
    MaxMounts = 3
    MaxOps = 3
    MountFails = TRUE
    PathFails = TRUE
    AllocFails = TRUE
SYMMETRY Perms
SPECIFICATION Spec
INVARIANTS
    TypeOK
    CountMatchesPins
    NoPrematurePut
\* Each thread runs at most MaxOps directory operations and then stays idle.
CHECK_DEADLOCK FALSE
