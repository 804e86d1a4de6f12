\* total_vm of two processes that map the same file range read-only.
CONSTANTS
    p1 = p1
    p2 = p2
    f1 = f1
    NoFile = NoFile
    Procs <- MCProcs
    Files <- MCFiles
    MaxAddr = 2
    MaxMaps = 2
    MapLens = {1, 3}
    PgOffs = {0, 1}
    MaxBrk = 1
    Width = 3
    TraceStates = {FALSE, TRUE}
    AllocFails = FALSE
    ReadFails = FALSE
SPECIFICATION Spec
INVARIANT TotalVmAccounting
