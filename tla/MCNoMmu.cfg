\* Two processes mapping one regular file and anonymous memory, with
\* failing allocations and reads and a process that may be traced.
CONSTANTS
    p1 = p1
    p2 = p2
    f1 = f1
    NoFile = NoFile
    Procs <- MCProcs
    Files <- MCFiles
    MaxAddr = 2
    MaxMaps = 2
    MapLens = {1, 3}
    PgOffs = {0, 1}
    MaxBrk = 1
    Width = 1
    TraceStates = {FALSE, TRUE}
    AllocFails = TRUE
    ReadFails = TRUE
SPECIFICATION Spec
INVARIANT TypeOK
INVARIANT UsageMatchesMappers
INVARIANT VmaListSound
INVARIANT FileRefsBalanced
INVARIANT TracedNotShared
