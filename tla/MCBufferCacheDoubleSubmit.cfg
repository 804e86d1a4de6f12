CONSTANTS
    t1 = t1
    t2 = t2
    Threads <- MCThreads
    FsThreads <- MCThreads
    Readers = {t1}
    Writers <- MCThreads
    K = 2
    LruSize = 1
    MaxVer = 1
    IoResults = {TRUE}
    AllocFails = FALSE
    FsyncThreads = {}
    InodeWrites = {FALSE}
SPECIFICATION Spec
INVARIANT SingleActiveIO
