CONSTANTS
    t1 = t1
    t2 = t2
    Threads <- MCThreads
    FsThreads <- MCThreads
    Readers = {t1}
    Writers = {t2}
    K = 2
    LruSize = 1
    MaxVer = 1
    IoResults = {TRUE, FALSE}
    AllocFails = FALSE
    FsyncThreads = {}
    InodeWrites = {FALSE}
SPECIFICATION Spec
INVARIANT CleanMatchesDisk
