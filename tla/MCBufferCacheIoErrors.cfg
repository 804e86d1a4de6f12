CONSTANTS
    t1 = t1
    t2 = t2
    Threads <- MCThreads
    FsThreads = {t1}
    Readers = {t2}
    Writers = {t2}
    K = 2
    LruSize = 1
    MaxVer = 1
    IoResults = {TRUE, FALSE}
    AllocFails = TRUE
    FsyncThreads = {}
    InodeWrites = {FALSE}
SPECIFICATION Spec
INVARIANT RefCountAccounting
INVARIANT SingleActiveIO
INVARIANT AsyncIoPinsPage
