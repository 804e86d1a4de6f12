\* No deadlock on BH_Lock and the page lock under the fairness of FairSpec:
\* t1 reads the page, t2 uses the buffer cache and writes the page back
\* (for sync and not), on a reliable device.
CONSTANTS
    t1 = t1
    t2 = t2
    Threads <- MCThreads
    FsThreads = {t2}
    Readers = {t1}
    Writers = {t2}
    K = 2
    LruSize = 1
    MaxVer = 1
    IoResults = {TRUE}
    AllocFails = FALSE
    FsyncThreads = {}
    InodeWrites = {FALSE}
SPECIFICATION FairSpec
PROPERTY LockWaitsEnd
