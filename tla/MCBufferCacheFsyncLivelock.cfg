\* fsync against a filesystem thread that keeps re-dirtying, __bforget-ing
\* and re-reading a bh, under the fairness of FairSpec.
CONSTANTS
    t1 = t1
    t2 = t2
    Threads <- MCThreads
    FsThreads = {t1}
    FsyncThreads = {t2}
    Readers = {}
    Writers = {}
    K = 2
    LruSize = 1
    MaxVer = 1
    IoResults = {TRUE}
    AllocFails = FALSE
    InodeWrites = {TRUE}
SPECIFICATION FairSpec
PROPERTY FsyncTerminates
