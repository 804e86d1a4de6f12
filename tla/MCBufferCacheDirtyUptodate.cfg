\* Spec P2 (Dirty implies Uptodate) against a failed write of a bh that
\* mark_buffer_dirty re-dirtied while the write was in flight.
CONSTANTS
    t1 = t1
    t2 = t2
    Threads <- MCThreads
    FsThreads <- MCThreads
    Readers = {t1}
    Writers = {t2}
    K = 2
    LruSize = 1
    MaxVer = 2
    IoResults = {TRUE, FALSE}
    AllocFails = FALSE
    FsyncThreads = {}
    InodeWrites = {FALSE}
SPECIFICATION Spec
INVARIANT DirtyImpliesUptodate
