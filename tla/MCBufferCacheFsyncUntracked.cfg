\* A bh re-dirtied while fsync holds it on its tmp list: every
\* filesystem write goes through mark_buffer_dirty_inode.
CONSTANTS
    t1 = t1
    t2 = t2
    Threads <- MCThreads
    FsThreads = {t1}
    FsyncThreads = {t2}
    Readers = {}
    Writers = {}
    K = 2
    LruSize = 1
    MaxVer = 2
    IoResults = {TRUE}
    AllocFails = FALSE
    InodeWrites = {TRUE}
SPECIFICATION Spec
INVARIANT DirtyTracked
