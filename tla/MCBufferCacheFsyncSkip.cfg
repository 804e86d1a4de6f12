\* fsync racing a bh whose earlier write is still in flight: every
\* filesystem write goes through mark_buffer_dirty_inode.
CONSTANTS
    t1 = t1
    t2 = t2
    Threads <- MCThreads
    FsThreads = {t1}
    FsyncThreads = {t2}
    Readers = {}
    Writers = {}
    K = 2
    LruSize = 1
    MaxVer = 2
    IoResults = {TRUE}
    AllocFails = FALSE
    InodeWrites = {TRUE}
SPECIFICATION Spec
PROPERTY FsyncDurable
