\* fsync of an inode whose bhs one filesystem thread dirties and writes
\* (t1) while another thread fsyncs it (t2), on a reliable device, under
\* the fairness of FairSpec.
CONSTANTS
    t1 = t1
    t2 = t2
    Threads <- MCThreads
    FsThreads = {t1}
    FsyncThreads = {t2}
    Readers = {}
    Writers = {}
    K = 2
    LruSize = 1
    MaxVer = 2
    IoResults = {TRUE}
    AllocFails = FALSE
    InodeWrites = {TRUE, FALSE}
SPECIFICATION FairSpec
INVARIANT RefCountAccounting
INVARIANT AssocListsSound
PROPERTY FsyncCompletes
