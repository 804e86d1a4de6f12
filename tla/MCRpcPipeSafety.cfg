CONSTANTS
    f1 = f1
    f2 = f2
    f3 = f3
    m1 = m1
    m2 = m2
    NoMsg = NoMsg
    Files <- MCFiles3
    Msgs <- MCMsgs
    MsgLen <- MCMsgLen
    CopyFaults = TRUE
SPECIFICATION FairSpec
INVARIANTS
    TypeOK
    UpcallOwnedOnce
    PipeLenAccounting
    FreedConstructed
PROPERTIES
    UpcallFinished
\* The pipe's life ends: every file is released and the inode is freed.
CHECK_DEADLOCK FALSE
