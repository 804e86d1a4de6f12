CONSTANTS
    f1 = f1
    f2 = f2
    f3 = f3
    m1 = m1
    m2 = m2
    NoMsg = NoMsg
    Files <- MCFiles2
    Msgs <- MCMsgs
    MsgLen <- MCMsgLen
    CopyFaults = FALSE
SPECIFICATION Spec
INVARIANTS
    NoUpcallWithoutOwner
CHECK_DEADLOCK FALSE
