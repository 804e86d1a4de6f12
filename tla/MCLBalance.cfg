\* Three leaves and Snew, 32-byte blocks; a directory and a file.
CONSTANTS
    d = d
    f = f
    Dir <- d
    File <- f
    BSize = 32
    BLKH = 2
    IH = 2
    DEH = 1
    UNFM = 2
    SDLen = 1
    MaxOff = 255
    MaxFileEnd = 70
    InitItems <- MCInitItems
    NewNames <- MCNewNames
SPECIFICATION Spec
INVARIANTS TypeOK LeafLayoutSound ItemsMatchKeys ContentPreserved TreeKeysSound
\* Balancing runs only when an edit calls for it; with the bounded edits a
\* tree can come to rest with no edit that fits and nothing left to move.
CHECK_DEADLOCK FALSE
