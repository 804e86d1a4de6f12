\* Partial-page writes, readpage, writepage, truncate and cont_expand on a
\* file with a hole, with failing reads in readpage.
CONSTANTS
    NPages = 1
    PageSize = 4
    BlkSize = 2
    Vals = {1, 2}
    InitSize = 3
    InitMap <- MCInitMap
    InitDisk <- MCInitDisk
    Faults = {"read_eio"}
SPECIFICATION Spec
INVARIANTS TypeOK CleanBuffersOnDisk BlocksWithinSize
PROPERTY FileSpecRefined
