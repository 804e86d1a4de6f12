\* The page cache of MCFilePage.cfg with the fault "enospc": FileSpecRefined,
\* read(2)'s view of the file, under that failure.
CONSTANTS
    NPages = 1
    PageSize = 4
    BlkSize = 2
    Vals = {1, 2}
    InitSize = 3
    InitMap <- MCInitMap
    InitDisk <- MCInitDisk
    Faults = {"enospc"}
SPECIFICATION Spec
PROPERTY FileSpecRefined
