SPECIFICATION Spec
CONSTANTS
    SegNr = 4
    BlkPerSeg = 2
    Reserved = 1
    GcHi = 2
    Nodes = {root}
    Data = {d1, d2, d3, d4}
    Root = root
    None = None
    MaxOps = 8
SYMMETRY Symmetry
CONSTRAINT CurrentKept
INVARIANTS
    FreeListOK
    TypeOK
    FreeIffEmpty
    MapsAgree
    LogEndFree
PROPERTIES
    ValidBlocksKept
CHECK_DEADLOCK FALSE
