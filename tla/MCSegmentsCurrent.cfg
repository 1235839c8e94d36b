SPECIFICATION Spec
CONSTANTS
    SegNr = 4
    BlkPerSeg = 2
    Reserved = 1
    GcHi = 2
    Nodes = {root}
    Data = {d1, d2}
    Root = root
    None = None
    MaxOps = 8
SYMMETRY Symmetry
INVARIANTS
    CurrentNotFree
CHECK_DEADLOCK FALSE
