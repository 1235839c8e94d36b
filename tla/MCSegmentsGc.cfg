SPECIFICATION FairSpec
CONSTANTS
    SegNr = 5
    BlkPerSeg = 2
    Reserved = 2
    GcHi = 3
    Nodes = {root}
    Data = {d1, d2, d3}
    Root = root
    None = None
    MaxOps = 6
INVARIANTS
    GcFindsRoom
PROPERTIES
    GcEnds
CHECK_DEADLOCK FALSE
