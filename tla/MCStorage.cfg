SPECIFICATION Spec
CONSTANTS
    Disks = {p, q, r}
    Lbas = {x, y}
    Values = {a, b}
    Versions = {v1, v2, v3, v4}
    Null = Null
    MaxLog = 2
SYMMETRY Symmetry
INVARIANTS
    RefCountsExact
    TypeOK
    ReadsLastWrite
PROPERTIES
    ImplementsWriteLog
CHECK_DEADLOCK FALSE
