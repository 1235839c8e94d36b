SPECIFICATION Spec
CONSTANTS
    n1 = n1
    n2 = n2
    None = None
    InUse = InUse
    Names = {n1, n2}
    Hash <- Same0
    SlotNum <- Same1
    DentryPerBlock = 1
    MaxLevel = 2
    NodeNr = 6
    Fids = {0, 1, 2, 3, 4, 5}
    IndexSize = 3
    IndexTable = 2
    MaxFile = 4
    Lengths = {1, 4}
    MaxOpen = 1
    MaxOps = 6
    MaxGc = 4
    Refusals = {"inode"}
SYMMETRY Symmetry
INVARIANT
    RefMatches
CHECK_DEADLOCK FALSE
