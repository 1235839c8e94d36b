SPECIFICATION Spec
CONSTANTS
    n1 = n1
    n2 = n2
    None = None
    InUse = InUse
    Names = {n1, n2}
    Hash <- Same0
    SlotNum <- Same1
    DentryPerBlock = 1
    MaxLevel = 2
    NodeNr = 5
    Fids = {0, 1, 2, 3, 4}
    IndexSize = 3
    IndexTable = 2
    MaxFile = 1
    Lengths = {1}
    MaxOpen = 1
    MaxOps = 6
    MaxGc = 0
    Refusals = {"dentry"}
SYMMETRY Symmetry
INVARIANT
    RefMatches
CHECK_DEADLOCK FALSE
