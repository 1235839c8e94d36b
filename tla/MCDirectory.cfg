SPECIFICATION Spec
CONSTANTS
    Names <- MCNames
    Hash <- MCHash
    SlotNum <- MCSlotNum
    Fids = {f1, f2, f3, f4}
    DentryPerBlock = 2
    MaxLevel = 3
    None = None
SYMMETRY Symmetry
INVARIANTS
    TypeOK
    ChildrenCounted
    SlotsExact
PROPERTIES
    ImplementsNameMap
CHECK_DEADLOCK FALSE
