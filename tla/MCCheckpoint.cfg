SPECIFICATION Spec
CONSTANTS
    EntryNr <- MCEntryNr
    PerBlk <- MCPerBlk
    JournalNr = 2
    SitJournalBlk = 2
    Values = {a, b}
    CurSegs = {s1, s2}
    Unwritten = Unwritten
    MaxVer = 5
    MaxUpdates = 3
SYMMETRY Symmetry
INVARIANTS
    TypeOK
    Recoverable
    DirtyCoversChanges
PROPERTIES
    CommittedUntouched
    ImplementsAtomicStore
