SPECIFICATION Spec
CONSTANTS
    Addresses = {a1}
    Slots = {k1}
    Base = base
    None = None
    DestroyedSlot = DestroyedSlot
    KeccakEmpty = KeccakEmpty
    Codes = {KeccakEmpty, c1}
    Values = {v1, v2}
    Databases <- MCDatabases
    MaxBalance = 1
    MaxTxs = 2
    MaxBlocks = 2
SYMMETRY ValueSymmetry
INVARIANTS
    ReadsAreCurrent
    ChangesetsComplete
    PlainRevertsRestore
    RevertLatestRestores
    UnreachableOnlyFromLoaded
    SizesCover
CHECK_DEADLOCK FALSE
