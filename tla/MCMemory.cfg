CONSTANTS
    Keys = {1, 2, 3, 4, 5, 6}
    Null = 7
    kMaxHeight = 2
    Readers = {"r"}
    LastUserKey = 2
    MaxSeq = 2
    BatchSize = 2
    LastKey = 3
    kBlockSize = 16
    Align = 4
    Sizes = {1, 3, 4, 5}
    MaxPieces = 5
SPECIFICATION MemorySpec
INVARIANTS
    PiecesAreApart
PROPERTIES
    SearchesAreRight
    ReadsAreExact
    CacheIsSound
    TablesAreSound
CHECK_DEADLOCK FALSE
