SPECIFICATION StorageSpec
CONSTANTS
    Parts = {"wal", "memtable", "sstable", "snapshots", "backup", "mapped", "collections"}
    t1 = t1
    t2 = t2
    w1 = w1
    w2 = w2
    Data <- MCData
    Length <- MCLength
    MaxFileSize = 10
    HeaderSize = 3
    EntryHeaderSize = 2
    MagicSize = 1
    MaxRecordSize = 4
    LengthModulus = 16
    Faults = {"crash", "torn_append", "failed_append", "torn_rotate", "failed_rotate"}
    MaxAppends = 3
    MaxFiles = 3
    Writers = {w1, w2}
    MemIds = {1, 2}
    Vectors = {"small", "large"}
    VectorSize <- MCVectorSize
    TombstoneSize = 1
    SizeModulus = 64
    MaxOps = 4
    TableIds = {1, 2, 3, 4, 5, 6, 7}
    Sizes = {1, 2, 4}
    BlockSize = 3
    NoId = 99
    STasks = {t1, t2}
    SRetention = 0
    SMaxClock = 1
    SMaxCalls = 3
    SMaxRestarts = 1
    BSegments = 2
    BMaxRecords = 3
    BMaxCalls = 2
    YPlaces = {1, 3}
    YCapacity = 1
    YNeighbours <- MCNeighbours
    YBeam = 2
    YList = 3
    YMaxNodes = 2
    YMaxAppends = 2
    CNames = {"a"}
    CIds = {1, 2}
    CTasks = {t1, t2}
    CBatches <- MCBatches
    CMaxCalls = 3
    CMaxRestarts = 1
INVARIANTS TypeOK LogRecovered TablesSafe FilesSafe CollectionsSafe
PROPERTIES PositionsIncrease YoungKept
CHECK_DEADLOCK FALSE
