SPECIFICATION InterfacesSpec
CONSTANTS
    Parts = {"qdrant", "compat", "sdk", "filters", "hybrid", "hnsw", "graph", "distances", "quantizers", "stream"}
    t1 = t1
    t2 = t2
    QNames = {"a", "b"}
    QMaxId = 4
    QWindow = 2
    QSlack = 3
    QLimit = 1
    QRequests <- MCRequests
    QFound <- MCFound
    QMaxCalls = 4
    WNames = {"a", "b"}
    WIds = {1, 2}
    WHash = 2
    WFound <- MCSurvivors
    WTasks = {t1}
    WMaxCalls = 3
    WMaxRestarts = 1
    ETasks = {1, 2}
    EMaxId = 0
    EMaxCalls = 2
    FsIds = {1, 2}
    FsPayloads <- MCPayloads
    FsFilters <- MCFilters
    FsApiFilters <- MCApiFilters
    FsLimit = 1
    FsMaxWrites = 2
    HSTasks = {t1, t2}
    HSIds = {1}
    HFields = {"f"}
    HValues = {1, 2}
    HFilters <- MCHybridFilters
    HThreshold = 60
    HTtl = 0
    HMaxClock = 1
    HMaxInserts = 2
    HMaxSearches = 2
    HIds = {1, 2, 3}
    HPlaces = {0, 2}
    HMetrics = {"Cosine", "Dot"}
    HMaxLevel = 1
    HM = 1
    HEf = 2
    HMaxOps = 4
    VPlaces = {0, 3, 4}
    VMetrics = {"Cosine", "DotProduct"}
    VMaxLayer = 1
    VM = 1
    VEf = 2
    VMaxNodes = 5
    DVectors <- MCVectors
    DBatchVectors <- MCBatchVectors
    DSmall = 1
    DMedium = 2
    DChunk = 2
    DMaxBatch = 3
    DMaxCalls = 1
    QM = 2
    QK = 2
    QTrainings <- MCTrainings
    QProbes <- MCProbes
    QRounds = 2
    QBooks = 2
    QWords = {0, 2, 5}
    QScalars <- MCScalars
    QBeam = 2
    KTasks = {1, 2}
    KClients = {"s", "w"}
    KKind <- MCKind
    KCapacity = 1
    KMaxEvents = 2
    KMaxCloses = 1
INVARIANTS InterfacesSafe SdkSafe FiltersSafe IndexesSafe StreamOrdered
PROPERTIES BatchesWhole QuantizersImprove SseDelivered
CHECK_DEADLOCK FALSE
