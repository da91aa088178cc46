SPECIFICATION ToolsSpec
CONSTANTS
    Parts = {"migration", "progress", "formats", "parquet", "histories", "transactions", "clients", "faults", "gateway", "access", "health", "telemetry"}
    MConfigs <- MCConfigs
    MTotal = 4
    MBatch = 2
    MConcurrency = 2
    MGroup = 4
    MBlank = {1}
    MBad = {3}
    MMaxOffset = 4
    MMaxStarts <- MCStarts
    MMaxCrashes = 1
    MMaxCancels = 1
    FInputs <- MCInputs
    FReaders = {"jsonl", "parquet", "binary", "hdf5", "csv"}
    FWriters = {"jsonl", "parquet", "binary", "hdf5", "csv"}
    FBatch = 2
    FFlush = 3
    FShape <- MCShape
    FConfig <- MCConfig
    FMaxIds = 3
    FMaxBatches = 1
    PBatches = 3
    PCapacity = 1
    PFlush = 2
    PMaxWrites = 5
    GTotals = {0, 2}
    GWindow = 1
    GMaxSamples = 2
    GMigrations = {1}
    GDays = 0
    GMaxClock = 2
    GMaxUpdates = 3
    JClients = {1, 2}
    JValues = {1}
    JMaxOps = 3
    TClients = {1, 2}
    TKeys = {1, 2}
    TMaxOps = 2
    TMaxTxn = 1
    TWindow = 2
    BTasks = {1, 2}
    BKeys = {1}
    BBatchSize = 2
    BMaxWrites = 4
    BMaxReads = 2
    NNodes = {1, 2, 3}
    NFaults = 2
    NClients = {1, 2}
    NOps = 2
    NCapacity = 2
    OHeaders <- MCHeaders
    ORequests = {1, 2, 3}
    OMax = 1
    OWindow = 2
    OMaxClock = 4
    OMaxResets = 1
    AKeys = {"k", "l"}
    ANames = {"n"}
    ARoles = {"reader", "writer"}
    ACacheSize = 1
    ATtls = {0, 1}
    AQueries = {"p", "q"}
    AMaxClock = 2
    AMaxWrites = 2
    AMaxKeyCalls = 2
    YChecks = {"s", "c"}
    YCritical = {"s", "c"}
    YNodes = 2
    YGrace = 1
    YMaxFlips = 2
    YMaxTicks = 2
    ITasks = {1, 2}
    INames = {"n"}
    IMaxOps = 3
    ILimit = 1
    ISpanSize = 2
    IMemory = 5
    IBatch = 2
    IMaxSpans = 3
    IThreads = {"t"}
    IFutures = {"r", "s"}
    IMaxPolls = 2
INVARIANTS     ProbesSafe
 
CHECK_DEADLOCK FALSE
