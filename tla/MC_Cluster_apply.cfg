SPECIFICATION ClusterSpec
CONSTANTS
    Parts = {"state"}
    n1 = n1
    n2 = n2
    n3 = n3
    c1 = c1
    c2 = c2
    c3 = c3
    Nodes <- TwoNodes
    Callers <- ThreeCallers
    NodeOf <- TwoAndOne
    MaxConcurrent = 1
    MaxLogSize = 1
    MaxCalls = 2
    MaxTokens = 1
    Policies = {"Manual"}
    ReplicaNodes <- ThreeNodes
    Shards = {"s"}
    Tasks = {"t"}
    Writers = {"w"}
    ReplicationFactor = 3
    Candidates <- Assignment
    Levels <- MCLevels
    MaxOps = 2
    MaxWrites = 1
    MaxApplied = 1
    MaxSilent = 1
    RNodes = {"a", "b"}
    RShards = 2
    RRebalanced = 2
    RVectors = {0, 1}
    RCallIds = {1, 2, 3}
    RMaxHops = 2
    RMaxChanges = 3
    UNodes = {1, 2, 3}
    UHolds <- MCHolds
    UTopK = 1
    UMaxEntries = 2
    UMaxStops = 1
    GNodes = {"a", "b", "c"}
    GVirtual = 2
    GSize = 4
    LMaxIndex = 4
    LMaxTerm = 2
    LMaxBatch = 2
    ZReplicas = {1, 2}
    ZLeader = 1
    ZColls = {"a"}
    ZPeers = {"n"}
    ZMaxLog = 2
    XRegions = {"e", "w"}
    XTasks = {1, 2}
    XStamps = {1, 2}
    XKinds = {"Update"}
    XMaxOps = 3
INVARIANT AppliedDeterministically
CHECK_DEADLOCK FALSE
