SPECIFICATION FairSpec
CONSTANTS
    Threads = {"t1", "t2"}
    Ids = {1, 2}
    Calls = {"put", "delete", "flush"}
    Workload <- DisjointWrites
    Threshold = 3
    EntrySize = 2
    TombstoneSize = 1
    CompactFiles = 2
    MaxLevel = 2
    MaxRecords = 3
    MaxOpens = 3
    MaxFailures = 1
    MaxCompacts = 0
 
PROPERTIES RetiredFrozen WritesReturn
CHECK_DEADLOCK FALSE
