SPECIFICATION Spec
CONSTANTS
    Threads = {"t1", "t2"}
    Ids = {1, 2}
    Calls = {"put", "delete", "compact"}
    Workload <- OneWrites
    Threshold = 2
    EntrySize = 2
    TombstoneSize = 1
    CompactFiles = 2
    MaxLevel = 2
    MaxRecords = 4
    MaxOpens = 3
    MaxFailures = 1
    MaxCompacts = 3
INVARIANT TablesServe
CHECK_DEADLOCK FALSE
