SPECIFICATION Spec
CONSTANTS
    Threads = {"t1"}
    Ids = {1, 2}
    Calls = {"put"}
    Workload <- SharedWrites
    Threshold = 3
    EntrySize = 2
    TombstoneSize = 1
    CompactFiles = 2
    MaxLevel = 2
    MaxRecords = 4
    MaxOpens = 1
    MaxFailures = 0
    MaxCompacts = 0
INVARIANT ReadYourWrites
CHECK_DEADLOCK FALSE
