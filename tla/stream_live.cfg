SPECIFICATION FairSpec
CONSTANTS
    Role = "worker"
    Appended = {"storage.turns"}
    Sizes = {1}
    MaxSize = 1
    STREAM_MAX_BYTES = 4
    NODE_CAP = 2
    STREAM_USAGE_RESERVE_BYTES = 1
    STREAM_BATCH_MAX_RECORDS = 2
    STREAM_BATCH_MAX_BYTES = 2
    MaxRecords = 2
    MaxRestarts = 0
    MaxDiskErrors = 1
    PowerCuts = FALSE
PROPERTIES
    LogDrains
    SegmentsReclaimed
CHECK_DEADLOCK FALSE
