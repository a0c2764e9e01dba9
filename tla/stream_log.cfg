SPECIFICATION LogSpec
CONSTANTS
    Role = "worker"
    Appended = {"cognition.turns", "storage.turns", "storage.usage"}
    Sizes = {1, 3}
    MaxSize = 3
    STREAM_MAX_BYTES = 6
    NODE_CAP = 3
    STREAM_USAGE_RESERVE_BYTES = 1
    STREAM_BATCH_MAX_RECORDS = 2
    STREAM_BATCH_MAX_BYTES = 2
    MaxRecords = 3
INVARIANTS
    Accounted
    UsageAccounted
    BytesExact
    WithinCaps
    InFlightKept
    CursorHonest
    LostNotTaken
CHECK_DEADLOCK FALSE
