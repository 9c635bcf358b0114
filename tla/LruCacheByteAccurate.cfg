SPECIFICATION Spec
CONSTANTS
    Tasks = {t1, t2}
    Keys = {k1, k2}
    Sizes = {1}
    max_capacity_bytes = 3
    max_file_size_bytes = 2
    default_ttl = 1
    MAX_ENTRIES = 1
    StdoutMayFail = FALSE
    MaxTime = 0
    MaxCalls = 2
    NoTask = NoTask
INVARIANT ByteAccurate
CHECK_DEADLOCK FALSE
