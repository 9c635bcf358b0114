SPECIFICATION FairSpec
CONSTANTS
    Tasks = {t1, t2}
    Keys = {k1, k2, k3}
    Sizes <- MCSizes
    max_capacity_bytes = 3
    max_file_size_bytes = 4
    default_ttl = 1
    MAX_ENTRIES = 2
    StdoutMayFail = TRUE
    MaxTime = 1
    MaxCalls = 4
    NoTask = NoTask
INVARIANTS
    TypeOK
    BudgetRespected
    DriftIsEntryLimit
    FullOnlyAfterDrift
PROPERTIES
    ImplementsStore
    CallsReturn
CHECK_DEADLOCK FALSE
