SPECIFICATION Spec
CONSTANTS
    IPs = {a, b}
    Configs <- MCConfigs
    ROLLING_WINDOW = 1
    StdoutMayFail = TRUE
    MaxTime = 4
    MaxPushes = 4
SYMMETRY Symmetry
INVARIANTS
    TypeOK
    RateVerdictsExact
    RollingRateLimit
    BanVerdictsExact
PROPERTIES
    BansNeverShorten
    GarbageCollected
CHECK_DEADLOCK FALSE
