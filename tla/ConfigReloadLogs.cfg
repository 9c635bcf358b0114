SPECIFICATION Spec
CONSTANTS
    Contents <- MCLoadable
    LogFiles <- MCLogFiles
    NoLog = NoLog
    BadLogs = {}
    Workers = {w1, w2}
    FirstWorker = w1
    Conns = {c1}
    MaxReloads = 1
    None = None
INVARIANT LogsGoToSnapshot
CHECK_DEADLOCK FALSE
