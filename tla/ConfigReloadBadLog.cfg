SPECIFICATION FairSpec
CONSTANTS
    Contents <- MCLoadable
    LogFiles <- MCLogFiles
    NoLog = NoLog
    BadLogs = {"bad.log"}
    Workers = {w1}
    FirstWorker = w1
    Conns = {}
    MaxReloads = 2
    None = None
PROPERTY ReloadApplies
CHECK_DEADLOCK FALSE
