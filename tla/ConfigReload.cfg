SPECIFICATION FairSpec
CONSTANTS
    Contents <- MCContents
    LogFiles <- MCLogFiles
    NoLog = NoLog
    BadLogs = {"bad.log"}
    Workers = {w1, w2}
    FirstWorker = w1
    Conns = {c1}
    MaxReloads = 2
    None = None
INVARIANTS
    TypeOK
    SnapshotsAreWhole
    ManagerSurvives
    GenerationIdentifies
    ConnectionMovesForward
PROPERTIES
    SignalsLostOnlyByPanic
    DeadPoolEndsProcess
CHECK_DEADLOCK FALSE
