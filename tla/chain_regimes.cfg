SPECIFICATION RegimesSpec
CONSTANTS
    Agents = {a1, a2}
    FirstAgent = a1
    FirstWorker = w1
    FewCalls = 3
    Deaths = 2
    Workers = {w1, w2}
    None = None
    MaxCalls = 4
    MaxCrashes = 0
    WriteFaults = {"nothing", "header", "payload", "sync"}
    Tears = {}
    SaveFaults = FALSE
    QueueCap = 1
    SerialAgents = FALSE
INVARIANTS
    TypeOK
    AuditBeforeAnswer
    StoreIsAudited
    NoForkWithinRun
    AnsweredStaysReadableInCrash
    ReplayValidatesSerial
    StoredInOneLineSerial
PROPERTIES
    CrashingImplementsAuditLog
    EvaluationEndsAlive
    EventuallyStoredAlive
CHECK_DEADLOCK FALSE
