CONSTANTS
    Window = 2
    Threshold = 3
    Batches <- MCBatches
    BruteWindow = 1
    BruteThreshold = 2
    ModerateRate = 1
    AggressiveRate = 10
    SuccessWindow = 2
    SuccessThreshold = 2
    DayLength = 2
    SuspiciousNames = {"admin"}
    ValidIPs = {"ip1", "ip2"}
    AuditWindow = 1
    AuditThreshold = 2
    AdminAuids = {"u3"}
    Truncated = {}
    CanaryUsers = {"canary"}
    MitreTags = {"T1555", "T9999"}
    FalcoDay = 2
    Entries <- MCEntries
    MaxEntries <- MCMaxEntries
    MaxRereads = 1
SPECIFICATION Spec
INVARIANTS
    BurstsAreExact
    NoBurstMissed
    AlertsGrounded
    SessionsComplete
PROPERTIES
    NoActorMasked
    BurstsReported
CHECK_DEADLOCK FALSE
