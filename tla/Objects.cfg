CONSTANTS
    CloudTrail = cloudtrail
    Hosts = {h1, h2}
    PerDay = 2
    MaxDay = 2
    MaxObjects = 3
    MaxUnreadable = 1
    MaxRestarts = 1
SPECIFICATION ObjectsSpec
INVARIANTS
    GoodFilesReadOnce
    NothingSkippedUnseen
PROPERTIES
    EventuallyRead
CHECK_DEADLOCK FALSE
