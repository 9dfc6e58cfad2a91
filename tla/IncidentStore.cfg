SPECIFICATION FairSpec
CONSTANTS
    p1 = p1
    p2 = p2
    Runs = {r1}
    NoRun = NoRun
    Parents = {p1, p2}
    None = None
    ArchiveDelay = 2
    MaxChain <- OneGrows
    MaxKills = 1
INVARIANTS
    TypeOK
    ClosedStaysClosed
    Conserved
    CreatedOnce
PROPERTY
    EventuallyArchived
