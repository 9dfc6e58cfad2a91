SPECIFICATION Spec
CONSTANTS
    p1 = p1
    p2 = p2
    Runs = {r1}
    NoRun = NoRun
    Parents = {p1}
    None = None
    ArchiveDelay = 1
    MaxChain <- OneGrows
    MaxKills = 1
INVARIANT
    ClosedSurvivesKill
