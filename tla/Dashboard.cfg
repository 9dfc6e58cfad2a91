CONSTANTS
    Engines = {e1, e2}
    Stored <- MCStored
    Batches <- MCBatches
    OWNER_AUIDS = {"1000"}
    EXCLUDED_RULES = {"rule_018"}
    Requests = {r1, r2}
    PerPage = 2
    MaxFaults = 2
    MaxRepeats = 1
    Addresses = {ip1, ip2, ip3}
    Locatable = {ip3}
    Private = {}
    MAX_NEW_PER_CYCLE = 1
    RETRY_AFTER = 3
    MaxMishaps = 1
SPECIFICATION Spec
INVARIANTS
    SummaryNotAhead
    StaleIsNoticed
    PagesCoverListing
PROPERTIES
    EventuallyCurrent
    NotHammered
    EventuallyLocated
CHECK_DEADLOCK FALSE
