SPECIFICATION Spec
CONSTANTS
    auth_log = auth_log
    cowrie = cowrie
    Sources = {auth_log, cowrie}
    Limit <- MCLimit
    None = None
    MaxTime = 5
    MaxCrashes = 1
INVARIANTS
    OutagesAreReal
    AlertsPaired
PROPERTY
    SilenceNoticed
