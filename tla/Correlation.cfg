CONSTANTS
    CORRELATION_RULES <- MCRules
    SEVERITY_OPT_IN_RULES = {"rule_008"}
    WindowHours = 2
    Alerts <- MCAlerts
    Accounts <- MCAccounts
    NoUser = ""
    NoTime = 0
    MaxAlerts = 4
    MaxRemovals = 1
SPECIFICATION CorrelationSpec
INVARIANTS
    ChainsHold
    NothingUnderstated
PROPERTIES
    NeverWeakened
