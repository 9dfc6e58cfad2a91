\* Two engines that may overlap, batches of up to two alerts that may repeat one.
SPECIFICATION FairSpec
CONSTANTS
    e1 = e1
    e2 = e2
    a1 = a1
    a2 = a2
    a3 = a3
    k1 = k1
    k2 = k2
    Engines = {e1, e2}
    NoEngine = NoEngine
    Alerts = {a1, a3}
    KeyOf <- MCKeyOf
    MaxBatch = 2
    MaxFaults = 2
INVARIANT
    MutualExclusion
PROPERTIES
    OnlyCompleteFiles
    BatchPersisted
    ImplementsAlertLog
    MergeEnds
