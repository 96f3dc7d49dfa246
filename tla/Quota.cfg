SPECIFICATION Spec
CONSTANTS
    Pods = {p1, p2}
    Clients = {c1}
    Targets = {t1, t2}
    Calls = {d1, d2, d3}
    None = None
    MaxGlobal = 2
    MaxTarget = 2
    RateLimit <- MCRateLimit
    Concurrency <- MCConcurrency
    FailOpen = {t2}
    CallTimeout = 1
    TokenTTL = 2
    MaxTime = 3
    MaxIngress = 2
INVARIANTS
    LocalCountsHolders
    ClusterConcurrency
    RateRespected
PROPERTY
    RefusalIsFree
SYMMETRY Symmetry
CHECK_DEADLOCK FALSE
