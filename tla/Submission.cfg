SPECIFICATION SSpec
CONSTANTS
    Ids = {n1, n2}
    Keys <- MCKeys
    Hashes = {}
    DelayRoutes = {}
    LeaseTTL = 1
    PublishTTL = 1
    ReleaseDelay = 1
    StaleAfter = 1
    DeferDelay = 1
    MaxRetries = 0
    Durations = {1}
    RetryTimes = {}
    Skew = 0
    MaxTime = 0
    MaxGen = 3
    MaxTokens = 2
    Requests = {1, 2, 3}
    Bodies <- MCBodies
    ClientOf <- MCClientOf
    Normal <- MCNormal
    Malformed = "malformed"
    Snapshots <- MCSnapshots
SYMMETRY IdSymmetry
CONSTRAINT RacesApart
INVARIANTS
    ReplaysAgree
    NoSpuriousConflict
    CreationIsReported
    RetriesFenced
CHECK_DEADLOCK FALSE
