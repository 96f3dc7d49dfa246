SPECIFICATION Spec
CONSTANTS
    Ids = {n1, n2}
    Keys = {k1, k2}
    Hashes = {h1}
    DelayRoutes = {"retry"}
    LeaseTTL = 1
    PublishTTL = 1
    ReleaseDelay = 1
    StaleAfter = 1
    DeferDelay = 1
    MaxRetries = 1
    Durations <- MCDurations
    RetryTimes <- MCRetryTimes
    Skew = 0
    MaxTime = 4
    MaxGen = 3
    MaxTokens = 3
INVARIANTS
    TriggerExists
    OneEventPerGeneration
    OneAttemptPerGeneration
    AttemptLedger
    OpenAttemptIsLeased
    SuccessIsFinal
    HolderIsCurrent
    CycleBounded
PROPERTY
    RecordsStand
    ImplementsLifecycle
CONSTRAINT SecondIsShort
SYMMETRY Symmetry
CHECK_DEADLOCK FALSE
