SPECIFICATION Spec
CONSTANTS
    Ids = {n1}
    Keys = {k1}
    Hashes = {h1}
    DelayRoutes = {"retry"}
    LeaseTTL = 1
    PublishTTL = 1
    ReleaseDelay = 1
    StaleAfter = 1
    DeferDelay = 1
    MaxRetries = 1
    Durations <- MCDurations
    RetryTimes <- MCRetryTimes
    Skew = 0
    MaxTime = 4
    MaxGen = 3
    MaxTokens = 4

INVARIANT
    RecoveredLeaseIsPending
CHECK_DEADLOCK FALSE
