SPECIFICATION QSpec
CONSTANTS
    Ids = {n1}
    Keys = {k1}
    Hashes = {h1}
    DelayRoutes = {"retry"}
    Dispatchers = {d1, d2}
    RouteDelay <- MCRouteDelay
    DispatchTimeout = 1
    CommitLag = 1
    LeaseTTL = 1
    PublishTTL = 2
    ReleaseDelay = 1
    StaleAfter = 2
    DeferDelay = 1
    MaxRetries = 1
    Durations <- MCDurations
    RetryTimes <- MCRetryTimes
    Skew = 0
    MaxTime = 5
    MaxGen = 3
    MaxTokens = 3
INVARIANTS
    PublishedWasReceived
    OnePublisher
    TriggerIsNotEarly
SYMMETRY Symmetry
CONSTRAINTS
    AcceptedAtOnce
    StalledIsShort
CHECK_DEADLOCK FALSE
