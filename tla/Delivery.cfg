SPECIFICATION DSpec
CONSTANTS
    Ids = {n1}
    Keys = {k1}
    Hashes = {h1}
    DelayRoutes <- MCDelayRoutes
    Buckets <- MCBuckets
    BucketRoutes <- MCBucketRoutes
    MaxRetryAfter = 6
    MaxInt64 = 12
    Target <- MCTarget
    Policy <- MCPolicy
    Headers <- MCHeaders
    LeaseTTL = 3
    ProcessTimeout = 1
    CommitTimeout = 1
    LockTTL = 3
    PublishTTL = 1
    ReleaseDelay = 1
    StaleAfter = 3
    DeferDelay = 1
    MaxRetries = 2
    Durations <- MCDurations
    RetryTimes <- MCRetryTimes
    Skew = 0
    MaxTime = 5
    MaxGen = 3
    MaxTokens = 3
    MaxCalls = 2
INVARIANTS
    OneRequestPerGeneration
    RequestsDoNotOverlap
    TimelyResultIsKept
    LockIsKept
    SuccessWasAnswered
PROPERTY
    UsesStore
CONSTRAINTS
    AcceptedAtOnce
    FirstTriggerIsLost
CHECK_DEADLOCK FALSE
