SPECIFICATION Spec
CONSTANTS
    Buckets <- MCBuckets
    BucketRoutes <- MCBucketRoutes
    MaxRetryAfter = 6
    MaxInt64 = 12
    Targets <- MCTargets
    Policies <- MCPolicies
    Headers <- MCHeaders
    Duration = 8
    MaxTime = 8
INVARIANTS
    RetryAfterHonoured
    NoNeedlessWait
    RequestsBounded
PROPERTIES
    NoBlindResend
    CycleEnds
CHECK_DEADLOCK FALSE
