SPECIFICATION Spec
CONSTANTS
    Buckets <- MCBuckets
    BucketRoutes <- MCBucketRoutes
    MaxRetryAfter = 6
    MaxInt64 = 12
    Targets <- MCTargets
    Policies <- MCPolicies
    Headers <- MCHeadersBeyondInt64
    Duration = 8
    MaxTime = 8
INVARIANT
    UnsupportedDelayTerminates
CHECK_DEADLOCK FALSE
