--------------------------- MODULE MC_RetryCycle ---------------------------
(* RetryCycle with three delay queues and every kind of header.            *)
EXTENDS RetryCycle

MCBuckets == <<1, 2, 4>>
MCBucketRoutes == <<"retry.1", "retry.2", "retry.4">>

MCTargets ==
    {t \in [retryEnabled : BOOLEAN, uncertainRetry : {"unset", "yes", "no"},
            mode : {"supported", "none"}] :
        t.retryEnabled \/ (t.uncertainRetry = "unset" /\ t.mode = "none")}

MCPolicies ==
    [delays : {<<>>, <<1>>, <<2, 1>>, <<1, 2, 4>>}, respectRetryAfter : BOOLEAN]

(* Every header the code can parse, below, at and above each limit.        *)
MCHeaders ==
    {NoHeader, Garbage} \cup {Seconds(v) : v \in -1..7} \cup {Date(v) : v \in 0..9}

(* The same, and delay-seconds that do not fit an int64.                   *)
MCHeadersBeyondInt64 == MCHeaders \cup {Seconds(MaxInt64 + 1)}
=============================================================================
