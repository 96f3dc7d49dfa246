---------------------------- MODULE MC_Delivery ----------------------------
(* Delivery with one notification, two delay queues and two policy delays. *)
EXTENDS Delivery

MCBuckets == <<1, 2>>
MCBucketRoutes == <<"retry.1", "retry.2">>
MCDelayRoutes == {"retry.1", "retry.2"}
MCTarget == [retryEnabled |-> TRUE, uncertainRetry |-> "unset", mode |-> "supported"]
MCPolicy == [delays |-> <<1, 2>>, respectRetryAfter |-> TRUE]
MCHeaders == {NoHeader, Seconds(2)}
MCDurations == {6}
MCRetryTimes == 0..(MaxTime + 2)

(* Only differences of times matter, so the first submission is at 0.      *)
AcceptedAtOnce == now > 0 => \A id \in Ids : task[id].status # "absent"

(* Calls see of the outbox only what Reconcile does under them.  Where     *)
(* dispatchers act they publish the first trigger, which is lost: calls    *)
(* begin when it is stale, with the message found again or the next one.   *)
(* Reconcile asks for no lease, so how long calls take is no matter there. *)
FirstTriggerIsLost ==
    \A id \in Ids : Len(attempts[id]) < tokens =>
        /\ timely
        /\ \A o \in Events(id) : o > 1 => outbox[id][o].status = "pending"
        /\ now <= StaleAfter => \A c \in Calls : At(c, "new")
        /\ now > StaleAfter => outbox[id][1].status = "published"
=============================================================================
