--------------------------- MODULE DispatcherRefinement ---------------------------
(* KafkaDispatcher implements DispatcherSpec: three maps, consumer groups that end by      *)
(* themselves and a lock become one phase, one revision and one set per subscription.      *)
EXTENDS KafkaDispatcher

\* A uid with a consumer group in the map is consuming; after the map has forgotten it, its
\* group closes until Close() has returned.
Phase(u) ==
    IF subsConsumerGroups[u] # Nil THEN "consuming"
    ELSE IF \E g \in Groups : group[g].state = "closing" /\ group[g].uid = u THEN "closing"
    ELSE "absent"

\* What the endpoint answers for u: the list of the channel's current object.
Served(u) ==
    LET k == channelSubscriptions[ChannelOf[u]] IN
    IF k = Nil THEN {} ELSE IF u \in DOMAIN ks[k].ready THEN ks[k].ready[u] ELSE {}

Promise == INSTANCE DispatcherSpec WITH
               phase <- [u \in UIDs |-> Phase(u)],
               rev   <- subscriptions,
               ready <- [u \in UIDs |-> Served(u)]

\* The dispatcher keeps its promise: whatever workers, informer and sessions interleave and
\* whatever fails, it does nothing to a subscription that DispatcherSpec does not allow. No
\* partition stays listed behind a closed consumer, and no consumer changes its spec.
KeepsPromise == Promise!Spec
================================================================================
