-------------------------------- MODULE Delivery --------------------------------
(***************************************************************************)
(* The path of an event: POSTed to a dispatcher pod, written to the pod's   *)
(* Kafka topic, read by the consumer group of every subscription and sent   *)
(* to the subscriber, its reply or its dead letter sink                     *)
(* (pkg/channel/kt/dispatcher: NewDispatcher, consumer_message_handler.go;  *)
(* the vendored message receiver and dispatcher, consumer handler and       *)
(* sarama's offset manager).                                                *)
(*                                                                         *)
(* What KafkaDispatcher details is one step here: Sync registers a channel  *)
(* and starts its consumer groups. Brokers, Services and the sinks are the  *)
(* environment. A request with all its retries is one step with the answer  *)
(* of the last attempt. A session is modelled per claimed partition, since  *)
(* nothing here relates two partitions; an event is its place in the log.   *)
(***************************************************************************)
EXTENDS Integers, Sequences

CONSTANTS
    Channels,     \* KafkaTopicChannels of one namespace
    Partitions,   \* partitions of all their topics
    PartitionsOf, \* [Channels -> SUBSET Partitions], the channel's topic
    Pods,         \* dispatcher pods; two of one channel during a rolling update
    Own,          \* [Pods -> Channels], CHANNEL_NAME and KAFKA_TOPIC of the pod
    UIDs,         \* Subscriptions
    ChannelOf,    \* [UIDs -> Channels]
    Specs,        \* what the sinks of a Subscription may be: subset of SinkSpecs
    Foreign,      \* a record of the topic that is no CloudEvent
    Nil,          \* no owner
    MaxEvents,    \* bound: records of one partition
    MaxFaults     \* bound: crashes, elections, rebalances and expired members

Sinks == {"subscriber", "reply", "deadLetter"}

\* Each sink is not set, always answers 2xx ("up"), may also fail ("flaky"), or may also
\* never answer ("silent"): no request has a timeout. The Subscription webhook wants a
\* subscriber or a reply.
SinkSpecs == {s \in [Sinks -> {"none", "up", "flaky", "silent"}] :
                s["subscriber"] # "none" \/ s["reply"] # "none"}

ASSUME DeliveryAssumption ==
    /\ PartitionsOf \in [Channels -> SUBSET Partitions]
    /\ Own \in [Pods -> Channels]
    /\ ChannelOf \in [UIDs -> Channels]
    /\ Specs \subseteq SinkSpecs
    /\ Foreign \notin Channels /\ Nil \notin Pods
    /\ MaxEvents \in Nat /\ MaxFaults \in Nat

VARIABLES
    spec,      \* uid -> its sinks
    log,       \* partition -> the channels its records were POSTed to, in order
    queue,     \* pod -> channels to sync
    hosts,     \* pod -> channels in hostToChannelMap
    joined,    \* pod -> uids whose consumer group it is a member of
    claim,     \* pod -> uid -> partition -> state of ConsumeClaim
    owner,     \* uid -> partition -> pod that the current generation assigns it to
    committed, \* uid -> partition -> offset stored by the broker
    handled,   \* uid -> partition -> offsets that Handle has returned for (history)
    got,       \* uid -> partition -> <<offset, answer>> pairs (history)
    faults     \* of these so far

pods == <<queue, hosts, joined>>
vars == <<spec, log, pods, claim, owner, committed, handled, got, faults>>

\* Offsets count from 0; sarama's -1 stands for "nothing committed".
NoOffset == -1
Offsets == 0..MaxEvents

\* The loop of ConsumeClaim waits at pos, or has the message at pos in flight at a sink,
\* or Handle has returned. marked is the offset manager's offset.
Stages == {"idle", "delivered", "failed"} \cup Sinks
NoClaim == [open |-> FALSE, pos |-> 0, marked |-> NoOffset, stage |-> "idle"]
ClaimRecord == [open : BOOLEAN, pos : Offsets, marked : Offsets \cup {NoOffset},
                stage : Stages]

\* What a sink has answered to an event with 2xx: "response" is a subscriber's answer that
\* carries an event for the reply.
Answers == Sinks \cup {"response"}

Init ==
    /\ spec \in [UIDs -> Specs]
    /\ log = [p \in Partitions |-> <<>>]
    /\ queue = [d \in Pods |-> {Own[d]}]
    /\ hosts = [d \in Pods |-> {}]
    /\ joined = [d \in Pods |-> {}]
    /\ claim = [d \in Pods |-> [u \in UIDs |-> [p \in Partitions |-> NoClaim]]]
    /\ owner = [u \in UIDs |-> [p \in Partitions |-> Nil]]
    /\ committed = [u \in UIDs |-> [p \in Partitions |-> NoOffset]]
    /\ handled = [u \in UIDs |-> [p \in Partitions |-> {}]]
    /\ got = [u \in UIDs |-> [p \in Partitions |-> {}]]
    /\ faults = 0

--------------------------------------------------------------------------------
(* Receiving *)

Write(p, record) ==
    /\ Len(log[p]) < MaxEvents
    /\ log' = [log EXCEPT ![p] = Append(@, record)]
    /\ UNCHANGED <<spec, pods, claim, owner, committed, handled, got, faults>>

\* The receiver: the Service of channel c selects the pods of every channel, the host is
\* looked up (404 when absent) and the event goes to the topic of the pod. When the
\* producer fails the answer is 500 and the record may be there all the same.
Receive(d, c, p) == c \in hosts[d] /\ p \in PartitionsOf[Own[d]] /\ Write(p, c)

\* Another producer of the user's own topic.
Produce(p) == Write(p, Foreign)

--------------------------------------------------------------------------------
(* Pods *)

\* syncChannel: the channel's host is registered, its consumer groups are started on the
\* topic of the pod.
Sync(d, c) ==
    /\ c \in queue[d]
    /\ queue' = [queue EXCEPT ![d] = @ \ {c}]
    /\ hosts' = [hosts EXCEPT ![d] = @ \cup {c}]
    /\ joined' = [joined EXCEPT ![d] = @ \cup {u \in UIDs : ChannelOf[u] = c}]
    /\ UNCHANGED <<spec, log, claim, owner, committed, handled, got, faults>>

Fault == faults < MaxFaults /\ faults' = faults + 1

\* The pod is elected and enqueues every channel of the namespace.
Promote(d) ==
    /\ Fault
    /\ queue' = [queue EXCEPT ![d] = Channels]
    /\ UNCHANGED <<spec, log, hosts, joined, claim, owner, committed, handled, got>>

\* The process ends and starts anew; the broker finds out later (Expire).
Crash(d) ==
    /\ Fault
    /\ queue' = [queue EXCEPT ![d] = {Own[d]}]
    /\ hosts' = [hosts EXCEPT ![d] = {}]
    /\ joined' = [joined EXCEPT ![d] = {}]
    /\ claim' = [claim EXCEPT ![d] = [u \in UIDs |-> [p \in Partitions |-> NoClaim]]]
    /\ UNCHANGED <<spec, log, owner, committed, handled, got>>

--------------------------------------------------------------------------------
(* Sessions and offsets *)

\* Mutants: the committed offset is ignored; OffsetNewest is taken for an offset.
NextOffsetNewest(u, p) == Len(log[p])
NextOffsetRaw(u, p) == committed[u][p]

\* NextOffset: the committed offset, or Consumer.Offsets.Initial, OffsetNewest.
NextOffset(u, p) == IF committed[u][p] >= 0 THEN committed[u][p] ELSE Len(log[p])

\* The partition is assigned to the pod's member; the claim starts. (The log is never truncated,
\* so the fallback of newConsumerGroupClaim for an offset out of range is not taken.)
SessionStart(d, u, p) ==
    /\ u \in joined[d] /\ p \in PartitionsOf[Own[d]]
    /\ ~claim[d][u][p].open
    /\ owner[u][p] = Nil
    /\ owner' = [owner EXCEPT ![u][p] = d]
    /\ claim' = [claim EXCEPT ![d][u][p] =
                   [open |-> TRUE, pos |-> NextOffset(u, p), marked |-> committed[u][p],
                    stage |-> "idle"]]
    /\ UNCHANGED <<spec, log, pods, committed, handled, got, faults>>

\* flushToBroker: the broker refuses commits of a former generation.
Flush(d, u, p) ==
    committed' = IF owner[u][p] = d
                 THEN [committed EXCEPT ![u][p] = claim[d][u][p].marked] ELSE committed

\* The offset manager commits what is marked, from time to time.
Commit(d, u, p) ==
    /\ claim[d][u][p].open /\ claim[d][u][p].marked # committed[u][p]
    /\ Flush(d, u, p)
    /\ UNCHANGED <<spec, log, pods, claim, owner, handled, got, faults>>

\* release(): ConsumeClaim has returned, Cleanup has run, the offset manager commits for
\* the last time. The reason is a rebalance, or the end of the membership. A commit that
\* does not get through has the effect of one from a member that was replaced.
SessionEnd(d, u, p) ==
    /\ claim[d][u][p].open /\ claim[d][u][p].stage = "idle"
    /\ Flush(d, u, p)
    /\ claim' = [claim EXCEPT ![d][u][p] = NoClaim]
    /\ owner' = IF owner[u][p] = d THEN [owner EXCEPT ![u][p] = Nil] ELSE owner
    /\ UNCHANGED <<spec, log, pods, handled, got>>
Rebalance(d, u, p) == owner[u][p] = d /\ Fault /\ SessionEnd(d, u, p)
EndFenced(d, u, p) == owner[u][p] # d /\ UNCHANGED faults /\ SessionEnd(d, u, p)

\* The broker gives up a member: it has crashed, or it missed the session or the rebalance
\* timeout, and goes on handling until it notices.
Expire(d, u, p) ==
    /\ owner[u][p] = d
    /\ owner' = [owner EXCEPT ![u][p] = Nil]
    /\ UNCHANGED <<spec, log, pods, claim, committed, handled, got>>
ExpireCrashed(d, u, p) == ~claim[d][u][p].open /\ UNCHANGED faults /\ Expire(d, u, p)
ExpireSlow(d, u, p) == claim[d][u][p].open /\ Fault /\ Expire(d, u, p)

--------------------------------------------------------------------------------
(* Handling a message *)

\* Handle up to the first request: a record that is no event is an error (and a panic is
\* recovered as "not delivered"); without a subscriber the event goes to the reply.
Handle(d, u, p) ==
    LET cl == claim[d][u][p] IN
    /\ cl.open /\ cl.stage = "idle" /\ cl.pos < Len(log[p])
    /\ claim' = [claim EXCEPT ![d][u][p].stage =
                   IF log[p][cl.pos + 1] = Foreign THEN "failed"
                   ELSE IF spec[u]["subscriber"] # "none" THEN "subscriber" ELSE "reply"]
    /\ UNCHANGED <<spec, log, pods, owner, committed, handled, got, faults>>

\* Mutant: a reply that fails is not sent to the dead letter sink.
AfterErrorReplyLost(u, stage) ==
    IF stage = "subscriber" /\ spec[u]["deadLetter"] # "none" THEN "deadLetter" ELSE "failed"

\* A request has failed at the given stage.
AfterError(u, stage) ==
    IF stage # "deadLetter" /\ spec[u]["deadLetter"] # "none" THEN "deadLetter" ELSE "failed"

\* DispatchMessageWithRetries: the sink of the stage answers with an error, with 2xx, or
\* with 2xx and an event, which only a subscriber's reply takes further.
RequestFails(d, u, p) ==
    LET stage == claim[d][u][p].stage IN
    /\ stage \in Sinks /\ spec[u][stage] # "up"
    /\ claim' = [claim EXCEPT ![d][u][p].stage = AfterError(u, stage)]
    /\ UNCHANGED <<spec, log, pods, owner, committed, handled, got, faults>>

RequestSucceeds(d, u, p, event) ==
    LET stage == claim[d][u][p].stage
        response == event /\ stage = "subscriber"
    IN  /\ stage \in Sinks
        /\ claim' = [claim EXCEPT ![d][u][p].stage =
                       IF response /\ spec[u]["reply"] # "none" THEN "reply" ELSE "delivered"]
        /\ got' = [got EXCEPT ![u][p] =
                     @ \cup {<<claim[d][u][p].pos, IF response THEN "response" ELSE stage>>}]
        /\ UNCHANGED <<spec, log, pods, owner, committed, handled, faults>>

\* Mutant: every message is marked.
MarkMessageAlways(cl) == [cl EXCEPT !.pos = @ + 1, !.stage = "idle", !.marked = cl.pos + 1]

\* The loop goes on with the next message; a delivered one is marked, and MarkOffset never
\* goes back.
MarkMessage(cl) ==
    [cl EXCEPT !.pos = @ + 1, !.stage = "idle",
               !.marked = IF cl.stage = "delivered" /\ cl.pos + 1 > @ THEN cl.pos + 1 ELSE @]

\* Mutant: nobody receives from the channel of errors, so the loop blocks on the first.
HandleReturnsBlocks(d, u, p) ==
    LET cl == claim[d][u][p] IN
    /\ cl.stage = "delivered"
    /\ claim' = [claim EXCEPT ![d][u][p] = MarkMessage(cl)]
    /\ handled' = [handled EXCEPT ![u][p] = @ \cup {cl.pos}]
    /\ UNCHANGED <<spec, log, pods, owner, committed, got, faults>>

\* ConsumeClaim after Handle has returned; an error only goes to the channel of errors.
HandleReturns(d, u, p) ==
    LET cl == claim[d][u][p] IN
    /\ cl.stage \in {"delivered", "failed"}
    /\ claim' = [claim EXCEPT ![d][u][p] = MarkMessage(cl)]
    /\ handled' = [handled EXCEPT ![u][p] = @ \cup {cl.pos}]
    /\ UNCHANGED <<spec, log, pods, owner, committed, got, faults>>

--------------------------------------------------------------------------------
ClaimStep(d, u, p) ==
    \/ Handle(d, u, p) \/ HandleReturns(d, u, p) \/ RequestFails(d, u, p)
    \/ \E event \in BOOLEAN : RequestSucceeds(d, u, p, event)

Next ==
    \/ \E d \in Pods, c \in Channels, p \in Partitions : Receive(d, c, p)
    \/ \E p \in Partitions : Produce(p)
    \/ \E d \in Pods, c \in Channels : Sync(d, c)
    \/ \E d \in Pods : Promote(d) \/ Crash(d)
    \/ \E d \in Pods, u \in UIDs, p \in Partitions :
         \/ SessionStart(d, u, p) \/ ClaimStep(d, u, p) \/ Commit(d, u, p)
         \/ Rebalance(d, u, p) \/ EndFenced(d, u, p)
         \/ ExpireCrashed(d, u, p) \/ ExpireSlow(d, u, p)

Spec == Init /\ [][Next]_vars

\* The loop of ConsumeClaim does not wait for an answer that may never come.
Answered(d, u, p) ==
    LET stage == claim[d][u][p].stage IN stage \in Sinks => spec[u][stage] # "silent"

\* A started pod syncs its channel, the loop of a claim runs and its requests are answered,
\* except by silent sinks, a member that is thrown out notices, the broker expires a
\* crashed member and assigns free partitions.
Fairness ==
    /\ \A d \in Pods : WF_vars(Sync(d, Own[d]))
    /\ \A d \in Pods, u \in UIDs, p \in Partitions :
         /\ WF_vars(Answered(d, u, p) /\ ClaimStep(d, u, p))
         /\ WF_vars(SessionStart(d, u, p)) /\ WF_vars(EndFenced(d, u, p))
         /\ WF_vars(ExpireCrashed(d, u, p))

FairSpec == Spec /\ Fairness

--------------------------------------------------------------------------------
(* Properties *)

\* Types; every position lies within its log.
TypeOK ==
    /\ spec \in [UIDs -> Specs]
    /\ log \in [Partitions -> Seq(Channels \cup {Foreign})]
    /\ \A p \in Partitions : Len(log[p]) <= MaxEvents
    /\ queue \in [Pods -> SUBSET Channels]
    /\ hosts \in [Pods -> SUBSET Channels]
    /\ joined \in [Pods -> SUBSET UIDs]
    /\ claim \in [Pods -> [UIDs -> [Partitions -> ClaimRecord]]]
    /\ owner \in [UIDs -> [Partitions -> Pods \cup {Nil}]]
    /\ committed \in [UIDs -> [Partitions -> Offsets \cup {NoOffset}]]
    /\ handled \in [UIDs -> [Partitions -> SUBSET Offsets]]
    /\ got \in [UIDs -> [Partitions -> SUBSET (Offsets \X Answers)]]
    /\ faults \in 0..MaxFaults

\* The event at offset i has reached its end: the subscriber took it and owes no reply, or
\* the reply took it, or the dead letter sink did.
Settled(u, p, i) ==
    \/ \E sink \in Sinks : <<i, sink>> \in got[u][p]
    \/ <<i, "response">> \in got[u][p] /\ spec[u]["reply"] = "none"

\* The offset that a consumer group resumes at follows an event that has reached its end:
\* nothing but a delivery moves it, whoever of the group's members made it and whatever
\* crash, expiry or rebalance came in between.
ResumesAfterDelivery ==
    \A u \in UIDs, p \in Partitions :
        committed[u][p] > 0 => Settled(u, p, committed[u][p] - 1)

\* Once a group has a committed offset, it only moves forward and only over messages that
\* Handle has returned for: a member of a former generation cannot move it, and no restart
\* skips a message.
CommitsCoverHandled ==
    [][\A u \in UIDs, p \in Partitions :
         committed[u][p] # NoOffset =>
            /\ committed'[u][p] >= committed[u][p]
            /\ committed[u][p]..(committed'[u][p] - 1) \subseteq handled[u][p]]_vars

\* Where no sink fails, or the dead letter sink never does, every event that was handled
\* has reached its end: no path through DispatchMessageWithRetries drops one silently.
ReliableSinksLoseNothing ==
    \A u \in UIDs :
        (\/ spec[u]["deadLetter"] = "up"
         \/ \A sink \in Sinks : spec[u][sink] \in {"none", "up"}) =>
        \A p \in Partitions : \A i \in handled[u][p] :
            log[p][i + 1] # Foreign => Settled(u, p, i)

\* Once its group has a committed offset, every message from there on is handled at last,
\* although sinks fail, pods crash and members expire, unless a sink does not answer.
HandledEventually ==
    \A u \in UIDs : \A p \in PartitionsOf[ChannelOf[u]], i \in 0..(MaxEvents - 1) :
        (/\ \A sink \in Sinks : spec[u][sink] # "silent"
         /\ committed[u][p] \in 0..i /\ i < Len(log[p])) ~> (i \in handled[u][p])

\* pkg/channel/kt/README.md:74: the dispatcher distributes events "to the appropriate
\* consumers": what a Subscription delivers was POSTed to its own channel.
OwnEventsOnly ==
    \A u \in UIDs, p \in Partitions : \A e \in got[u][p] :
        log[p][e[1] + 1] = ChannelOf[u]
================================================================================
