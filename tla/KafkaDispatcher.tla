---------------------------- MODULE KafkaDispatcher ----------------------------
(***************************************************************************)
(* One dispatcher process of a KafkaTopicChannel                            *)
(* (pkg/channel/kt/dispatcher and pkg/channel/kt/reconciler/dispatcher).    *)
(*                                                                         *)
(* Goroutines of the process:                                              *)
(*   - Workers, the controller's worker threads: each takes a channel key   *)
(*     from the work queue and runs syncChannel (RegisterChannelHost, then  *)
(*     ReconcileConsumers);                                                *)
(*   - Informer, the goroutine that delivers watch events of the channel    *)
(*     Self: it enqueues Self, or runs CleanupChannel by itself;            *)
(*   - one goroutine per sarama consumer group, which reports the partitions *)
(*     it has claimed through KafkaSubscription.SetReady;                   *)
(*   - Requests, the HTTP handlers of the subscription endpoint.            *)
(* consumerUpdateLock serialises the writers of the three maps; the         *)
(* endpoint reads channelSubscriptions without it.                          *)
(*                                                                         *)
(* The API server is the environment: it edits channels, and every edit     *)
(* reaches the lister at once and the informer's handler later, in order.   *)
(***************************************************************************)
EXTENDS Naturals, Sequences

CONSTANTS
    Channels,           \* KafkaTopicChannels of the watched namespace
    Self,               \* the channel of this pod, CHANNEL_NAME
    HostOf,             \* [Channels -> Hosts], Status.Address.URL.Host
    UIDs,               \* UIDs of the Subscriptions
    ChannelOf,          \* [UIDs -> Channels], a Subscription has one channel
    Partitions,         \* partitions of the topic
    Workers, Informer,  \* goroutines that write the maps
    Requests,           \* goroutines of the subscription endpoint
    KafkaSubscriptions, \* heap of *KafkaSubscription objects
    Groups,             \* heap of sarama.ConsumerGroup objects
    Faults,             \* failures explored: subset of FaultKinds
    MaxRev,             \* bound: revisions of one subscriber's spec
    MaxEdits,           \* bound: edits of the API objects
    Nil                 \* absent pointer, absent key, free lock

FaultKinds == {"start", "close", "handle", "tombstone"}
Procs == Workers \cup {Informer}
Hosts == {HostOf[c] : c \in Channels}

ASSUME DispatcherAssumption ==
    /\ Self \in Channels
    /\ HostOf \in [Channels -> Hosts]
    /\ ChannelOf \in [UIDs -> Channels]
    /\ Informer \notin Workers
    /\ Faults \subseteq FaultKinds
    /\ MaxRev \in Nat /\ MaxEdits \in Nat
    /\ Nil \notin Channels \cup UIDs \cup KafkaSubscriptions \cup Groups \cup Procs

VARIABLES
    lister,               \* cached channel objects, or Nil
    edits,                \* edits made so far
    events,               \* watch events of Self not yet handled
    queue,                \* keys in the work queue
    hostToChannelMap,     \* host -> channel, or Nil
    consumerUpdateLock,   \* holder, or Nil
    channelSubscriptions, \* channel -> *KafkaSubscription, or Nil
    subscriptions,        \* uid -> revision of the stored spec, 0 when absent
    subsConsumerGroups,   \* uid -> consumer group, or Nil
    ks,                   \* the KafkaSubscription objects
    group,                \* the consumer group objects
    proc,                 \* locals of the workers and of the informer
    req                   \* locals of the endpoint's requests

env  == <<lister, edits, events>>
maps == <<channelSubscriptions, subscriptions, subsConsumerGroups>>
vars == <<env, queue, hostToChannelMap, consumerUpdateLock, maps, ks, group,
          proc, req>>

--------------------------------------------------------------------------------
(* Data *)

\* The subscribers of a channel's spec: revision 0 means the uid is not listed.
Subscribers(c) == {s \in [UIDs -> 0..MaxRev] :
                     \A u \in UIDs : s[u] # 0 => ChannelOf[u] = c}
NoSubscribers == [u \in UIDs |-> 0]
Listed(s) == {u \in UIDs : s[u] # 0}

\* "new": no Status.Address yet; "ready": Status.IsReady(); "unready": it has an
\* address, but a condition is not true or it has a deletion timestamp.
Phases == {"new", "ready", "unready"}
ChannelObject == [phase : Phases, subscribers : [UIDs -> 0..MaxRev]]
EventKinds == {"upsert", "delete", "deleteNoAddress"}

\* KafkaSubscription: the uids subscribed, the ready partitions per uid (a key is
\* absent when none is ready) and the read locks held on readySubscriptionsLock.
ReadyMaps == UNION {[D -> SUBSET Partitions] : D \in SUBSET UIDs}
NewKafkaSubscription == [subs |-> {}, ready |-> [u \in {} |-> {}], readers |-> 0]
KafkaSubscriptionRecord == [subs : SUBSET UIDs, ready : ReadyMaps, readers : Nat]

\* Mutant: a partition that is no longer ready leaves an empty set under its key.
SetReadyKeepsKey(m, u, p, ready) ==
    LET old == IF u \in DOMAIN m THEN m[u] ELSE {}
        new == IF ready THEN old \cup {p} ELSE old \ {p}
    IN  [v \in DOMAIN m \cup {u} |-> IF v = u THEN new ELSE m[v]]

\* KafkaSubscription.SetReady on the map m.
SetReady(m, u, p, ready) ==
    LET old == IF u \in DOMAIN m THEN m[u] ELSE {}
        new == IF ready THEN old \cup {p} ELSE old \ {p}
        keys == IF new = {} THEN DOMAIN m \ {u} ELSE DOMAIN m \cup {u}
    IN  [v \in keys |-> IF v = u THEN new ELSE m[v]]

\* A consumer group is free (closed or never started), open, or closing (Close() has
\* been called). In a session each claimed partition waits for its goroutine, is
\* consumed, or is consumed after a message whose handling failed.
ClaimStates == {"none", "claimed", "consuming", "failed"}
NoClaims == [p \in Partitions |-> "none"]
FreeGroup == [state |-> "free", uid |-> Nil, rev |-> 0, ks |-> Nil,
              session |-> "none", claims |-> NoClaims]
GroupRecord == [state : {"free", "open", "closing"}, uid : UIDs \cup {Nil},
                rev : 0..MaxRev, ks : KafkaSubscriptions \cup {Nil},
                session : {"none", "active", "cleanup"},
                claims : [Partitions -> ClaimStates]]

\* syncChannel and CleanupChannel: the channel, the config taken from the lister, what
\* is left to add and to remove under the lock, and the group being closed.
IdleProc == [pc |-> "idle", ch |-> Self, conf |-> NoSubscribers, toAdd |-> {},
             toRemove |-> {}, failed |-> FALSE, closing |-> Nil]
ProcRecord == [pc : {"idle", "register", "lock", "update"}, ch : Channels,
               conf : [UIDs -> 0..MaxRev], toAdd : SUBSET UIDs,
               toRemove : SUBSET UIDs, failed : BOOLEAN, closing : Groups \cup {Nil}]

\* ServeHTTP: the objects whose lock it has read-locked, and will unlock on return.
IdleReq == [pc |-> "idle", ch |-> Self, rlocked |-> Nil, deferred |-> Nil]
ReqRecord == [pc : {"idle", "rlock", "defer", "range", "runlock"}, ch : Channels,
              rlocked : KafkaSubscriptions \cup {Nil},
              deferred : KafkaSubscriptions \cup {Nil}]

Init ==
    /\ lister = [c \in Channels |-> Nil] /\ edits = 0 /\ events = <<>>
    /\ queue = {}
    /\ hostToChannelMap = [h \in Hosts |-> Nil]
    /\ consumerUpdateLock = Nil
    /\ channelSubscriptions = [c \in Channels |-> Nil]
    /\ subscriptions = NoSubscribers
    /\ subsConsumerGroups = [u \in UIDs |-> Nil]
    /\ ks = [k \in KafkaSubscriptions |-> NewKafkaSubscription]
    /\ group = [g \in Groups |-> FreeGroup]
    /\ proc = [p \in Procs |-> IdleProc]
    /\ req = [r \in Requests |-> IdleReq]

\* A fatal error or a panic that nothing recovers ends the process. The pod is
\* restarted and lists the channels: an Add event if Self exists.
Restart ==
    /\ UNCHANGED <<lister, edits>>
    /\ events' = IF lister[Self] = Nil THEN <<>> ELSE <<"upsert">>
    /\ queue' = {}
    /\ hostToChannelMap' = [h \in Hosts |-> Nil]
    /\ consumerUpdateLock' = Nil
    /\ channelSubscriptions' = [c \in Channels |-> Nil]
    /\ subscriptions' = NoSubscribers
    /\ subsConsumerGroups' = [u \in UIDs |-> Nil]
    /\ ks' = [k \in KafkaSubscriptions |-> NewKafkaSubscription]
    /\ group' = [g \in Groups |-> FreeGroup]
    /\ proc' = [p \in Procs |-> IdleProc]
    /\ req' = [r \in Requests |-> IdleReq]

--------------------------------------------------------------------------------
(* Environment: the API server, as the informer's cache sees it *)

\* An edit that leaves channel c as obj; only events of Self pass the filter of
\* NameAndNamespaceFilterFunc.
Edit(c, obj, kind) ==
    /\ edits < MaxEdits
    /\ edits' = edits + 1
    /\ lister' = [lister EXCEPT ![c] = obj]
    /\ events' = IF c = Self /\ kind \in EventKinds THEN Append(events, kind) ELSE events
    /\ UNCHANGED <<queue, hostToChannelMap, consumerUpdateLock, maps, ks, group, proc, req>>

CreateChannel(c) ==
    /\ lister[c] = Nil
    /\ Edit(c, [phase |-> "new", subscribers |-> NoSubscribers], "upsert")

\* A subscriber is added (revision # 0), changed, or removed (revision 0).
EditSubscriber(c, u, rev) ==
    /\ lister[c] # Nil
    /\ ChannelOf[u] = c
    /\ rev # lister[c].subscribers[u]
    /\ Edit(c, [lister[c] EXCEPT !.subscribers[u] = rev], "upsert")

\* The controller changes the status; an address, once set, stays.
ChangeStatus(c, phase) ==
    /\ lister[c] # Nil
    /\ phase \notin {"new", lister[c].phase}
    /\ Edit(c, [lister[c] EXCEPT !.phase = phase], "upsert")

\* A deletion the watch has missed arrives as a DeletedFinalStateUnknown, which is no
\* metav1.Object and which the filter therefore drops.
DeleteChannel(c) ==
    /\ lister[c] # Nil
    /\ \/ Edit(c, Nil, IF lister[c].phase = "new" THEN "deleteNoAddress" ELSE "delete")
       \/ "tombstone" \in Faults /\ Edit(c, Nil, "tombstone")

\* The elected leader enqueues every channel of the lister.
Promote ==
    /\ queue' = queue \cup {c \in Channels : lister[c] # Nil}
    /\ UNCHANGED <<env, hostToChannelMap, consumerUpdateLock, maps, ks, group, proc, req>>

--------------------------------------------------------------------------------
(* The controller's workers: syncChannel *)

ToIdle(p) == proc' = [proc EXCEPT ![p] = IdleProc]

\* The work queue never hands out a key that another worker is processing. The
\* reconciler reads the channel from the lister and returns when it is gone, being
\* deleted or not ready.
Dequeue(w, c) ==
    /\ proc[w].pc = "idle"
    /\ c \in queue
    /\ \A v \in Workers : proc[v].pc # "idle" => proc[v].ch # c
    /\ queue' = queue \ {c}
    /\ IF lister[c] # Nil /\ lister[c].phase = "ready"
       THEN proc' = [proc EXCEPT ![w] = [IdleProc EXCEPT !.pc = "register", !.ch = c,
                                                !.conf = lister[c].subscribers]]
       ELSE proc' = proc
    /\ UNCHANGED <<env, hostToChannelMap, consumerUpdateLock, maps, ks, group, req>>

\* LoadOrStore; a host held by another channel is an error and the key is requeued.
RegisterChannelHost(w) ==
    LET host == HostOf[proc[w].ch]
        free == hostToChannelMap[host] = Nil
        mine == hostToChannelMap[host] = proc[w].ch
    IN  /\ proc[w].pc = "register"
        /\ hostToChannelMap' = IF free THEN [hostToChannelMap EXCEPT ![host] = proc[w].ch]
                               ELSE hostToChannelMap
        /\ IF free \/ mine
           THEN proc' = [proc EXCEPT ![w].pc = "lock"] /\ queue' = queue
           ELSE ToIdle(w) /\ queue' = queue \cup {proc[w].ch}
        /\ UNCHANGED <<env, consumerUpdateLock, maps, ks, group, req>>

\* subs of the channel's KafkaSubscription, empty when it has none.
SubsOf(c) == IF channelSubscriptions[c] = Nil THEN {} ELSE ks[channelSubscriptions[c]].subs

StartUpdate(w, toAdd, toRemove) ==
    /\ proc[w].pc = "lock"
    /\ consumerUpdateLock' = w
    /\ proc' = [proc EXCEPT ![w].pc = "update", ![w].toAdd = toAdd, ![w].toRemove = toRemove]
    /\ UNCHANGED <<env, queue, hostToChannelMap, maps, ks, group, req>>

\* Mutant: every existing subscription is removed.
ReconcileConsumersRemovesAll(w) ==
    LET existing == SubsOf(proc[w].ch) IN
    consumerUpdateLock = Nil /\ StartUpdate(w, Listed(proc[w].conf) \ existing, existing)

\* ReconcileConsumers takes the lock and compares uids.
ReconcileConsumers(w) ==
    LET new == Listed(proc[w].conf)
        existing == SubsOf(proc[w].ch)
    IN  consumerUpdateLock = Nil /\ StartUpdate(w, new \ existing, existing \ new)

\* An object nothing refers to any more: the garbage collector reuses its memory.
Unreferenced(k) ==
    /\ \A c \in Channels : channelSubscriptions[c] # k
    /\ \A g \in Groups : group[g].ks # k
    /\ \A r \in Requests : req[r].rlocked # k /\ req[r].deferred # k

\* The channel's KafkaSubscription, or a new one.
GetOrCreate(c, k) ==
    IF channelSubscriptions[c] # Nil THEN k = channelSubscriptions[c] ELSE Unreferenced(k)
KafkaSubscriptionOf(c, k) ==
    IF channelSubscriptions[c] # Nil THEN ks[k] ELSE NewKafkaSubscription

\* subscribe, StartConsumerGroup succeeding: the group's handler keeps the spec and the
\* *KafkaSubscription it was created with.
Subscribe(w, u, k, g) ==
    LET c == proc[w].ch IN
    /\ proc[w].pc = "update" /\ u \in proc[w].toAdd
    /\ GetOrCreate(c, k)
    /\ group[g].state = "free"
    /\ channelSubscriptions' = [channelSubscriptions EXCEPT ![c] = k]
    /\ ks' = [ks EXCEPT ![k] = [KafkaSubscriptionOf(c, k) EXCEPT !.subs = @ \cup {u}]]
    /\ group' = [group EXCEPT ![g] = [FreeGroup EXCEPT !.state = "open", !.uid = u,
                                             !.rev = proc[w].conf[u], !.ks = k]]
    /\ subscriptions' = [subscriptions EXCEPT ![u] = proc[w].conf[u]]
    /\ subsConsumerGroups' = [subsConsumerGroups EXCEPT ![u] = g]
    /\ proc' = [proc EXCEPT ![w].toAdd = @ \ {u}]
    /\ UNCHANGED <<env, queue, hostToChannelMap, consumerUpdateLock, req>>

\* Mutant: the uid is added to subs before the consumer group is started.
SubscribeFailsKeepsUID(w, u, k) ==
    LET c == proc[w].ch IN
    /\ "start" \in Faults
    /\ proc[w].pc = "update" /\ u \in proc[w].toAdd
    /\ GetOrCreate(c, k)
    /\ channelSubscriptions' = [channelSubscriptions EXCEPT ![c] = k]
    /\ ks' = [ks EXCEPT ![k] = [KafkaSubscriptionOf(c, k) EXCEPT !.subs = @ \cup {u}]]
    /\ proc' = [proc EXCEPT ![w].toAdd = @ \ {u}, ![w].failed = TRUE]
    /\ UNCHANGED <<env, queue, hostToChannelMap, consumerUpdateLock, subscriptions,
                   subsConsumerGroups, group, req>>

\* subscribe, StartConsumerGroup failing: the KafkaSubscription stays in the map.
SubscribeFails(w, u, k) ==
    LET c == proc[w].ch IN
    /\ "start" \in Faults
    /\ proc[w].pc = "update" /\ u \in proc[w].toAdd
    /\ GetOrCreate(c, k)
    /\ channelSubscriptions' = [channelSubscriptions EXCEPT ![c] = k]
    /\ ks' = [ks EXCEPT ![k] = KafkaSubscriptionOf(c, k)]
    /\ proc' = [proc EXCEPT ![w].toAdd = @ \ {u}, ![w].failed = TRUE]
    /\ UNCHANGED <<env, queue, hostToChannelMap, consumerUpdateLock, subscriptions,
                   subsConsumerGroups, group, req>>

\* The writes of unsubscribe for a stored Subscription of the KafkaSubscription k.
Forget(c, k, u) ==
    /\ subscriptions' = [subscriptions EXCEPT ![u] = 0]
    /\ ks' = [ks EXCEPT ![k].subs = @ \ {u}]
    /\ channelSubscriptions' = [channelSubscriptions EXCEPT
           ![c] = IF ks[k].subs \ {u} = {} THEN Nil ELSE @]
    /\ subsConsumerGroups' = [subsConsumerGroups EXCEPT ![u] = Nil]

MayUnsubscribe(p, u) ==
    /\ proc[p].pc = "update" /\ proc[p].toAdd = {} /\ proc[p].closing = Nil
    /\ u \in proc[p].toRemove
    /\ UNCHANGED <<env, queue, hostToChannelMap, consumerUpdateLock, req>>

\* Mutants: the consumer group is forgotten and not closed; Close() is not waited for.
UnsubscribeLeaks(p, u) ==
    /\ MayUnsubscribe(p, u)
    /\ Forget(proc[p].ch, channelSubscriptions[proc[p].ch], u)
    /\ proc' = [proc EXCEPT ![p].toRemove = @ \ {u}]
    /\ UNCHANGED group
UnsubscribeDetached(p, u) ==
    /\ MayUnsubscribe(p, u)
    /\ Forget(proc[p].ch, channelSubscriptions[proc[p].ch], u)
    /\ group' = [group EXCEPT ![subsConsumerGroups[u]].state = "closing"]
    /\ proc' = [proc EXCEPT ![p].toRemove = @ \ {u}]

\* unsubscribe up to the call of Close(), by a worker or by the informer. A uid
\* without a stored Subscription yields the zero Subscription, which removes nothing.
Unsubscribe(p, u) ==
    LET c == proc[p].ch
        k == channelSubscriptions[c]
        g == subsConsumerGroups[u]
    IN  /\ MayUnsubscribe(p, u)
        /\ IF subscriptions[u] = 0 \/ k = Nil
           THEN /\ subscriptions' = [subscriptions EXCEPT ![u] = 0]
                /\ proc' = [proc EXCEPT ![p].toRemove = @ \ {u}]
                /\ UNCHANGED <<channelSubscriptions, subsConsumerGroups, ks, group>>
           ELSE /\ Forget(c, k, u)
                /\ group' = IF g = Nil THEN group
                            ELSE [group EXCEPT ![g].state = "closing"]
                /\ proc' = [proc EXCEPT ![p].toRemove = @ \ {u}, ![p].closing = g]

\* Close() returns once the session is over. A worker only logs its error; for
\* CleanupChannel the error is the end of the loop.
CloseReturns(p, err) ==
    LET g == proc[p].closing IN
    /\ g # Nil
    /\ group[g].session = "none"
    /\ err => "close" \in Faults
    /\ group' = [group EXCEPT ![g] = FreeGroup]
    /\ proc' = [proc EXCEPT ![p].closing = Nil,
                            ![p].toRemove = IF err /\ p = Informer THEN {} ELSE @]
    /\ UNCHANGED <<env, queue, hostToChannelMap, consumerUpdateLock, maps, ks, req>>

Done(p) ==
    /\ proc[p].pc = "update" /\ proc[p].toAdd = {} /\ proc[p].toRemove = {}
    /\ proc[p].closing = Nil
    /\ ToIdle(p)
    /\ UNCHANGED <<env, hostToChannelMap, maps, ks, group, req>>

\* Mutants: the error is swallowed; the error path returns without the Unlock.
ReturnSwallowsError(p) == Done(p) /\ consumerUpdateLock' = Nil /\ UNCHANGED queue
ReturnKeepsLock(p) ==
    /\ Done(p)
    /\ consumerUpdateLock' = IF proc[p].failed THEN consumerUpdateLock ELSE Nil
    /\ queue' = IF proc[p].failed THEN queue \cup {proc[p].ch} ELSE queue

\* The deferred Unlock; a failed sync puts the key back into the queue.
Return(p) ==
    /\ Done(p)
    /\ consumerUpdateLock' = Nil
    /\ queue' = IF proc[p].failed THEN queue \cup {proc[p].ch} ELSE queue

--------------------------------------------------------------------------------
(* The informer's handler *)

HandleUpsert ==
    /\ proc[Informer].pc = "idle"
    /\ events # <<>> /\ Head(events) = "upsert"
    /\ events' = Tail(events)
    /\ queue' = queue \cup {Self}
    /\ UNCHANGED <<lister, edits, hostToChannelMap, consumerUpdateLock, maps, ks, group,
                   proc, req>>

\* CleanupChannel before the lock.
HandleDelete ==
    /\ proc[Informer].pc = "idle"
    /\ events # <<>> /\ Head(events) = "delete"
    /\ events' = Tail(events)
    /\ hostToChannelMap' = [hostToChannelMap EXCEPT ![HostOf[Self]] = Nil]
    /\ proc' = [proc EXCEPT ![Informer].pc = "lock", ![Informer].ch = Self]
    /\ UNCHANGED <<lister, edits, queue, consumerUpdateLock, maps, ks, group, req>>

\* Status.Address is nil: the nil dereference panics in the informer's goroutine.
HandleDeleteNoAddress ==
    /\ proc[Informer].pc = "idle"
    /\ events # <<>> /\ Head(events) = "deleteNoAddress"
    /\ Restart

\* CleanupChannel under the lock: all subs of the channel are to be removed.
CleanupChannel ==
    /\ proc[Informer].pc = "lock"
    /\ consumerUpdateLock = Nil
    /\ IF channelSubscriptions[Self] = Nil
       THEN ToIdle(Informer) /\ UNCHANGED consumerUpdateLock
       ELSE /\ consumerUpdateLock' = Informer
            /\ proc' = [proc EXCEPT ![Informer].pc = "update",
                                    ![Informer].toRemove = SubsOf(Self)]
    /\ UNCHANGED <<env, queue, hostToChannelMap, maps, ks, group, req>>

--------------------------------------------------------------------------------
(* Consumer groups: the Consume loop of StartConsumerGroup and its sessions *)

\* SetReady takes the write lock of the handler's object: it waits for its readers.
GroupSetReady(g, p, ready) ==
    LET k == group[g].ks IN
    /\ ks[k].readers = 0
    /\ ks' = [ks EXCEPT ![k].ready = SetReady(@, group[g].uid, p, ready)]

GroupOnly == UNCHANGED <<env, queue, hostToChannelMap, consumerUpdateLock, maps, proc, req>>

\* The broker assigns the group's member a set of partitions.
SessionStart(g, claimed) ==
    /\ group[g].state = "open" /\ group[g].session = "none"
    /\ claimed # {}
    /\ group' = [group EXCEPT ![g].session = "active",
           ![g].claims = [p \in Partitions |-> IF p \in claimed THEN "claimed" ELSE "none"]]
    /\ UNCHANGED ks /\ GroupOnly

\* ConsumeClaim starts.
ConsumeClaim(g, p) ==
    /\ group[g].session = "active" /\ group[g].claims[p] = "claimed"
    /\ GroupSetReady(g, p, TRUE)
    /\ group' = [group EXCEPT ![g].claims[p] = "consuming"]
    /\ GroupOnly

\* Handle returns an error for a message of the claim.
HandleFails(g, p) ==
    /\ "handle" \in Faults
    /\ group[g].session = "active" /\ group[g].claims[p] = "consuming"
    /\ GroupSetReady(g, p, FALSE)
    /\ group' = [group EXCEPT ![g].claims[p] = "failed"]
    /\ GroupOnly

\* A rebalance, or Close(), ends the session: the ConsumeClaim goroutines have exited.
SessionEnd(g) ==
    /\ group[g].session = "active"
    /\ group' = [group EXCEPT ![g].session = "cleanup"]
    /\ UNCHANGED ks /\ GroupOnly

\* Mutant: Cleanup does not reset the readiness of the claim.
CleanupClaimForgets(g, p) ==
    /\ group[g].session = "cleanup" /\ group[g].claims[p] # "none"
    /\ group' = [group EXCEPT ![g].claims[p] = "none"]
    /\ UNCHANGED ks /\ GroupOnly

\* Cleanup, for one claim.
CleanupClaim(g, p) ==
    /\ group[g].session = "cleanup" /\ group[g].claims[p] # "none"
    /\ GroupSetReady(g, p, FALSE)
    /\ group' = [group EXCEPT ![g].claims[p] = "none"]
    /\ GroupOnly

SessionOver(g) ==
    /\ group[g].session = "cleanup" /\ group[g].claims = NoClaims
    /\ group' = [group EXCEPT ![g].session = "none"]
    /\ UNCHANGED ks /\ GroupOnly

--------------------------------------------------------------------------------
(* The subscription endpoint: ServeHTTP looks the channel up at every use *)

EndpointOnly == UNCHANGED <<env, queue, hostToChannelMap, consumerUpdateLock, maps, group, proc>>
Looked(r) == channelSubscriptions[req[r].ch]

\* A GET for a known channel; for an unknown one the answer is 404.
ServeHTTP(r, c) ==
    /\ req[r].pc = "idle"
    /\ channelSubscriptions[c] # Nil
    /\ req' = [req EXCEPT ![r].pc = "rlock", ![r].ch = c]
    /\ UNCHANGED ks /\ EndpointOnly

\* A nil dereference panics; net/http recovers and ends the request.
RLock(r) ==
    /\ req[r].pc = "rlock"
    /\ IF Looked(r) = Nil
       THEN req' = [req EXCEPT ![r] = IdleReq] /\ UNCHANGED ks
       ELSE /\ req' = [req EXCEPT ![r].pc = "defer", ![r].rlocked = Looked(r)]
            /\ ks' = [ks EXCEPT ![Looked(r)].readers = @ + 1]
    /\ EndpointOnly

\* The defer statement evaluates its receiver; a panic here leaves the read lock held.
DeferRUnlock(r) ==
    /\ req[r].pc = "defer"
    /\ req' = IF Looked(r) = Nil THEN [req EXCEPT ![r] = IdleReq]
              ELSE [req EXCEPT ![r].pc = "range", ![r].deferred = Looked(r)]
    /\ UNCHANGED ks /\ EndpointOnly

\* The range over channelReadySubscriptions, or its panic: the deferred call runs next.
RangeReady(r) ==
    /\ req[r].pc = "range"
    /\ req' = [req EXCEPT ![r].pc = "runlock"]
    /\ UNCHANGED ks /\ EndpointOnly

\* Mutant: the handler also unlocks explicitly, and one RUnlock too many goes unnoticed.
RUnlockTwice(r) ==
    /\ req[r].pc = "runlock"
    /\ ks' = [ks EXCEPT ![req[r].deferred].readers = @ - 2]
    /\ req' = [req EXCEPT ![r] = IdleReq]
    /\ EndpointOnly

RUnlock(r) ==
    /\ req[r].pc = "runlock"
    /\ ks[req[r].deferred].readers > 0
    /\ ks' = [ks EXCEPT ![req[r].deferred].readers = @ - 1]
    /\ req' = [req EXCEPT ![r] = IdleReq]
    /\ EndpointOnly

\* "sync: RUnlock of unlocked RWMutex" is a fatal error.
RUnlockOfUnlocked(r) ==
    /\ req[r].pc = "runlock"
    /\ ks[req[r].deferred].readers = 0
    /\ Restart

--------------------------------------------------------------------------------
Environment ==
    \/ \E c \in Channels : CreateChannel(c) \/ DeleteChannel(c)
    \/ \E c \in Channels, u \in UIDs, rev \in 0..MaxRev : EditSubscriber(c, u, rev)
    \/ \E c \in Channels, phase \in Phases : ChangeStatus(c, phase)
    \/ Promote

\* What a worker and the informer share: the unsubscribe loop and the return.
UpdateStep(p) ==
    \/ \E u \in UIDs : Unsubscribe(p, u)
    \/ \E err \in BOOLEAN : CloseReturns(p, err)
    \/ Return(p)

SubscribeStep(w) ==
    \E u \in UIDs, k \in KafkaSubscriptions, g \in Groups : Subscribe(w, u, k, g)

WorkerStep(w) ==
    \/ \E c \in Channels : Dequeue(w, c)
    \/ RegisterChannelHost(w)
    \/ ReconcileConsumers(w)
    \/ SubscribeStep(w)
    \/ \E u \in UIDs, k \in KafkaSubscriptions : SubscribeFails(w, u, k)
    \/ UpdateStep(w)

InformerStep ==
    \/ HandleUpsert \/ HandleDelete \/ HandleDeleteNoAddress
    \/ CleanupChannel
    \/ UpdateStep(Informer)

\* Ending a session and cleaning up after it, as Close() makes it happen.
SessionCleanup(g) == SessionOver(g) \/ \E p \in Partitions : CleanupClaim(g, p)
GroupStep(g) ==
    \/ \E claimed \in SUBSET Partitions : SessionStart(g, claimed)
    \/ \E p \in Partitions : ConsumeClaim(g, p) \/ HandleFails(g, p)
    \/ SessionEnd(g)
    \/ SessionCleanup(g)

RequestStep(r) ==
    \/ RLock(r) \/ DeferRUnlock(r) \/ RangeReady(r) \/ RUnlock(r) \/ RUnlockOfUnlocked(r)

Next ==
    \/ Environment
    \/ \E w \in Workers : WorkerStep(w)
    \/ InformerStep
    \/ \E g \in Groups : GroupStep(g)
    \/ \E r \in Requests : RequestStep(r) \/ \E c \in Channels : ServeHTTP(r, c)

Spec == Init /\ [][Next]_vars

\* Goroutines run; a closing group leaves its session, the sinks having answered (no request
\* has a timeout); and a consumer group that is started again and again starts at last, the
\* brokers being reachable.
Fairness ==
    /\ \A w \in Workers : WF_vars(WorkerStep(w)) /\ SF_vars(SubscribeStep(w))
    /\ WF_vars(InformerStep)
    /\ \A g \in Groups : /\ WF_vars(group[g].state = "closing" /\ SessionEnd(g))
                         /\ WF_vars(SessionCleanup(g))
    /\ \A r \in Requests : WF_vars(RequestStep(r))

FairSpec == Spec /\ Fairness

--------------------------------------------------------------------------------
(* Properties *)

\* Types; a cached channel lists subscribers of its own only, a read lock is never released
\* more often than taken (the runtime would end the process).
TypeOK ==
    /\ lister \in [Channels -> ChannelObject \cup {Nil}]
    /\ \A c \in Channels : lister[c] # Nil => lister[c].subscribers \in Subscribers(c)
    /\ edits \in 0..MaxEdits
    /\ events \in Seq(EventKinds)
    /\ queue \subseteq Channels
    /\ hostToChannelMap \in [Hosts -> Channels \cup {Nil}]
    /\ consumerUpdateLock \in Procs \cup {Nil}
    /\ channelSubscriptions \in [Channels -> KafkaSubscriptions \cup {Nil}]
    /\ subscriptions \in [UIDs -> 0..MaxRev]
    /\ subsConsumerGroups \in [UIDs -> Groups \cup {Nil}]
    /\ ks \in [KafkaSubscriptions -> KafkaSubscriptionRecord]
    /\ group \in [Groups -> GroupRecord]
    /\ proc \in [Procs -> ProcRecord]
    /\ req \in [Requests -> ReqRecord]

\* The three maps tell one story: a uid has a stored spec exactly when it has a consumer
\* group and exactly when the KafkaSubscription of its channel lists it, whatever failed
\* on the way (subscribe and unsubscribe update them one after the other).
MapsAgree ==
    \A u \in UIDs :
        /\ (subscriptions[u] # 0) <=> (subsConsumerGroups[u] # Nil)
        /\ (subscriptions[u] # 0) <=> (u \in SubsOf(ChannelOf[u]))

\* No consumer leaks: an open consumer group is the one the dispatcher would close when
\* its subscription goes away, it delivers with the stored spec, and it reports readiness
\* to the KafkaSubscription that the endpoint serves for its channel.
OpenGroupsReachable ==
    \A g \in Groups : group[g].state = "open" =>
        /\ subsConsumerGroups[group[g].uid] = g
        /\ group[g].rev = subscriptions[group[g].uid]
        /\ group[g].ks = channelSubscriptions[ChannelOf[group[g].uid]]

\* Never two members of one consumer group in this process, not even while the older one
\* is closing: they would split the partitions and each would look half ready.
OneConsumerPerSubscription ==
    \A g, h \in Groups : (/\ group[g].state # "free" /\ group[h].state # "free"
                          /\ group[g].uid = group[h].uid) => g = h

\* What the endpoint serves is exact: a partition is listed as ready for a uid if and only
\* if a consumer group of that uid, bound to that object, is consuming it and has not
\* failed on it since; and a uid without ready partitions has no key.
ReadyIsExact ==
    \A k \in KafkaSubscriptions : LET m == ks[k].ready IN
        /\ \A u \in DOMAIN m : m[u] # {}
        /\ \A u \in UIDs, p \in Partitions :
             (u \in DOMAIN m /\ p \in m[u])
               <=> \E g \in Groups : /\ group[g].uid = u /\ group[g].ks = k
                                     /\ group[g].claims[p] = "consuming"

\* A sync leaves the consumers of remaining subscriptions alone: a group is closed only by
\* the cleanup of a deleted channel or because the config being applied lacks its uid.
SurvivorsKeepConsuming ==
    [][\A g \in Groups :
         (group[g].state = "open" /\ group'[g].state = "closing") =>
            \/ consumerUpdateLock = Informer
            \/ proc[consumerUpdateLock].conf[group[g].uid] = 0]_vars

\* The uids of c that are subscribed; c is ready and lists the uids S.
Consumers(c) == {u \in Listed(subscriptions) : ChannelOf[u] = c}
Settled(c, S) == /\ lister[c] # Nil
                 /\ lister[c].phase = "ready"
                 /\ Listed(lister[c].subscribers) = S

\* Convergence: once the channel Self stays ready with the same subscribers, exactly those
\* stay subscribed and its host stays routed to it, although consumer groups may
\* fail to start and stale configs may be applied in between.
ConsumersConverge ==
    \A S \in SUBSET UIDs :
        <>[]Settled(Self, S) =>
            <>[](Consumers(Self) = S /\ hostToChannelMap[HostOf[Self]] = Self)

\* Whoever holds consumerUpdateLock gives it back: Close() always returns.
LockEventuallyFree == []<>(consumerUpdateLock = Nil)
================================================================================
