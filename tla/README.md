# Specifications of Kafka Topic Channel

TLA+ models of the KafkaTopicChannel controller and dispatcher, TLC runs that check them on
small instances, and TLAPS proofs. Paths below are relative to the repository; `kt/` is
`pkg/channel/kt/`.

## The system

A KafkaTopicChannel is a Kubernetes resource: a Kafka topic plus a list of subscribers. Two
programs serve it. The *controller* keeps one dispatcher Deployment, its Services and the
channel's status; the *dispatcher*, one pod per channel, consumes the topic once per subscriber
and posts the events. They talk through the API server, and by HTTP: the controller's *prober*
asks each dispatcher pod which partitions it is consuming for which subscription, because a
subscriber may be reported as ready only when all partitions are consumed.

| Part | State | Operations | Hard because |
|---|---|---|---|
| dispatcher (`kt/dispatcher/dispatcher.go`) | `channelSubscriptions`, `subscriptions`, `subsConsumerGroups`, `hostToChannelMap`, `consumerUpdateLock` | RegisterChannelHost, ReconcileConsumers, CleanupChannel, subscribe, unsubscribe | two workers and the informer write; groups fail to start or close; Close() waits under the lock |
| KafkaSubscription (`kafka_subscription.go`) | `subs`, `channelReadySubscriptions`, its RWMutex | SetReady | called by every consumer goroutine, also of groups being closed |
| subscription endpoint (`subscription_endpoint.go`) | none of its own | ServeHTTP | reads the map of channels without the lock, four times |
| dispatcher reconciler (`kt/reconciler/dispatcher`) | work queue, lister | syncChannel, DeleteFunc | deletion is handled outside the queue |
| consumer groups (vendored `eventing-kafka/pkg/common/consumer`, sarama) | session, claims, marked and committed offsets | Consume loop, ConsumeClaim, Cleanup, Close, MarkMessage, Commit | sessions start and end at any time; a member may be replaced while it handles a message |
| receiver and message handler (`NewDispatcher`, `consumer_message_handler.go`, vendored message receiver and dispatcher) | `hostToChannelMap`, the pod's topic | receive, Handle, DispatchMessageWithRetries | three sinks, each of which may fail; crashes between delivery and commit |
| controller (`kt/reconciler/controller/kafkachannel.go`) | the channel's status and children | ReconcileKind, FinalizeKind, reconcileSubscribers | stale caches, conflicts, partial failure |
| generated reconciler (`pkg/client/injection/reconciler/...`) | finalizer, status | Reconcile, updateStatus, Promote | retries put an old status over a newer object |
| conditions (`kafka_channel_lifecycle.go`, vendored `condition_set.go`) | seven conditions and Ready | Mark..., PropagateDispatcherStatus, SetAddress | start from the last reconcile's values |
| prober (`kt/status/status.go`) | `targetStates`, work items, contexts | IsReady, probeTarget, CancelProbing, CancelPodProbing, RefreshPodProbing, workers | success, cancellation, refresh and lookup race; mu is not always held |

What makes each correct: the dispatcher's maps agree and no consumer leaks or doubles; the endpoint
tells the truth; consumers converge to the spec; offsets move only over handled messages, and every
message is handled; the prober reports what it has probed and loses no wake-up of its own; the
controller's Ready is no leftover of another spec, it follows the children in both directions,
subscribers converge, deletion ends. `PROJECT.json` lists the hazards line by line with the
properties that watch them.

## Modules

| Module | Models |
|---|---|
| `KafkaDispatcher` | one dispatcher process: workers, informer goroutine, consumer groups, endpoint requests |
| `DispatcherSpec` | what a dispatcher promises for each subscription: absent, consuming or closing, one revision, the ready partitions |
| `DispatcherRefinement` | the mapping from `KafkaDispatcher` to `DispatcherSpec` |
| `Delivery` | the path of an event through the dispatcher pods of a namespace, with offsets and faults |
| `Prober` | the status prober with the controller's workers as callers |
| `ChannelController` | one channel seen by the controller: API server, caches, worker, conditions |
| `MC...` | constants of each for TLC |
| `KafkaDispatcherProofs`, `DispatcherRefinementProofs` | theorems about `KafkaDispatcher`, and the refinement |
| `DeliveryProofs`, `ChannelControllerProofs` | theorems about `Delivery` and `ChannelController` |
| `ProberProofs`, `ProberWakeupProofs` | theorems about `Prober` |

**KafkaDispatcher.** The variables bear the names of the fields of `KafkaDispatcher`; `ks` and
`group` are the heaps of `*KafkaSubscription` and consumer group objects (a pointer is a model
value, so that an old object can still be referred to by a closing group or a request; an object
nobody refers to is reused). A worker goes `Dequeue` (syncChannel up to the config),
`RegisterChannelHost`, `ReconcileConsumers` (takes the lock, computes the diff), then `Subscribe` /
`SubscribeFails` per uid to add, `Unsubscribe` and `CloseReturns` per uid to remove, `Return`. The
informer goes `HandleDelete`, `CleanupChannel` and the same unsubscribe steps. What happens under
the lock is cut at the calls that can fail or block, since the endpoint and the consumer groups run
in between without the lock. `GroupSetReady` waits for the readers of the object's RWMutex. A
request's lookups are steps of their own: a nil result is the panic that `net/http` recovers
(`RLock`, `DeferRUnlock`), and `RUnlockOfUnlocked` is the Go runtime's fatal error, which restarts
the process, as does the nil `Status.Address` (`HandleDeleteNoAddress`). A subscriber's spec is a
revision number, 0 when it is not listed.

**DispatcherSpec and DispatcherRefinement.** The abstract dispatcher has no maps, objects, lock or
goroutines. A subscription is absent, is subscribed with a revision, which it keeps, goes to closing,
and is absent again once nothing is listed as ready for it; partitions become ready and unready only
while it is not absent. `Phase`, `subscriptions` and `Served` give the abstract state: a uid in
`subsConsumerGroups` is consuming, one whose group is being closed is closing, and `Served` is what
the endpoint would answer for it now. `KeepsPromise` says that every step of `KafkaDispatcher` is an
abstract step or leaves the abstract state alone. The promise allows one thing a reader may not
expect: with the last subscription of a channel its object goes out of the map before the group is
closed, so that the ready partitions vanish at once (`Unsubscribe`).

**Delivery.** What `KafkaDispatcher` details is one step here (`Sync`): a channel's host is
registered and its groups are started. `Receive` is the receiver from the lookup of the host to the
record in the pod's own topic, with no difference between a producer that succeeds and one that
fails after the broker took the record. A member's session is kept per claimed partition: `pos` is
the loop of ConsumeClaim, `marked` the offset manager's offset, `stage` the request under way.
`Handle`, `RequestFails` and `RequestSucceeds` follow DispatchMessageWithRetries from sink to sink,
a request with its retries being one step; `HandleReturns` marks what was delivered and goes on.
`Commit` and the end of a session write `marked` to the broker, which refuses it from a member it
has replaced (`owner`). A pod may crash, be elected, lose a partition to a rebalance, or be thought
dead while it handles a message. `handled` and `got` are history variables.

**Prober.** `state` and `item` are the heaps of `targetState` and work items. `Lookup`, `Eject`,
`ProbeTarget`, `StoreState` are the parts of IsReady separated by the places where `mu` is not held;
`RefreshOne`, `ProbeTarget`, `StoreState`, `RefreshRelock` those of RefreshPodProbing. `Probe` is
the HTTP exchange with probeVerifier, `ProcessAnswer` the rest of processWorkItem, followed by
`onProbingSuccess`; `onProbingCancellation` is the goroutine that waits for the context. Each
subscription has a channel of its own, so the controller's queue holds uids. `num` is the channel's
Spec.NumPartitions; a state keeps the number it was created with, as it keeps its copy of the
channel, and an edit (`ChangePartitions`) does not make it outdated. `ChangePods` changes the
Endpoints and enqueues nothing: their events do not pass the controller's filter
(`kt/reconciler/controller/controller.go:113`). A reconcile that finds no pod drops the error of
IsReady, clears the subscriber and ends; the history variable `missed` remembers it, since nothing
but a new event or `Resync` makes the controller look again. (That case is Endpoints whose subsets
hold only addresses that are not ready; Endpoints without subsets end the reconcile earlier, with an
error that requeues the key.)

**ChannelController.** `obj` is the channel at the API server, `cache` the lister's copy, `wk.res`
the copy being reconciled; `cacheFresh` and `origFresh` say whether a copy has the object's
resourceVersion, which decides about conflicts. The steps of ReconcileKind are actions in the code's
order, each with its failing API calls; a returned ReconcilerEvent ends the reconcile without a retry
(`End(_, "ok")`), any other error requeues the key. The children are what the reconciler tells apart:
a Deployment is as expected, drifted, or without the container. The conf of a channel is the fields
of the spec that SetDefaults and Validate look at. The scope annotation, which Validate looks at too,
is a field of its own, because the API server raises metadata.generation for a change of the spec
(`EditSpec`) and for a deletion, but not for an annotation (`EditAnnotation`), and
PreProcessReconcile resets Ready only for a new generation. `Endpoints` are absent, empty (no
subsets) or ready; subsets that hold only NotReadyAddresses are ready here, as they are to the code,
which looks at len(Subsets). The prober appears as what IsReady answers.

## Runs

Passing runs:

| Run | Instance | Shows |
|---|---|---|
| DispatcherSafety | 1 channel, 2 uids in 2 revisions, 1 partition, 1 worker, 1 request, all faults, 5 edits | maps agree, no leaked or double consumer, the endpoint is exact, survivors are left alone |
| DispatcherLiveness | 1 channel, 2 uids, groups fail to start and close, messages fail, 5 edits | consumers converge, the lock comes back, `DispatcherSpec` is implemented |
| ProberSafety | 1 pod, 2 partitions of which the spec says 1 or 2, a refresher, all faults, 2 generations, 3 edits | only what was probed for its generation, and the number of partitions it was probed for, is reported |
| ProberLiveness | 2 pods with one partition each, 2 generations, 2 edits | no orphaned probe, no readiness lost but to a reconcile that found no pod, eventually reported |
| ControllerSafety | subscribe and unsubscribe, invalid spec, invalid annotation, delete, Deployment drift, Services changed by others; 2 edits, 1 error | Ready is justified, observed generation is monotone, the finalizer guards probing |
| ControllerLiveness | Deployment, Endpoints and annotation fail and recover; 2 edits, 1 error | Ready follows the children |
| ControllerConverges | subscribe, unsubscribe, delete; 2 edits, 1 error | Status.Subscribers converge, deletion completes |
| EventDelivery | 2 pods of a channel, 1 subscription with any of 4 sets of sinks, 1 partition, 3 records, 1 fault | offsets cover what was handled, groups resume after a delivery, reliable sinks lose nothing, every message from the committed offset on is handled |

Runs that find the code at odds with a comment, a document or a test (details and quotations under
"findings" in `PROJECT.json`):

| Run | The code |
|---|---|
| EndpointHang | a panic in the endpoint leaks a read lock, and consumerUpdateLock is never released |
| PartialAnswer | a pod asked before it has claimed all its partitions is never asked again |
| CacheMutated | the lister's Deployment is modified in place, and a failed update is never repeated |
| Misrouted | an event POSTed to one channel is written to the topic of another and sent to its subscribers |

Some properties hold only on part of the model, and their runs say so by their constants.
NoOrphanedProbes and NoLostReadiness are checked without a refresher: RefreshPodProbing releases
`mu` around probeTarget, and IsReady may store a state in between that one of the two then
overwrites. NoLostReadiness is also checked without CancelPodProbing: the answer to a cancelled item
still counts, but the item is dropped, and its cancellation does not find the last pod when another
has succeeded. Neither runs in the program as it is: the pod informer's handler filters for the
label value "kafka-channel" (`kt/reconciler/controller/controller.go:35`), dispatcher pods have
"kafka-topic-channel" (`resources/dispatcher.go:22`), so RefreshPodProbing is not called for them,
and nothing calls CancelPodProbing. NoLostReadiness excepts a subscription whose last reconcile
found no pod: without the exception TLC finds the lost wake-up, a subscriber cleared between two
states of the Endpoints that nobody looks at again before the resync. EventuallyReported has no such
exception; it holds because of the resync. FinalizerGuardsProbing excepts a FinalizeKind that read a
copy without a subscriber: only the subscribers that the spec lists are cancelled, so one removed
while it is probed is probed until the controller restarts (without the exception TLC finds it).
ReadyIsJustified asks for a valid spec, not for a valid annotation: for a channel that is annotated
badly ReconcileKind returns before it marks anything (`kafkachannel.go:123`), and, the generation
being what it was, Ready and every condition under it keep the values of the last good reconcile for
as long as the annotation is there, whatever the children do (TLC finds the counterexample to the
contrary; StatusFollowsChildren is about channels that Validate accepts). LockEventuallyFree is
checked without requests to the endpoint (EndpointHang is why). EventuallyReported is checked with
one partition per pod (PartialAnswer is why) and one value of numPartitions: a state that counts to
another number than the spec's is not outdated by the edit that corrects it.

The models also contain, without a property about it: the endpoint may read an object other than the
one it has locked; CleanupChannel stops at the first group that fails to close; a sync that has read
a channel before its deletion restores its host and consumers after CleanupChannel, for as long as
the pod lives; a promotion makes a dispatcher serve other channels; a subscriber changed in place
keeps being served with its old revision; updateStatus may undo a patch of Status.Subscribers, which
a later reconcile repeats; a Deployment created anew inherits DispatcherReady until it has an
Available condition; a message whose sinks failed is passed over by the commit of a later one; a
group without a committed offset starts at the newest record, so that what was written before its
first session, or since a crash before its first commit, is not delivered (`ResumesAfterDelivery`,
`CommitsCoverHandled` and `HandledEventually` are about groups that have committed); a topic that
grows past `NumPartitions` between two probes leaves its subscriptions unready.

**Bounds.** Environment edits are bounded (`MaxEdits`), so are revisions (`MaxRev`), generations
(`MaxGen`, `MaxSub`) and failing API calls of the controller (`MaxErrors`). Create, become ready,
add a subscriber, remove it or delete the channel take four edits and a fifth makes the old and the
new incarnation overlap. Two subscriptions are what it takes for one to fail and one to survive;
three `KafkaSubscription` objects let an old one be held by a closing group, another by a request,
and a third serve the channel. Two partitions make "some but not all" possible, two pods a partition
on each. In the controller's safety run two edits and an error reach 4.8 million states;
FinalizerGuardsProbing has also been checked with three edits among subscribe, unsubscribe and
delete, which reach its exception. In `Delivery` three records are one to commit, one to fail and
one to be handled after it, two pods are those of a rolling update, and one fault is enough to hand
a partition over with a message in flight; the safety properties have also been checked with two
faults. In the dispatcher and prober, faults themselves are not bounded. The dispatcher runs have
one channel, with one worker and the informer competing for the lock; for several channels and
workers the invariants are theorems (below). Heap objects are symmetric in the safety runs; no
symmetry is used for liveness. In ChannelController a channel is not created again after deletion,
which is where the runs end, and `Delivery` ends when its records are handled and its faults used
up: they do not check deadlock.

**Fairness.** Goroutines run (WF of workers, informer, probe workers). A consumer group that is
started again and again starts at last, and a probe repeated again and again gets through (SF): the
code retries both for ever, with backoff, and brokers and pods are reachable again at some time. A
group that is being closed leaves its session, as sarama does after Close() once Handle has
returned: here too a sink that never answers would break the assumption, and hold
consumerUpdateLock. Dispatcher pods get their partitions. The informers' resync period passes (WF of
Resync, in `Prober` and in `ChannelController`). For the controller: watches deliver, and a probed
subscription becomes ready, which `Prober` shows under its own conditions. In `Delivery`: a pod
syncs its own channel, a claim's loop runs and its requests are answered (the number of attempts is
bounded, but no attempt has a timeout: a silent sink need never answer, and HandledEventually does
not speak of it), a replaced member notices, the broker expires a crashed member and assigns free
partitions; commits and elections need never happen. Nothing is assumed of the environment's edits,
of failures, or, in `KafkaDispatcher`, of new sessions.

## Proofs

Every invariant and every action property that the passing runs check, and the refinement, is also a
theorem, for all values of the constants: any sets of channels, subscriptions, pods, partitions,
goroutines and heap objects, any faults and any bounds. The named assumptions of the modules only give
types, keep Nil apart, and, in `Prober`, make pods and partitions finite so that they can be
counted. No recursive operator is used.

**KafkaDispatcherProofs.** `TypeCorrect`, `MapsAlwaysAgree`, `NoLeakedConsumers`, `SingleConsumer`
(TypeOK, MapsAgree, OpenGroupsReachable, OneConsumerPerSubscription) and `SurvivorsAreLeftAlone`
(SurvivorsKeepConsuming). MapsAgree and OpenGroupsReachable are not inductive: unsubscribing relies on
a diff computed steps earlier. The inductive invariant `IInv` adds that whoever is in its update phase
holds the lock (`LockInv`), that what it still has to add and remove fits the maps and its config
(`ProcInv`), that an entry of the maps leads to an open group of its uid and no object serves two
channels (`MapInv`), and that a closing group is the one the lock's holder waits for (`GroupInv`) -
which is why there are never two consumers of a subscription. There is one lemma per action; `Frame`
disposes of the steps that leave the maps and the processes alone.

**DispatcherRefinementProofs.** `EndpointIsExact` (ReadyIsExact) and `Refinement` (KeepsPromise).
ReadyIsExact needs that a group without a session claims nothing and a free group is bound to nothing
(`SessionInv`), and that no other group reports for the same uid, which is OneConsumerPerSubscription.
The refinement rests on it in turn: when the last subscription of a channel goes, the list that goes
out of the map with it held nothing for anybody else.

**DeliveryProofs.** `DeliveryTypes`, `ResumePoint`, `NothingLost` (TypeOK, ResumesAfterDelivery,
ReliableSinksLoseNothing) and the action property `CommitsInOrder` (CommitsCoverHandled). What is
committed comes from what a member has marked, and that from what its loop has done, so the
invariant follows the offsets back: the position of a claim and the outcome of Handle (`PosOK`), what
it has marked (`MarkedOK`), and, for the member that the broker takes for the owner only, that
everything from the committed offset to its position is handled (`OwnerOK`). A replaced member may
have marked anything; it cannot commit.

**ChannelControllerProofs.** `ControllerTypes`, `ReadyJustified` (TypeOK, ReadyIsJustified) and the
action properties `FinalizerGuards` and `ObservedGeneration` (FinalizerGuardsProbing,
ObservedNeverRegresses). Ready is justified in every copy of the channel (`ChannelOK`): in the API
server, in the lister and with the worker. The copies are ordered (`CopyInv`, `Copied`): what has
been observed was read from the lister, so no copy a worker still reads is older than the observed
generation. `WorkerInv` says which status the worker may write. The action property FinalizerGuards
holds for any edits, removal of subscribers included: `VersionInv` orders the versions by their
deletion, and `FinalizerInv` says that the object has the finalizer while the worker is in
ReconcileKind, where probing starts, that a lister that shows a cleared finalizer shows the deletion
too, and that before the finalizer is cleared FinalizeKind has cancelled what its copy lists. The
finalizer goes in clearFinalizer alone (`GuardEnds`).

**ProberProofs.** `ProberTypes` (TypeOK) and the action property `ReportsAreProbed`
(ReportsWhatWasProbed), with any callers, refreshers and faults: `StateInv` bounds what success and
cancellation may do to an item and keeps a ready state grounded in its partitions, `RefInv` says that
the map and the goroutines refer to states of their own subscription. `Evolves` sums up what any step
may do to states and items it has not created. `NoOrphans` (NoOrphanedProbes) assumes that there are
no refreshers; then a subscription is worked on by one caller, which creates a state only where there
is none (`CallerInv`), and a state that is probed is held (`HeldInv`).

**ProberWakeupProofs.** `NoLostWakeup` (NoLostReadiness) assumes neither refreshers nor
CancelPodProbing. A state in use that is not ready has only items that are pending, or lacks
partitions (`PendingInv`), so that the last success finds them missing or calls back; a state that
becomes ready before it is stored has its subscription queued, and one that is stored and ready is
reported, pursued, or was missed by a reconcile that found no pod (`ReadyInv`). No theorem denies the
lost wake-up that the dropped error causes.

The hypotheses of NoOrphans and NoLostWakeup are necessary (TLC finds counterexamples to the
properties without them) and describe the program as it is deployed: the two operations they exclude
do not run (see Runs). No other theorem has a hypothesis.

Only model-checked: the liveness properties (ConsumersConverge, LockEventuallyFree,
EventuallyReported, StatusFollowsChildren, SubscribersConverge, DeletionCompletes,
HandledEventually), since TLAPS as installed does no reasoning about fairness or ENABLED.

## Not modelled

Leader election beyond Promote; several channels in one controller (Misrouted has several channels,
but on the dispatchers' side); time (rate limits, backoff, timeouts are scheduling); Kafka client
configuration, metrics, generated clients; the fields of the built resources. Lister errors other
than NotFound do not occur with in-memory listers. newConfigFromKafkaChannel
(`kt/reconciler/dispatcher/kafkachannel.go:183`) ignores the error of SubscriberSpecToFanoutConfig
and would dereference nil for a malformed backoffDelay; the webhook of Subscriptions keeps such a
value out, so the models do not contain it. Requests that the receiver refuses before it has done
anything (method, path, encoding) are left out. The readiness that ConsumeClaim sets and resets is
in `KafkaDispatcher`, not repeated in `Delivery`. The log in `Delivery` is never truncated, so that a
committed offset is always in range: sarama's fallback to Offsets.Initial for one that the broker has
deleted (`vendor/github.com/Shopify/sarama/consumer_group.go:839`), which passes over what was not yet
handled, is outside the offset properties.

## Plan

1. Safety facts that the liveness properties rest on, as theorems: the lock's holder always has a
   step to take or waits for a group that is closing; a subscription in the spec that is not
   consumed is queued or being synced.
2. A composition of `Prober` and `DispatcherSpec` through the endpoint: what is reported ready was
   consumed.
3. Several channels in the controller, with the shared selector labels.
