--------------------------- MODULE ChannelController ---------------------------
(***************************************************************************)
(* The controller of one KafkaTopicChannel: the generated Reconcile          *)
(* (pkg/client/injection/reconciler/.../kafkatopicchannel/reconciler.go)     *)
(* around ReconcileKind and FinalizeKind                                    *)
(* (pkg/channel/kt/reconciler/controller/kafkachannel.go) and the status      *)
(* conditions of pkg/apis/messaging/v1alpha1/kafka_channel_lifecycle.go.     *)
(*                                                                         *)
(* The work queue never hands a key to two workers, so there is one worker.  *)
(* It reads the channel and the Deployment from informer caches that lag       *)
(* behind the API server, and writes to the API server: finalizer and status   *)
(* with the cached resourceVersion, Status.Subscribers by a JSON patch        *)
(* without one. Listers answer from memory: they fail with NotFound only.     *)
(* The prober appears as what IsReady answers (see module Prober).           *)
(***************************************************************************)
EXTENDS Integers

CONSTANTS
    Confs,     \* what users write into the spec: subset of Conf
    Scopes,    \* what users write into the scope annotation: subset of ScopeValues
    Edits,     \* what the environment changes: subset of EditKinds
    MaxSub,    \* bound: generations of the subscriber
    MaxEdits,  \* bound: changes made by the environment
    MaxErrors, \* bound: failing API calls and controller restarts
    Nil        \* absent object

EditKinds == {"subscribe", "unsubscribe", "conf", "annotation", "delete", "deployment", "drift",
              "endpoints", "services"}

\* The fields of the spec that SetDefaults and Validate look at: uris says that every
\* subscriber has a SubscriberURI or a ReplyURI. The scope is an annotation.
Conf == [numPartitions : Int, replicationFactor : Int, uris : BOOLEAN]
Unset == [numPartitions |-> 0, replicationFactor |-> 0, uris |-> TRUE]
ScopeValues == {"none", "namespace", "cluster", "other"}

ASSUME ControllerAssumption ==
    /\ Unset \in Confs /\ Confs \subseteq Conf
    /\ "none" \in Scopes /\ Scopes \subseteq ScopeValues
    /\ Edits \subseteq EditKinds
    /\ MaxSub \in Nat /\ MaxEdits \in Nat /\ MaxErrors \in Nat

VARIABLES
    obj,        \* the channel at the API server, or Nil
    cache,      \* the lister's copy, or Nil
    cacheFresh, \* the copy has the resourceVersion of obj
    origFresh,  \* the copy that the worker has read has the resourceVersion of obj
    dep,        \* the dispatcher's Deployment at the API server, or Nil
    depCache,   \* the lister's copy, or Nil
    depFresh,   \* the copy has the resourceVersion of dep
    rbac,       \* the service account and both role bindings exist
    svc,        \* the dispatcher's Service exists
    endpoints,  \* the Endpoints of that Service
    chSvc,      \* the channel's Service
    probe,      \* the prober's state of the subscriber
    queued,     \* the channel's key is in the work queue
    wk,         \* the worker's locals
    edits, errors

channel  == <<obj, cache, cacheFresh, origFresh>>
children == <<dep, depCache, depFresh, rbac, svc, endpoints, chSvc>>
bounds   == <<edits, errors>>
vars     == <<channel, children, probe, queued, wk, bounds>>

--------------------------------------------------------------------------------
(* Status conditions *)

Dependents == {"Topic", "Dispatcher", "Service", "Endpoints", "Addressable",
               "ChannelService", "Config"}
CondStatus == {"True", "False", "Unknown"}

\* reported: ObservedGeneration in Status.Subscribers, 0 when the subscriber is absent.
Status == [conds : [Dependents -> CondStatus], ready : CondStatus, address : BOOLEAN,
           observed : 0..MaxEdits + 1, reported : 0..MaxSub]
\* A status never written (observed = 0). Unset conditions count as Unknown, which is
\* what InitializeConditions, the first thing every reconcile does, makes of them.
InitialStatus == [conds |-> [t \in Dependents |-> "Unknown"], ready |-> "Unknown",
                  address |-> FALSE, observed |-> 0, reported |-> 0]

\* recomputeHappiness with findUnhappyDependent: False trumps Unknown.
Happiness(conds) ==
    IF \E t \in Dependents : conds[t] = "False" THEN "False"
    ELSE IF \E t \in Dependents : conds[t] = "Unknown" THEN "Unknown"
    ELSE "True"

MarkTrue(s, t) ==
    LET conds == [s.conds EXCEPT ![t] = "True"]
    IN  [s EXCEPT !.conds = conds, !.ready = Happiness(conds)]

MarkFalse(s, t) == [s EXCEPT !.conds[t] = "False", !.ready = "False"]

\* Of the top-level condition: it becomes Unknown unless a dependent is False.
MarkReadyUnknown(s) ==
    [s EXCEPT !.ready = IF \E t \in Dependents : s.conds[t] = "False" THEN "False"
                        ELSE "Unknown"]
MarkUnknown(s, t) == MarkReadyUnknown([s EXCEPT !.conds[t] = "Unknown"])

\* A Deployment without an Available condition leaves the status as it is.
PropagateDispatcherStatus(s, available) ==
    CASE available = "none"    -> s
      [] available = "True"    -> MarkTrue(s, "Dispatcher")
      [] available = "False"   -> MarkFalse(s, "Dispatcher")
      [] available = "Unknown" -> MarkUnknown(s, "Dispatcher")

SetAddress(s) == MarkTrue([s EXCEPT !.address = TRUE], "Addressable")

--------------------------------------------------------------------------------
(* State *)

DefaultTo1(n) == IF n = 0 THEN 1 ELSE n
SetDefaults(conf) == [conf EXCEPT !.numPartitions = DefaultTo1(@),
                                  !.replicationFactor = DefaultTo1(@)]
\* What Validate asks of the spec, and of the whole object.
ValidSpec(conf) == conf.numPartitions > 0 /\ conf.replicationFactor > 0 /\ conf.uris
Validate(ch) == ValidSpec(SetDefaults(ch.conf)) /\ ch.scope # "other"

\* sub: generation of the one subscriber in the spec, 0 when it lists none.
Channel == [gen : 1..MaxEdits + 1, sub : 0..MaxSub, conf : Confs, scope : Scopes,
            deleting : BOOLEAN, finalizer : BOOLEAN, status : Status]
NewChannel == [gen |-> 1, sub |-> 0, conf |-> Unset, scope |-> "none",
               deleting |-> FALSE, finalizer |-> FALSE, status |-> InitialStatus]

\* "drifted": another image or no replica; "noContainer": no dispatcher container.
Deployment == [spec : {"expected", "drifted", "noContainer"},
               available : CondStatus \cup {"none"}]
NewDeployment == [spec |-> "expected", available |-> "none"]

NotProbed == [gen |-> 0, ready |-> FALSE]

\* was: the status read from the lister; res: the copy being reconciled; outcome: nil or
\* a ReconcilerEvent ("ok"), or an error, which puts the key back into the queue.
Idle == [pc |-> "idle", was |-> Nil, res |-> Nil, outcome |-> "ok"]
Worker == [pc : {"idle", "finalizer", "rbac", "deployment", "service", "endpoints", "channelService",
                 "subscribers", "clear", "status", "retry"},
           was : Status \cup {Nil}, res : Channel \cup {Nil}, outcome : {"ok", "error"}]

ASSUME NilAssumption == Nil \notin Channel /\ Nil \notin Status /\ Nil \notin Deployment

Init ==
    /\ obj = NewChannel /\ cache = Nil /\ cacheFresh = FALSE /\ origFresh = FALSE
    /\ dep = Nil /\ depCache = Nil /\ depFresh = TRUE
    /\ rbac = FALSE /\ svc = FALSE /\ endpoints = "absent" /\ chSvc = "absent"
    /\ probe = NotProbed
    /\ queued = FALSE
    /\ wk = Idle
    /\ edits = 0 /\ errors = 0

--------------------------------------------------------------------------------
(* Environment *)

Edit(kind) == /\ kind \in Edits /\ edits < MaxEdits /\ edits' = edits + 1
              /\ UNCHANGED <<probe, wk, errors>>

\* A write to the channel at the API server: the copies are out of date.
Write(new) == obj' = new /\ cacheFresh' = FALSE /\ origFresh' = FALSE /\ UNCHANGED cache

\* The generation counts the versions of the spec, and the deletion, not other metadata.
EditSpec(kind, sub, conf) ==
    /\ Edit(kind)
    /\ obj # Nil
    /\ Write([obj EXCEPT !.gen = @ + 1, !.sub = sub, !.conf = conf])
    /\ UNCHANGED <<children, queued>>

EditAnnotation(scope) ==
    /\ Edit("annotation")
    /\ obj # Nil
    /\ Write([obj EXCEPT !.scope = scope])
    /\ UNCHANGED <<children, queued>>

\* Without a finalizer the object is gone at once.
DeleteChannel ==
    /\ Edit("delete")
    /\ obj # Nil /\ ~obj.deleting
    /\ Write(IF obj.finalizer THEN [obj EXCEPT !.gen = @ + 1, !.deleting = TRUE] ELSE Nil)
    /\ UNCHANGED <<children, queued>>

\* The channel's informer: the handler enqueues the key. A watch may skip versions.
WatchChannel ==
    /\ ~cacheFresh
    /\ cache' = obj /\ cacheFresh' = TRUE
    /\ queued' = TRUE
    /\ UNCHANGED <<obj, origFresh, children, probe, wk, bounds>>

\* The Deployment is created, changed or removed by somebody else, or its controller
\* reports its availability.
EditDeployment(kind, new) ==
    /\ Edit(kind)
    /\ new # dep /\ new # NewDeployment
    /\ dep' = new /\ depFresh' = FALSE
    /\ UNCHANGED <<channel, depCache, rbac, svc, endpoints, chSvc, queued>>

\* The Deployment's informer: an owned object makes the controller resync all channels.
WatchDeployment ==
    /\ ~depFresh
    /\ depCache' = dep /\ depFresh' = TRUE
    /\ queued' = TRUE
    /\ UNCHANGED <<channel, dep, rbac, svc, endpoints, chSvc, probe, wk, bounds>>

\* The Endpoints belong to no channel: their events do not pass the filter.
EditEndpoints(e) ==
    /\ Edit("endpoints")
    /\ e # endpoints
    /\ endpoints' = e
    /\ UNCHANGED <<channel, dep, depCache, depFresh, rbac, svc, chSvc, queued>>

\* The Services are changed or removed; events of owned ones cause a resync. A Service
\* that the channel does not own is "foreign" ("foreignDrifted" with another spec).
RemoveDispatcherService ==
    /\ Edit("services")
    /\ svc /\ svc' = FALSE
    /\ queued' = TRUE
    /\ UNCHANGED <<channel, dep, depCache, depFresh, rbac, endpoints, chSvc>>

EditChannelService(c) ==
    /\ Edit("services")
    /\ c # chSvc
    /\ c = "drifted" => chSvc = "ok"
    /\ chSvc' = c
    /\ queued' = (queued \/ {c, chSvc} \cap {"ok", "drifted"} # {})
    /\ UNCHANGED <<channel, dep, depCache, depFresh, rbac, svc, endpoints>>

\* The cluster's own controllers: the pods of a new Deployment start, and the Service gets
\* Endpoints.
PodsStart ==
    /\ dep # Nil /\ dep.available = "none"
    /\ dep' = [dep EXCEPT !.available = "True"] /\ depFresh' = FALSE
    /\ UNCHANGED <<channel, depCache, rbac, svc, endpoints, chSvc, probe, queued, wk, bounds>>
EndpointsAppear ==
    /\ svc /\ dep # Nil /\ dep.available = "True" /\ endpoints = "absent"
    /\ endpoints' = "ready"
    /\ UNCHANGED <<channel, dep, depCache, depFresh, rbac, svc, chSvc, probe, queued, wk, bounds>>

\* The informers' periodic resync.
Resync ==
    /\ cache # Nil
    /\ queued' = TRUE
    /\ UNCHANGED <<channel, children, probe, wk, bounds>>

\* All partitions of the subscription have been found consumed: readyCallback.
ProbeSucceeds ==
    /\ probe.gen # 0 /\ ~probe.ready
    /\ probe' = [probe EXCEPT !.ready = TRUE]
    /\ queued' = TRUE
    /\ UNCHANGED <<channel, children, wk, bounds>>

\* The controller is restarted: it lists everything and enqueues every channel.
Restart ==
    /\ errors < MaxErrors /\ errors' = errors + 1
    /\ cache' = obj /\ cacheFresh' = TRUE
    /\ depCache' = dep /\ depFresh' = TRUE
    /\ probe' = NotProbed
    /\ queued' = (obj # Nil)
    /\ wk' = Idle
    /\ UNCHANGED <<obj, origFresh, dep, rbac, svc, endpoints, chSvc, edits>>

--------------------------------------------------------------------------------
(* Reconcile: up to ReconcileKind and FinalizeKind *)

\* What an API call may do besides answering: fail, within the bound.
Fails == errors < MaxErrors /\ errors' = errors + 1 /\ UNCHANGED edits

Goto(pc, res) == wk' = [wk EXCEPT !.pc = pc, !.res = res]

\* Mutants: one generation too many is observed; an error forgets the generation.
EndObservesNext(s, outcome) ==
    wk' = [wk EXCEPT !.pc = "status", !.outcome = outcome,
                     !.res.status = [s EXCEPT !.observed = wk.res.gen + 1]]
EndForgets(s, outcome) ==
    wk' = [wk EXCEPT !.pc = "status", !.outcome = outcome,
                     !.res.status = [s EXCEPT !.observed = IF outcome = "error" THEN 0
                                                           ELSE wk.res.gen]]

\* The end of ReconcileKind with the status s: PostProcessReconcile follows.
End(s, outcome) ==
    wk' = [wk EXCEPT !.pc = "status", !.outcome = outcome,
                     !.res.status = [s EXCEPT !.observed = wk.res.gen]]

\* The end of Reconcile.
Return(outcome) == wk' = Idle /\ queued' = (queued \/ outcome = "error")

\* Mutant: FinalizeKind does not cancel the probing.
DequeueKeepsProbing ==
    /\ wk.pc = "idle" /\ queued
    /\ queued' = FALSE
    /\ origFresh' = cacheFresh
    /\ IF cache = Nil THEN wk' = wk
       ELSE wk' = [Idle EXCEPT !.pc = IF cache.deleting THEN "clear" ELSE "finalizer",
                               !.was = cache.status, !.res = cache]
    /\ UNCHANGED <<obj, cache, cacheFresh, children, probe, bounds>>

\* FinalizeKind cancels the probing of the subscribers that the copy ch lists.
FinalizeKind(ch) == IF ch.sub # 0 THEN NotProbed ELSE probe

\* Reconcile reads the channel from the lister. A channel being deleted is finalized.
Dequeue ==
    /\ wk.pc = "idle" /\ queued
    /\ queued' = FALSE
    /\ origFresh' = cacheFresh
    /\ IF cache = Nil THEN UNCHANGED <<wk, probe>>
       ELSE /\ wk' = [Idle EXCEPT !.pc = IF cache.deleting THEN "clear" ELSE "finalizer",
                                  !.was = cache.status, !.res = cache]
            /\ probe' = IF cache.deleting THEN FinalizeKind(cache) ELSE probe
    /\ UNCHANGED <<obj, cache, cacheFresh, children, bounds>>

\* updateFinalizersFiltered patches with the resourceVersion that the lister has now.
PatchApplies == cache # Nil /\ obj # Nil /\ cacheFresh

\* Mutant: the finalizer stays on a channel with a subscriber.
ClearFinalizerUnlessSubscribed ==
    /\ wk.pc = "clear"
    /\ IF PatchApplies /\ wk.res.sub = 0
       THEN Write(Nil) /\ Goto("status", [obj EXCEPT !.finalizer = FALSE])
       ELSE UNCHANGED channel /\ Goto("status", wk.res)
    /\ UNCHANGED <<children, probe, queued, bounds>>

\* clearFinalizer: the object goes with its last finalizer.
ClearFinalizer ==
    /\ wk.pc = "clear"
    /\ \/ /\ cache # Nil /\ ~cache.finalizer
          /\ Goto("status", wk.res)
          /\ UNCHANGED <<channel, queued, bounds>>
       \/ /\ PatchApplies /\ cache.finalizer
          /\ Write(Nil)
          /\ Goto("status", [obj EXCEPT !.finalizer = FALSE])
          /\ UNCHANGED <<queued, bounds>>
       \/ /\ ~PatchApplies /\ (cache # Nil => cache.finalizer) /\ UNCHANGED bounds
          /\ Return("error") /\ UNCHANGED channel
       \/ /\ cache # Nil /\ cache.finalizer /\ Fails
          /\ Return("error") /\ UNCHANGED channel
    /\ UNCHANGED <<children, probe>>

\* Mutant: a new generation leaves the Ready of the last one.
StartKeepsReady(r) ==
    LET marked == MarkTrue(MarkTrue(r.status, "Config"), "Topic")
    IN  wk' = IF Validate(r)
              THEN [wk EXCEPT !.pc = "rbac", !.res = [r EXCEPT !.status = marked]]
              ELSE [wk EXCEPT !.pc = "status", !.outcome = "error",
                              !.res = [r EXCEPT !.status.observed = r.gen]]

\* PreProcessReconcile and the beginning of ReconcileKind, which gives up on a channel that
\* Validate rejects and marks nothing.
Start(r) ==
    LET s == IF r.status.observed # r.gen THEN MarkReadyUnknown(r.status) ELSE r.status
        marked == MarkTrue(MarkTrue(s, "Config"), "Topic")
    IN  wk' = IF Validate(r)
              THEN [wk EXCEPT !.pc = "rbac", !.res = [r EXCEPT !.status = marked]]
              ELSE [wk EXCEPT !.pc = "status", !.outcome = "error",
                              !.res = [r EXCEPT !.status = [s EXCEPT !.observed = r.gen]]]

\* setFinalizerIfFinalizer: once patched, the server's answer is reconciled.
SetFinalizer ==
    /\ wk.pc = "finalizer"
    /\ \/ /\ cache # Nil /\ cache.finalizer
          /\ Start([wk.res EXCEPT !.finalizer = TRUE])
          /\ UNCHANGED <<channel, queued, bounds>>
       \/ /\ PatchApplies /\ ~cache.finalizer
          /\ Write([obj EXCEPT !.finalizer = TRUE])
          /\ Start([obj EXCEPT !.finalizer = TRUE])
          /\ UNCHANGED <<queued, bounds>>
       \/ /\ ~PatchApplies /\ (cache # Nil => ~cache.finalizer) /\ UNCHANGED bounds
          /\ Return("error") /\ UNCHANGED channel
       \/ /\ cache # Nil /\ ~cache.finalizer /\ Fails
          /\ Return("error") /\ UNCHANGED channel
    /\ UNCHANGED <<children, probe>>

--------------------------------------------------------------------------------
(* ReconcileKind: the children of the channel, one after the other *)

\* reconcileServiceAccount and reconcileRoleBinding, twice. The failure is a
\* ReconcilerEvent: the key is not requeued for it.
ReconcileRBAC ==
    /\ wk.pc = "rbac"
    /\ \/ /\ rbac' = TRUE
          /\ Goto("deployment", wk.res)
          /\ UNCHANGED bounds
       \/ /\ ~rbac /\ Fails /\ UNCHANGED rbac
          /\ End(MarkFalse(wk.res.status, "Dispatcher"), "ok")
    /\ UNCHANGED <<channel, dep, depCache, depFresh, svc, endpoints, chSvc, probe, queued>>

\* reconcileDispatcher propagates the status of the Deployment d.
Propagate(d) ==
    Goto("service", [wk.res EXCEPT !.status = PropagateDispatcherStatus(@, d.available)])

CreateDeployment ==
    /\ depCache = Nil /\ UNCHANGED depCache
    /\ \/ /\ dep = Nil /\ UNCHANGED bounds
          /\ dep' = NewDeployment /\ depFresh' = FALSE
          /\ Propagate(NewDeployment)
       \/ /\ (dep # Nil /\ UNCHANGED bounds) \/ Fails
          /\ End(MarkFalse(wk.res.status, "Dispatcher"), "ok")
          /\ UNCHANGED <<dep, depFresh>>

\* The update of a Deployment without the container is unconditional. Otherwise the
\* image and the replicas are corrected in the lister's own object, which is sent.
UpdateDeployment ==
    /\ depCache # Nil /\ depCache.spec # "expected"
    /\ depCache' = IF depCache.spec = "drifted" THEN [depCache EXCEPT !.spec = "expected"]
                   ELSE depCache
    /\ LET applies == dep # Nil /\ (depCache.spec = "drifted" => depFresh) IN
       \/ /\ applies /\ UNCHANGED bounds
          /\ dep' = [dep EXCEPT !.spec = "expected"] /\ depFresh' = FALSE
          /\ Propagate(dep)
       \/ /\ (~applies /\ UNCHANGED bounds) \/ Fails
          /\ End(MarkFalse(wk.res.status, "Service"), "ok")
          /\ UNCHANGED <<dep, depFresh>>

KeepDeployment ==
    /\ depCache # Nil /\ depCache.spec = "expected"
    /\ Propagate(depCache)
    /\ UNCHANGED <<dep, depCache, depFresh, bounds>>

ReconcileDispatcher ==
    /\ wk.pc = "deployment"
    /\ CreateDeployment \/ UpdateDeployment \/ KeepDeployment
    /\ UNCHANGED <<channel, rbac, svc, endpoints, chSvc, probe, queued>>

\* The Service is created where it is missing, and its event causes a resync.
ReconcileDispatcherService ==
    /\ wk.pc = "service"
    /\ \/ /\ svc' = TRUE /\ queued' = (queued \/ ~svc) /\ UNCHANGED bounds
          /\ Goto("endpoints", [wk.res EXCEPT !.status = MarkTrue(@, "Service")])
       \/ /\ ~svc /\ Fails /\ UNCHANGED <<svc, queued>>
          /\ End(MarkFalse(wk.res.status, "Service"), "error")
    /\ UNCHANGED <<channel, dep, depCache, depFresh, rbac, endpoints, chSvc, probe>>

\* Mutant: Endpoints without subsets are not noticed.
CheckEndpointsExist ==
    /\ wk.pc = "endpoints"
    /\ IF endpoints # "absent"
       THEN Goto("channelService", [wk.res EXCEPT !.status = MarkTrue(@, "Endpoints")])
       ELSE End(MarkFalse(wk.res.status, "Endpoints"), "error")
    /\ UNCHANGED <<channel, children, probe, queued, bounds>>

CheckEndpoints ==
    /\ wk.pc = "endpoints"
    /\ IF endpoints = "ready"
       THEN Goto("channelService", [wk.res EXCEPT !.status = MarkTrue(@, "Endpoints")])
       ELSE End(MarkFalse(wk.res.status, "Endpoints"), "error")
    /\ UNCHANGED <<channel, children, probe, queued, bounds>>

\* reconcileChannelService: a missing Service is created, another spec is replaced, then
\* the owner is checked. A failed update marks nothing.
ReconcileChannelService ==
    LET s == wk.res.status
        owned == chSvc \in {"absent", "ok", "drifted"}
    IN  /\ wk.pc = "channelService"
        /\ \/ /\ chSvc' = IF owned THEN "ok" ELSE "foreign"
              /\ queued' = (queued \/ (owned /\ chSvc # "ok"))
              /\ IF owned
                 THEN Goto("subscribers", [wk.res EXCEPT !.status =
                                              SetAddress(MarkTrue(s, "ChannelService"))])
                 ELSE End(MarkFalse(s, "ChannelService"), "error")
              /\ UNCHANGED bounds
           \/ /\ chSvc \in {"absent", "drifted", "foreignDrifted"} /\ Fails
              /\ End(IF chSvc = "absent" THEN MarkFalse(s, "ChannelService") ELSE s, "error")
              /\ UNCHANGED <<chSvc, queued>>
        /\ UNCHANGED <<channel, dep, depCache, depFresh, rbac, svc, endpoints, probe>>

\* The JSON patch that makes the server's Status.Subscribers what "after" says. It is made
\* against the copy: "add" needs the server to have a status, "replace" and "remove"
\* need it to have subscribers.
PatchSubscribers(r, after) ==
    LET empty == after = r.status.reported
        applies == /\ obj # Nil
                   /\ IF r.status.reported = 0 THEN obj.status.observed # 0
                      ELSE obj.status.reported # 0
    IN  \/ /\ empty /\ End(r.status, "ok") /\ UNCHANGED <<channel, bounds>>
        \/ /\ ~empty /\ applies /\ End(r.status, "ok") /\ UNCHANGED bounds
           /\ IF obj.status.reported = after THEN UNCHANGED channel
              ELSE Write([obj EXCEPT !.status.reported = after])
        \/ /\ ~empty /\ ((~applies /\ UNCHANGED bounds) \/ Fails)
           /\ End(r.status, "error") /\ UNCHANGED channel

\* What IsReady answers for the subscriber of r.
IsReady(r) == r.sub # 0 /\ probe.gen = r.sub /\ probe.ready

\* Mutant: a subscriber is never taken out of the status.
ReconcileSubscribersOnlyAdds ==
    LET r == wk.res IN
    /\ wk.pc = "subscribers"
    /\ probe' = IF r.sub = 0 \/ probe.gen = r.sub THEN probe ELSE [gen |-> r.sub, ready |-> FALSE]
    /\ PatchSubscribers(r, IF IsReady(r) THEN r.sub ELSE r.status.reported)
    /\ UNCHANGED <<children, queued>>

\* reconcileSubscribers asks IsReady, which starts probing a generation it does not know,
\* and patches the subscribers of the server, not those of the copy.
ReconcileSubscribers ==
    LET r == wk.res IN
    /\ wk.pc = "subscribers"
    /\ probe' = IF r.sub = 0 \/ probe.gen = r.sub THEN probe ELSE [gen |-> r.sub, ready |-> FALSE]
    /\ PatchSubscribers(r, IF IsReady(r) THEN r.sub ELSE 0)
    /\ UNCHANGED <<children, queued>>

--------------------------------------------------------------------------------
(* Reconcile: the status *)

\* updateStatus, first attempt, with the resourceVersion of the lister's copy.
UpdateStatus ==
    /\ wk.pc = "status"
    /\ \/ /\ wk.res.status = wk.was
          /\ Return(wk.outcome) /\ UNCHANGED <<channel, bounds>>
       \/ /\ wk.res.status # wk.was /\ obj # Nil /\ origFresh
          /\ Write([obj EXCEPT !.status = wk.res.status])
          /\ Return(wk.outcome) /\ UNCHANGED bounds
       \/ /\ wk.res.status # wk.was /\ obj # Nil /\ ~origFresh  \* a conflict
          /\ wk' = [wk EXCEPT !.pc = "retry"]
          /\ UNCHANGED <<channel, queued, bounds>>
       \/ /\ wk.res.status # wk.was
          /\ (obj = Nil /\ UNCHANGED bounds) \/ Fails
          /\ Return("error") /\ UNCHANGED channel
    /\ UNCHANGED <<children, probe>>

\* A later attempt gets the object and puts the whole status over it; an attempt that
\* meets another conflict is repeated.
RetryUpdateStatus ==
    /\ wk.pc = "retry"
    /\ \/ /\ obj # Nil
          /\ IF obj.status = wk.res.status THEN UNCHANGED channel
             ELSE Write([obj EXCEPT !.status = wk.res.status])
          /\ Return(wk.outcome) /\ UNCHANGED bounds
       \/ /\ (obj = Nil /\ UNCHANGED bounds) \/ Fails
          /\ Return("error") /\ UNCHANGED channel
    /\ UNCHANGED <<children, probe>>

--------------------------------------------------------------------------------
Environment ==
    \/ \E sub \in 1..MaxSub : obj # Nil /\ sub > obj.sub /\ EditSpec("subscribe", sub, obj.conf)
    \/ obj # Nil /\ obj.sub # 0 /\ EditSpec("unsubscribe", 0, obj.conf)
    \/ obj # Nil /\ \E conf \in Confs \ {obj.conf} : EditSpec("conf", obj.sub, conf)
    \/ obj # Nil /\ \E scope \in Scopes \ {obj.scope} : EditAnnotation(scope)
    \/ DeleteChannel
    \/ EditDeployment("deployment", Nil)
    \/ dep # Nil /\ \E a \in CondStatus : EditDeployment("deployment", [dep EXCEPT !.available = a])
    \/ dep # Nil /\ \E d \in {"drifted", "noContainer"} : EditDeployment("drift", [dep EXCEPT !.spec = d])
    \/ \E e \in {"absent", "empty", "ready"} : EditEndpoints(e)
    \/ RemoveDispatcherService
    \/ \E c \in {"absent", "drifted", "foreign", "foreignDrifted"} : EditChannelService(c)
    \/ PodsStart \/ EndpointsAppear
    \/ Restart

Informers == WatchChannel \/ WatchDeployment

WorkerStep ==
    \/ Dequeue \/ SetFinalizer \/ ClearFinalizer
    \/ ReconcileRBAC \/ ReconcileDispatcher \/ ReconcileDispatcherService
    \/ CheckEndpoints \/ ReconcileChannelService \/ ReconcileSubscribers
    \/ UpdateStatus \/ RetryUpdateStatus

Next == Environment \/ Informers \/ Resync \/ ProbeSucceeds \/ WorkerStep

Spec == Init /\ [][Next]_vars

\* The worker runs, watches deliver, the resync period passes, and a probed subscription
\* becomes ready (module Prober, EventuallyReported).
FairSpec ==
    Spec /\ WF_vars(WorkerStep) /\ WF_vars(WatchChannel) /\ WF_vars(WatchDeployment)
         /\ WF_vars(Resync) /\ WF_vars(ProbeSucceeds)

--------------------------------------------------------------------------------
(* Properties *)

\* Types, the observed generation among those that exist; a copy with the resourceVersion
\* of the object equals it.
TypeOK ==
    /\ obj \in Channel \cup {Nil}
    /\ cache \in Channel \cup {Nil}
    /\ cacheFresh \in BOOLEAN /\ origFresh \in BOOLEAN
    /\ cacheFresh => cache = obj
    /\ dep \in Deployment \cup {Nil} /\ depCache \in Deployment \cup {Nil} /\ depFresh \in BOOLEAN
    /\ rbac \in BOOLEAN /\ svc \in BOOLEAN
    /\ endpoints \in {"absent", "empty", "ready"}
    /\ chSvc \in {"absent", "ok", "drifted", "foreign", "foreignDrifted"}
    /\ probe \in [gen : 0..MaxSub, ready : BOOLEAN]
    /\ queued \in BOOLEAN
    /\ wk \in Worker
    /\ edits \in 0..MaxEdits /\ errors \in 0..MaxErrors

\* A stored Ready is no leftover of another spec: it is True only with every condition True
\* and an address, and, once the generation is observed, only for a spec that is valid.
\* (The marks come one by one from a copy that still holds the last status, and the status
\* may be put over a newer object. No generation counts the annotation: Ready stays as it was
\* when Validate rejects it.)
ReadyIsJustified ==
    (obj # Nil /\ obj.status.ready = "True") =>
        /\ \A t \in Dependents : obj.status.conds[t] = "True"
        /\ obj.status.address
        /\ obj.status.observed = obj.gen => ValidSpec(SetDefaults(obj.conf))

\* The finalizer guards the prober: no probing starts but for a channel that exists with the
\* finalizer, whatever copy the worker reads; and when a step takes the finalizer or the
\* channel away, nothing is probed any more, unless the copy that FinalizeKind read lists no
\* subscriber (one removed from the spec is never cancelled).
Guarded == obj # Nil /\ obj.finalizer
FinalizerGuardsProbing ==
    [][/\ probe.gen = 0 /\ probe'.gen # 0 => Guarded'
       /\ Guarded /\ ~Guarded' /\ probe'.gen # 0 => wk.res.sub = 0]_vars

\* ObservedGeneration never goes back, although a status computed from an old copy may be
\* put over a newer object.
ObservedNeverRegresses ==
    [][(obj # Nil /\ obj' # Nil) => obj'.status.observed >= obj.status.observed]_vars

\* The children are as they should be; one of them stops the channel from being ready.
Served == /\ obj # Nil /\ ~obj.deleting /\ Validate(obj)
          /\ dep # Nil /\ dep.available = "True"
          /\ endpoints = "ready" /\ chSvc \notin {"foreign", "foreignDrifted"}
Broken == /\ obj # Nil /\ ~obj.deleting /\ Validate(obj)
          /\ endpoints # "ready" \/ (dep # Nil /\ dep.available = "False")

\* Whatever happened before: once the children stay fine the channel becomes and stays
\* Ready, and once the Endpoints stay without subsets, or the Deployment unavailable, it
\* stops being Ready for good. (Subsets that hold only addresses not ready count as
\* Endpoints here, as they do at kafkachannel.go:161.)
StatusFollowsChildren ==
    /\ <>[]Served => <>[](obj # Nil /\ obj.status.ready = "True")
    /\ <>[]Broken => <>[](obj # Nil /\ obj.status.ready # "True")

\* Status.Subscribers converge to the generation of the spec, or to nothing when the
\* subscriber has been removed, although updateStatus may undo a patch.
SubscribersConverge ==
    <>[]Served => <>[](obj # Nil /\ obj.status.reported = obj.sub)

\* A deleted channel goes away, whatever is wrong with its children.
DeletionCompletes == (obj # Nil /\ obj.deleting) ~> (obj = Nil)

\* kafkachannel.go:295 and :301: an image that is not the expected one and missing
\* replicas are corrected.
DeploymentRepaired == []<>(dep = Nil \/ obj = Nil \/ dep.spec # "drifted")
================================================================================
