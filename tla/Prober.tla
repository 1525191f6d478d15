--------------------------------- MODULE Prober --------------------------------
(***************************************************************************)
(* The status prober of the controller (pkg/channel/kt/status/status.go),   *)
(* called from reconcileSubscribers.                                        *)
(*                                                                         *)
(* For a subscription it does not know, IsReady creates a targetState and    *)
(* one work item per dispatcher pod; worker goroutines probe the             *)
(* subscription endpoint of each pod, collect the ready partitions and call   *)
(* readyCallback when all partitions of the topic are there, which makes the  *)
(* controller call IsReady again and report the subscription as ready.      *)
(*                                                                         *)
(* Goroutines: Callers (the controller's workers), Refreshers (the pod       *)
(* informer's handler), the probe workers, and per work item a goroutine      *)
(* that waits for its cancellation. A subscription stands for the channel     *)
(* that lists it: the controller's queue holds uids.                        *)
(***************************************************************************)
EXTENDS Integers, FiniteSets

CONSTANTS
    UIDs,          \* subscriptions, each of a channel of its own
    Pods,          \* IPs of dispatcher pods
    Partitions,    \* partitions of the topic
    MayClaim,      \* [Partitions -> SUBSET Pods], who may come to consume one
    NumPartitions, \* values that users give to Spec.NumPartitions
    States,        \* heap of *targetState objects
    Callers,       \* workers of the controller
    Refreshers,    \* goroutines that may run RefreshPodProbing
    Faults,        \* failures explored: subset of FaultKinds
    MaxGen,        \* bound: generations of a subscriber
    MaxEdits,      \* bound: changes made by the environment
    Nil

FaultKinds == {"error", "abandon", "cancelPod", "unclaim"}
Procs == Callers \cup Refreshers

ASSUME ProberAssumption ==
    /\ IsFiniteSet(Pods) /\ IsFiniteSet(Partitions)
    /\ MayClaim \in [Partitions -> SUBSET Pods]
    /\ NumPartitions \subseteq Nat \ {0} /\ MaxGen \in Nat /\ MaxEdits \in Nat
    /\ Faults \subseteq FaultKinds
    /\ Callers \cap Refreshers = {}
    /\ Nil \notin States \cup UIDs

VARIABLES
    gen,          \* Generation of the subscriber in the spec; 0: not listed
    num,          \* Spec.NumPartitions of its channel
    finalizing,   \* uids whose channel has a deletion timestamp
    endpoints,    \* addresses in the dispatcher service's Endpoints
    serving,      \* [pod -> [uid -> ready partitions]], what the endpoint answers
    edits,        \* changes made so far
    queue,        \* the controller's work queue
    reported,     \* uid -> ObservedGeneration in Status.Subscribers, 0 when absent
    targetStates, \* uid -> *targetState, or Nil
    state,        \* the targetState objects
    item,         \* [state -> [pod -> work item with its podState]]
    proc,         \* locals of Callers and Refreshers
    missed        \* history: uids whose last reconcile found no pod to probe

env  == <<gen, num, finalizing, endpoints, serving, edits>>
vars == <<env, queue, reported, targetStates, state, item, proc, missed>>

--------------------------------------------------------------------------------
(* Data *)

\* A work item: where it is (in the queue or with a probe worker), what the verifier
\* returned, podState.pendingCount, whether its context is done, and whether the
\* goroutine waiting for the cancellation is still there.
NoItem == [at |-> "none", ok |-> FALSE, count |-> 0, done |-> FALSE, waiting |-> FALSE]
NewItem == [at |-> "queued", ok |-> FALSE, count |-> 1, done |-> FALSE, waiting |-> TRUE]
ItemRecord == [at : {"none", "queued", "answered", "success"}, ok : BOOLEAN,
               count : -1..1, done : BOOLEAN, waiting : BOOLEAN]

\* A targetState; num is the number of partitions in its copy of the channel.
StateRecord == [uid : UIDs \cup {Nil}, gen : 0..MaxGen, num : NumPartitions \cup {0},
                probedPods : SUBSET Pods, pendingCount : Int,
                readyPartitions : SUBSET Partitions, ready : BOOLEAN]
NoState == [uid |-> Nil, gen |-> 0, num |-> 0, probedPods |-> {}, pendingCount |-> 0,
            readyPartitions |-> {}, ready |-> FALSE]

\* IsReady and RefreshPodProbing: the subscription and the targets they work on, the
\* state they have created and not yet stored, the states left to refresh.
IdleProc == [pc |-> "idle", uid |-> Nil, gen |-> 0, num |-> 0, target |-> {}, new |-> Nil,
             todo |-> {}]
ProcRecord == [pc : {"idle", "lookup", "eject", "probe", "store", "loop", "relock"},
               uid : UIDs \cup {Nil}, gen : 0..MaxGen, num : NumPartitions \cup {0},
               target : SUBSET Pods, new : States \cup {Nil}, todo : SUBSET States]

Init ==
    /\ gen = [u \in UIDs |-> 0] /\ finalizing = {}
    /\ num \in [UIDs -> NumPartitions]
    /\ endpoints = Pods
    /\ serving = [d \in Pods |-> [u \in UIDs |-> {}]]
    /\ edits = 0
    /\ queue = {}
    /\ reported = [u \in UIDs |-> 0]
    /\ targetStates = [u \in UIDs |-> Nil]
    /\ state = [t \in States |-> NoState]
    /\ item = [t \in States |-> [d \in Pods |-> NoItem]]
    /\ proc = [p \in Procs |-> IdleProc]
    /\ missed = {}

\* mu is held across steps only by a refresher inside its loop.
MuFree == \A r \in Refreshers : proc[r].pc # "loop"

\* The value of ready after checkReadiness, which is sticky. The number of partitions is
\* that of the channel the state was created for.
checkReadiness(s) == s.ready \/ Cardinality(s.readyPartitions) = s.num

\* Mutant: the generation is not compared.
OutdatedByPodsOnly(s, g, podIPs) == ~s.ready /\ s.probedPods # podIPs

isOutdatedTargetState(s, g, podIPs) == s.gen # g \/ (~s.ready /\ s.probedPods # podIPs)

\* state.cancel() ends the contexts of all items of the state.
CancelItems(items) == [d \in Pods |-> [items[d] EXCEPT !.done = @ \/ items[d].waiting]]

--------------------------------------------------------------------------------
(* Environment: the spec, the endpoints and the dispatcher pods *)

Bounded == edits < MaxEdits /\ edits' = edits + 1
EnvEdit == /\ Bounded
           /\ UNCHANGED <<reported, targetStates, state, item, proc, missed>>

\* A subscriber is added or its spec changes: the channel's event enqueues it.
ChangeSpec(u) ==
    /\ EnvEdit /\ u \notin finalizing
    /\ gen[u] < MaxGen
    /\ gen' = [gen EXCEPT ![u] = @ + 1]
    /\ queue' = queue \cup {u}
    /\ UNCHANGED <<num, finalizing, endpoints, serving>>

\* Its channel gets another number of partitions; the subscriber's generation stays.
ChangePartitions(u, n) ==
    /\ EnvEdit /\ gen[u] # 0 /\ u \notin finalizing
    /\ n # num[u]
    /\ num' = [num EXCEPT ![u] = n]
    /\ queue' = queue \cup {u}
    /\ UNCHANGED <<gen, finalizing, endpoints, serving>>

DeleteChannel(u) ==
    /\ EnvEdit /\ gen[u] # 0 /\ u \notin finalizing
    /\ finalizing' = finalizing \cup {u}
    /\ queue' = queue \cup {u}
    /\ UNCHANGED <<gen, num, endpoints, serving>>

\* Pods come and go and the Endpoints change. The Endpoints have no owner, so that their
\* event does not pass the controller's filter and enqueues nothing.
ChangePods(ips) ==
    /\ EnvEdit /\ ips # endpoints
    /\ endpoints' = ips
    /\ UNCHANGED <<gen, num, finalizing, serving, queue>>

\* The informers' periodic resync, and GlobalResync after an event of an owned resource
\* such as the Deployment, which comes before or after that of the Endpoints.
Resync ==
    /\ queue' = queue \cup {u \in UIDs : gen[u] # 0}
    /\ UNCHANGED <<env, reported, targetStates, state, item, proc, missed>>

\* A dispatcher pod starts to consume a partition, one at a time (SetReady).
Claim(d, u, p) ==
    /\ gen[u] # 0
    /\ d \in MayClaim[p]
    /\ \A e \in Pods : p \notin serving[e][u]
    /\ serving' = [serving EXCEPT ![d][u] = @ \cup {p}]
    /\ UNCHANGED <<gen, num, finalizing, endpoints, edits, queue, reported, targetStates, state,
                   item, proc, missed>>

\* It stops: a rebalance, or a message it fails to handle.
Unclaim(d, u, p) ==
    /\ "unclaim" \in Faults /\ EnvEdit
    /\ p \in serving[d][u]
    /\ serving' = [serving EXCEPT ![d][u] = @ \ {p}]
    /\ UNCHANGED <<gen, num, finalizing, endpoints, queue>>

--------------------------------------------------------------------------------
(* The controller's workers *)

\* DispatcherPodsLister finds no address behind the dispatcher's Service. (Endpoints
\* without any subset end the reconcile before, with an error that requeues the key.)
ListProbeTargetsFails == endpoints = {}

\* The controller's queue hands out a channel to one worker at a time.
Dequeue(c, u) ==
    /\ proc[c].pc = "idle" /\ u \in queue
    /\ \A w \in Callers : proc[w].uid # u
    /\ queue' = queue \ {u}

\* reconcileSubscribers reads the spec and the targets. The error of IsReady is dropped:
\* without targets the subscriber is reported as not ready, and the key is not requeued.
Reconcile(c, u) ==
    /\ Dequeue(c, u) /\ u \notin finalizing
    /\ IF ListProbeTargetsFails
       THEN /\ reported' = [reported EXCEPT ![u] = 0] /\ UNCHANGED proc
            /\ missed' = missed \cup {u}
       ELSE /\ proc' = [proc EXCEPT ![c] = [IdleProc EXCEPT !.pc = "lookup", !.uid = u,
                                            !.gen = gen[u], !.num = num[u],
                                            !.target = endpoints]]
            /\ UNCHANGED reported
            /\ missed' = missed \ {u}
    /\ UNCHANGED <<env, targetStates, state, item>>

\* ejectStateUnsafe removes the state of u and cancels its probes.
EjectState(u) ==
    /\ item' = IF targetStates[u] = Nil THEN item
               ELSE [item EXCEPT ![targetStates[u]] = CancelItems(@)]
    /\ targetStates' = [targetStates EXCEPT ![u] = Nil]

\* FinalizeKind calls CancelProbing, which ejects the state under mu.
FinalizeKind(c, u) ==
    /\ Dequeue(c, u) /\ u \in finalizing
    /\ MuFree /\ EjectState(u)
    /\ UNCHANGED <<env, reported, state, proc, missed>>

\* IsReady looks the state up under mu and answers from it unless it is outdated.
Lookup(c) ==
    LET u == proc[c].uid
        t == targetStates[u]
        outdated == isOutdatedTargetState(state[t], proc[c].gen, proc[c].target)
    IN  /\ proc[c].pc = "lookup" /\ MuFree
        /\ IF t # Nil /\ ~outdated
           THEN /\ state' = [state EXCEPT ![t].ready = checkReadiness(state[t])]
                /\ reported' = [reported EXCEPT
                       ![u] = IF checkReadiness(state[t]) THEN proc[c].gen ELSE 0]
                /\ proc' = [proc EXCEPT ![c] = IdleProc]
           ELSE /\ proc' = [proc EXCEPT ![c].pc = IF t = Nil THEN "probe" ELSE "eject"]
                /\ UNCHANGED <<state, reported>>
        /\ UNCHANGED <<env, queue, targetStates, item, missed>>

\* Mutant: the state is removed and its probes are not cancelled.
EjectKeepsProbing(c) ==
    /\ proc[c].pc = "eject"
    /\ targetStates' = [targetStates EXCEPT ![proc[c].uid] = Nil]
    /\ proc' = [proc EXCEPT ![c].pc = "probe"]
    /\ UNCHANGED <<env, queue, reported, state, item, missed>>

\* IsReady calls ejectStateUnsafe without mu.
Eject(c) ==
    /\ proc[c].pc = "eject"
    /\ EjectState(proc[c].uid)
    /\ proc' = [proc EXCEPT ![c].pc = "probe"]
    /\ UNCHANGED <<env, queue, reported, state, missed>>

--------------------------------------------------------------------------------
(* probeTarget, by a caller or by a refresher *)

\* A targetState nothing refers to: the garbage collector reuses its memory.
Unreferenced(t) ==
    /\ \A u \in UIDs : targetStates[u] # t
    /\ \A p \in Procs : proc[p].new # t
    /\ \A d \in Pods : item[t][d].at = "none" /\ ~item[t][d].waiting

\* The state and its work items are created and queued ...
ProbeTarget(p, t) ==
    /\ proc[p].pc = "probe"
    /\ Unreferenced(t)
    /\ state' = [state EXCEPT ![t] = [NoState EXCEPT !.uid = proc[p].uid, !.gen = proc[p].gen, !.num = proc[p].num,
                    !.probedPods = proc[p].target, !.pendingCount = Cardinality(proc[p].target)]]
    /\ item' = [item EXCEPT ![t] = [d \in Pods |->
                                       IF d \in proc[p].target THEN NewItem ELSE NoItem]]
    /\ proc' = [proc EXCEPT ![p].pc = "store", ![p].new = t]
    /\ UNCHANGED <<env, queue, reported, targetStates, missed>>

\* ... and stored at the end, over whatever is there. IsReady returns false.
StoreState(p) ==
    LET u == proc[p].uid IN
    /\ proc[p].pc = "store" /\ MuFree
    /\ targetStates' = [targetStates EXCEPT ![u] = proc[p].new]
    /\ IF p \in Callers
       THEN /\ reported' = [reported EXCEPT ![u] = 0]
            /\ proc' = [proc EXCEPT ![p] = IdleProc]
       ELSE /\ UNCHANGED reported
            /\ proc' = [proc EXCEPT ![p] = [IdleProc EXCEPT !.pc = "relock", !.todo = proc[p].todo]]
    /\ UNCHANGED <<env, queue, state, item, missed>>

--------------------------------------------------------------------------------
(* Probe workers and cancellation *)

\* prober.Do with probeVerifier. The pod lists the uid only with ready partitions; 404,
\* 503 and transport errors are errors; any other status counts as a success.
Probe(t, d, answer) ==
    LET parts == serving[d][state[t].uid] IN
    /\ item[t][d].at = "queued"
    /\ answer \in {"body"} \cup (Faults \cap {"error", "abandon"})
    /\ item' = [item EXCEPT ![t][d].at = "answered",
                   ![t][d].ok = answer = "abandon" \/ (answer = "body" /\ parts # {})]
    /\ state' = IF answer = "body" THEN [state EXCEPT ![t].readyPartitions = @ \cup parts]
                ELSE state
    /\ UNCHANGED <<env, queue, reported, targetStates, proc, missed>>

\* An item that the worker and its waiting goroutine have both left is garbage.
Left(i) == IF i.at = "none" /\ ~i.waiting THEN NoItem ELSE i

\* Mutant: a failed item is not requeued.
ProcessAnswerDropsFailed(t, d) ==
    LET i == item[t][d]
        at == IF i.done \/ ~i.ok THEN "none" ELSE "success"
    IN  /\ i.at = "answered"
        /\ item' = [item EXCEPT ![t][d] = Left([i EXCEPT !.ok = FALSE, !.at = at])]
        /\ UNCHANGED <<env, queue, reported, targetStates, state, proc, missed>>

\* The rest of processWorkItem: drop a cancelled item, requeue a failed one.
ProcessAnswer(t, d) ==
    LET i == item[t][d]
        at == IF i.done THEN "none" ELSE IF i.ok THEN "success" ELSE "queued"
    IN  /\ i.at = "answered"
        /\ item' = [item EXCEPT ![t][d] = Left([i EXCEPT !.ok = FALSE, !.at = at])]
        /\ UNCHANGED <<env, queue, reported, targetStates, state, proc, missed>>

\* What onProbingSuccess does with the item, left at "at", and with its state.
Succeed(t, d, at, callback) ==
    LET i == item[t][d]
        last == i.count = 1
        ready == last /\ checkReadiness(state[t])
        items == [item[t] EXCEPT
                    ![d] = Left([i EXCEPT !.count = @ - 1, !.at = at, !.done = @ \/ last])]
    IN  /\ i.at = "success"
        /\ item' = [item EXCEPT ![t] = IF ready THEN CancelItems(items) ELSE items]
        /\ state' = [state EXCEPT ![t].ready = @ \/ ready]
        /\ queue' = IF ready /\ callback THEN queue \cup {state[t].uid} ELSE queue
        /\ UNCHANGED <<env, reported, targetStates, proc, missed>>

\* Mutants: the item is handled once more; readyCallback is not called.
onProbingSuccessTwice(t, d) == Succeed(t, d, "success", TRUE)
onProbingSuccessSilent(t, d) == Succeed(t, d, "none", FALSE)

\* onProbingSuccess: the last probe of the pod ends its context; if all partitions have
\* been found, state.cancel() ends the other probes and the callback enqueues the channel.
onProbingSuccess(t, d) == Succeed(t, d, "none", TRUE)

\* onProbingCancellation, once the item's context is done.
onProbingCancellation(t, d) ==
    LET i == item[t][d]
        pending == i.count > 0
        left == state[t].pendingCount - 1
        ready == pending /\ left = 0 /\ checkReadiness(state[t])
    IN  /\ i.waiting /\ i.done
        /\ item' = [item EXCEPT ![t][d] = Left([i EXCEPT !.waiting = FALSE,
                                                        !.count = IF pending THEN 0 ELSE @])]
        /\ state' = IF pending THEN [state EXCEPT ![t].pendingCount = left,
                                                  ![t].ready = @ \/ ready]
                    ELSE state
        /\ queue' = IF ready THEN queue \cup {state[t].uid} ELSE queue
        /\ UNCHANGED <<env, reported, targetStates, proc, missed>>

\* CancelPodProbing ends the contexts of all items of a pod.
CancelPodProbing(d) ==
    /\ "cancelPod" \in Faults /\ Bounded /\ MuFree
    /\ item' = [t \in States |-> [item[t] EXCEPT ![d].done = @ \/ item[t][d].waiting]]
    /\ UNCHANGED <<gen, num, finalizing, endpoints, serving, queue, reported, targetStates, state,
                   proc, missed>>

--------------------------------------------------------------------------------
(* RefreshPodProbing: the range over targetStates, with mu released for probeTarget *)

RefreshStart(r) ==
    /\ proc[r].pc = "idle" /\ MuFree
    /\ Bounded
    /\ proc' = [proc EXCEPT ![r].pc = "loop",
                            ![r].todo = {targetStates[u] : u \in UIDs} \ {Nil}]
    /\ UNCHANGED <<gen, num, finalizing, endpoints, serving, queue, reported, targetStates, state,
                   item, missed>>

\* One state of the range, perhaps one stored since it began. A ready state is left
\* alone; a lister error ends the refresh.
RefreshOne(r, u) ==
    LET t == targetStates[u]
        ready == checkReadiness(state[t])
        rest == proc[r].todo \ {t}
    IN  /\ proc[r].pc = "loop"
        /\ t # Nil
        /\ state' = [state EXCEPT ![t].ready = ready]
        /\ \/ /\ ready
              /\ proc' = [proc EXCEPT ![r].todo = rest]
              /\ UNCHANGED <<targetStates, item>>
           \/ /\ ~ready /\ ListProbeTargetsFails
              /\ proc' = [proc EXCEPT ![r] = IdleProc]
              /\ UNCHANGED <<targetStates, item>>
           \/ /\ ~ready /\ ~ListProbeTargetsFails
              /\ EjectState(u)
              /\ proc' = [proc EXCEPT ![r] = [pc |-> "probe", uid |-> u, gen |-> state[t].gen,
                                              num |-> state[t].num, target |-> endpoints,
                                              new |-> Nil, todo |-> rest]]
        /\ UNCHANGED <<env, queue, reported, missed>>

RefreshRelock(r) ==
    /\ proc[r].pc = "relock" /\ MuFree
    /\ proc' = [proc EXCEPT ![r].pc = "loop"]
    /\ UNCHANGED <<env, queue, reported, targetStates, state, item, missed>>

\* The range ends when every state it began with has been visited or removed.
RefreshReturn(r) ==
    /\ proc[r].pc = "loop"
    /\ \A u \in UIDs : targetStates[u] \notin proc[r].todo
    /\ proc' = [proc EXCEPT ![r] = IdleProc]
    /\ UNCHANGED <<env, queue, reported, targetStates, state, item, missed>>

--------------------------------------------------------------------------------
Environment ==
    \/ \E u \in UIDs : ChangeSpec(u) \/ DeleteChannel(u)
    \/ \E u \in UIDs, n \in NumPartitions : ChangePartitions(u, n)
    \/ \E ips \in SUBSET Pods : ChangePods(ips)
    \/ \E d \in Pods, u \in UIDs, p \in Partitions : Unclaim(d, u, p)
    \/ \E d \in Pods : CancelPodProbing(d)
    \/ Resync

DispatcherStep == \E d \in Pods, u \in UIDs, p \in Partitions : Claim(d, u, p)

ProcStep(p) == StoreState(p) \/ \E t \in States : ProbeTarget(p, t)
CallerStep(c) == \/ \E u \in UIDs : Reconcile(c, u) \/ FinalizeKind(c, u)
                 \/ Lookup(c) \/ Eject(c) \/ ProcStep(c)
RefreshStep(r) == \/ \E u \in UIDs : RefreshOne(r, u)
                  \/ RefreshRelock(r) \/ RefreshReturn(r) \/ ProcStep(r)

ItemStep(t, d) ==
    \/ ProcessAnswer(t, d) \/ onProbingSuccess(t, d) \/ onProbingCancellation(t, d)

Next ==
    \/ Environment \/ DispatcherStep
    \/ \E c \in Callers : CallerStep(c)
    \/ \E r \in Refreshers : RefreshStart(r) \/ RefreshStep(r)
    \/ \E t \in States, d \in Pods, a \in {"body", "error", "abandon"} : Probe(t, d, a)
    \/ \E t \in States, d \in Pods : ItemStep(t, d)

Spec == Init /\ [][Next]_vars

\* Goroutines run, the resync period passes, dispatcher pods get their partitions, and a
\* probe that is repeated again and again reaches the pod at last.
Fairness ==
    /\ WF_vars(DispatcherStep) /\ WF_vars(Resync)
    /\ \A c \in Callers : WF_vars(CallerStep(c))
    /\ \A r \in Refreshers : WF_vars(RefreshStep(r))
    /\ \A t \in States, d \in Pods : WF_vars(ItemStep(t, d)) /\ SF_vars(Probe(t, d, "body"))

FairSpec == Spec /\ Fairness

--------------------------------------------------------------------------------
(* Properties *)

\* Types; podState.pendingCount never falls below -1: success and cancellation of one item
\* each count it down once at most.
TypeOK ==
    /\ gen \in [UIDs -> 0..MaxGen] /\ num \in [UIDs -> NumPartitions]
    /\ finalizing \subseteq UIDs /\ missed \subseteq UIDs
    /\ endpoints \subseteq Pods
    /\ serving \in [Pods -> [UIDs -> SUBSET Partitions]]
    /\ edits \in 0..MaxEdits
    /\ queue \subseteq UIDs
    /\ reported \in [UIDs -> 0..MaxGen]
    /\ targetStates \in [UIDs -> States \cup {Nil}]
    /\ state \in [States -> StateRecord]
    /\ item \in [States -> [Pods -> ItemRecord]]
    /\ proc \in [Procs -> ProcRecord]

\* A subscription is reported as ready for a generation only on the word of a targetState
\* created for that generation whose probes have found as many partitions consumed as the
\* spec said then: neither an answer to a probe of an older generation nor a late answer to
\* an ejected state makes it so, also where the topic has more partitions than the spec, or
\* the spec's number has changed since.
ReportsWhatWasProbed ==
    [][\A u \in UIDs : reported'[u] \notin {0, reported[u]} =>
         \E t \in States : /\ state[t].uid = u /\ state[t].gen = reported'[u]
                           /\ Cardinality(state[t].readyPartitions) >= state[t].num]_vars

\* A worker or a cancellation has still to do with t; a reconcile of u is to come.
Probing(t) == \E d \in Pods : item[t][d].at # "none" \/ (item[t][d].waiting /\ item[t][d].done)
Pursued(u) == u \in queue \/ \E c \in Callers : proc[c].uid = u

\* No wake-up is lost but to the dropped error of IsReady: when the probing of the current
\* state has ended with all partitions found, the subscription is reported for its
\* generation, or a reconcile that will report it is queued or under way, or its last
\* reconcile found no pod to probe (it then waits for a resync).
NoLostReadiness ==
    \A u \in UIDs : LET t == targetStates[u] IN
        (/\ t # Nil /\ ~Probing(t) /\ u \notin finalizing
         /\ Cardinality(state[t].readyPartitions) = state[t].num)
            => reported[u] = state[t].gen \/ Pursued(u) \/ u \in missed

\* An item of t waits to be probed and has not been cancelled.
Probed(t) == \E d \in Pods : item[t][d].at = "queued" /\ ~item[t][d].done

\* No probing is orphaned: a state with an item still being probed is the one that
\* targetStates holds for its subscription, where CancelProbing finds it, or is about
\* to be stored there; a replaced state has been cancelled.
NoOrphanedProbes ==
    \A t \in States : Probed(t) =>
        targetStates[state[t].uid] = t \/ \E p \in Procs : proc[p].new = t

\* Every partition is consumed for u by a pod behind the service.
AllClaimed(u) == \A p \in Partitions : \E d \in endpoints : p \in serving[d][u]

\* Once the partitions of a subscription stay claimed by pods behind the service, it is
\* reported as ready for its generation and stays so: probes fail and are retried, states
\* are outdated and replaced, but the answer gets through. (Edits are bounded, so the
\* spec and the pods stop changing.)
EventuallyReported ==
    \A u \in UIDs : <>[](gen[u] # 0 /\ u \notin finalizing /\ AllClaimed(u))
                        => <>[](reported[u] = gen[u])
================================================================================
