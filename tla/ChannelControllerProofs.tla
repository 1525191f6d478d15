------------------------ MODULE ChannelControllerProofs ------------------------
(***************************************************************************)
(* Proofs about ChannelController for any specs that users write, any        *)
(* number of changes, subscriber generations, failing API calls and restarts.*)
(***************************************************************************)
EXTENDS ChannelController, TLAPS

\* A status in which Ready is True only with all its dependents, and the channel only
\* Addressable with an address.
Justified(s) ==
    /\ s.ready = "True" => \A t \in Dependents : s.conds[t] = "True"
    /\ s.conds["Addressable"] = "True" => s.address

\* A version of the channel, wherever it is kept: its Ready is justified, for the
\* generation it was observed at.
ChannelOK(ch) ==
    /\ Justified(ch.status)
    /\ ch.status.observed <= ch.gen
    /\ (ch.status.ready = "True" /\ ch.status.observed = ch.gen) =>
          ValidSpec(SetDefaults(ch.conf))

\* The version a is not newer than b. The generation counts the changes of the spec.
Older(a, b) == a.gen <= b.gen /\ (a.gen = b.gen => a.conf = b.conf)

\* The steps of ReconcileKind.
Reconciling == {"rbac", "deployment", "service", "endpoints", "channelService",
                "subscribers"}

\* The copy of the lister is old, but not older than what was observed: an observed
\* generation was read from the lister.
CopyInv ==
    /\ obj # Nil => obj.gen <= edits + 1 /\ ChannelOK(obj)
    /\ cache # Nil => ChannelOK(cache)
    /\ (obj # Nil /\ cache # Nil) => Older(cache, obj) /\ obj.status.observed <= cache.gen
    /\ (obj # Nil /\ cache = Nil) => wk.pc = "idle" /\ obj.status.observed = 0

\* The version r, read by the worker, lies between the observed generation and the
\* lister's copy.
Copied(r) ==
    /\ r \in Channel /\ ChannelOK(r)
    /\ cache # Nil => r.gen <= cache.gen
    /\ obj # Nil => Older(r, obj) /\ obj.status.observed <= r.gen

\* What the worker reconciles, and which status it may write.
WorkerInv ==
    wk.pc # "idle" =>
        /\ wk.was # Nil /\ Copied(wk.res)
        /\ wk.pc \in Reconciling => ValidSpec(SetDefaults(wk.res.conf))
        /\ wk.pc = "clear" => wk.res.status = wk.was
        /\ wk.pc = "status" => \/ obj = Nil \/ wk.res.status = wk.was
                               \/ wk.res.status.observed = wk.res.gen
        /\ wk.pc = "retry" => obj = Nil \/ wk.res.status.observed = wk.res.gen

\* The version r is deleted only if the later version b is.
Precedes(r, b) == r.deleting => b.deleting

\* Versions succeed each other on their way from the API server to the worker.
VersionInv ==
    /\ (obj # Nil /\ cache # Nil) => Precedes(cache, obj)
    /\ wk.pc # "idle" => /\ cache # Nil => Precedes(wk.res, cache)
                         /\ obj # Nil => Precedes(wk.res, obj)

\* While the worker is in ReconcileKind the finalizer is set. The lister may show a finalizer
\* that has been cleared, but then it shows the deletion, too, and the worker will not set out
\* to reconcile. When the finalizer is about to be cleared the probing of the subscriber that
\* the worker's copy lists has been cancelled.
FinalizerInv ==
    /\ wk.pc = "clear" => wk.res.deleting /\ (probe.gen = 0 \/ wk.res.sub = 0)
    /\ (cache # Nil /\ cache.finalizer) =>
          \/ Guarded
          \/ cache.deleting /\ wk.pc \notin Reconciling \cup {"finalizer"}
    /\ wk.pc \in Reconciling => Guarded

GuardInv == VersionInv /\ FinalizerInv

\* What every step but clearFinalizer does.
GuardKept == Guarded => Guarded'

IInv == TypeOK /\ CopyInv /\ WorkerInv /\ GuardInv

USE ControllerAssumption, NilAssumption

--------------------------------------------------------------------------------
(* Status conditions *)

\* A status as the steps of ReconcileKind find it and leave it.
Sound(s) == s \in Status /\ Justified(s)

\* Happiness, which recomputeHappiness stores, is True only when all dependents are.
LEMMA HappinessIsJustified ==
    ASSUME NEW conds \in [Dependents -> CondStatus]
    PROVE  /\ Happiness(conds) \in CondStatus
           /\ Happiness(conds) = "True" => \A t \in Dependents : conds[t] = "True"
BY DEF Happiness, CondStatus

\* MarkTrue of a dependent that needs no address, MarkFalse, and the two ways to Unknown
\* leave a sound status sound; none of them touches the observed generation.
LEMMA MarksAreSound ==
    ASSUME NEW s, Sound(s), NEW t \in Dependents
    PROVE  /\ t # "Addressable" => Sound(MarkTrue(s, t))
           /\ Sound(MarkFalse(s, t)) /\ Sound(MarkReadyUnknown(s)) /\ Sound(MarkUnknown(s, t))
           /\ MarkTrue(s, t).observed = s.observed /\ MarkFalse(s, t).observed = s.observed
           /\ MarkReadyUnknown(s).observed = s.observed /\ MarkUnknown(s, t).observed = s.observed
           /\ MarkReadyUnknown(s).ready # "True"
  <1>0. s \in Status /\ Justified(s) BY DEF Sound
  <1>1. t # "Addressable" => Sound(MarkTrue(s, t))
    <2> DEFINE c == [s.conds EXCEPT ![t] = "True"]
    <2>1. c \in [Dependents -> CondStatus] BY <1>0 DEF Status, CondStatus
    <2>2. c["Addressable"] = "True" /\ t # "Addressable" => s.conds["Addressable"] = "True"
        BY <1>0 DEF Status, Dependents
    <2> HIDE DEF c
    <2>3. MarkTrue(s, t) = [s EXCEPT !.conds = c, !.ready = Happiness(c)] BY DEF MarkTrue, c
    <2>4. /\ MarkTrue(s, t) \in Status /\ MarkTrue(s, t).conds = c
          /\ MarkTrue(s, t).ready = Happiness(c) /\ MarkTrue(s, t).address = s.address
        BY <1>0, <2>1, <2>3, HappinessIsJustified DEF Status
    <2> QED BY <1>0, <2>1, <2>2, <2>4, HappinessIsJustified DEF Sound, Justified
  <1>2. Sound(MarkFalse(s, t)) /\ MarkFalse(s, t).observed = s.observed
      BY <1>0 DEF MarkFalse, Sound, Justified, Status, CondStatus, Dependents
  <1>3. \A x : Sound(x) => /\ Sound(MarkReadyUnknown(x)) /\ MarkReadyUnknown(x).observed = x.observed
                           /\ MarkReadyUnknown(x).ready # "True"
      BY DEF MarkReadyUnknown, Sound, Justified, Status, CondStatus
  <1>4. Sound(MarkUnknown(s, t)) /\ MarkUnknown(s, t).observed = s.observed
    <2> DEFINE x == [s EXCEPT !.conds[t] = "Unknown"]
    <2>1. x \in Status /\ x.observed = s.observed BY <1>0 DEF Status, CondStatus
    <2>2. x.conds["Addressable"] = "True" => x.address
        BY <1>0 DEF Justified, Status, Dependents
    <2>3. /\ MarkReadyUnknown(x) \in Status /\ MarkReadyUnknown(x).ready # "True"
          /\ MarkReadyUnknown(x).conds = x.conds /\ MarkReadyUnknown(x).address = x.address
          /\ MarkReadyUnknown(x).observed = x.observed
      <3> HIDE DEF x
      <3> QED BY <2>1 DEF MarkReadyUnknown, Status, CondStatus
    <2> QED BY <2>1, <2>2, <2>3 DEF MarkUnknown, Sound, Justified
  <1>5. MarkTrue(s, t).observed = s.observed BY <1>0 DEF MarkTrue, Status
  <1> QED BY <1>0, <1>1, <1>2, <1>3, <1>4, <1>5

\* SetAddress stores the address before it marks the condition.
LEMMA AddressIsSound ==
    ASSUME NEW s, Sound(s)
    PROVE  Sound(SetAddress(s)) /\ SetAddress(s).observed = s.observed
  <1> DEFINE c == [s.conds EXCEPT !["Addressable"] = "True"]
  <1>0. s \in Status /\ Justified(s) BY DEF Sound
  <1>1. c \in [Dependents -> CondStatus] BY <1>0 DEF Status, CondStatus, Dependents
  <1>2. SetAddress(s) = [[s EXCEPT !.address = TRUE] EXCEPT !.conds = c, !.ready = Happiness(c)]
      BY <1>0 DEF SetAddress, MarkTrue, Status
  <1> HIDE DEF c
  <1>3. Happiness(c) \in CondStatus BY <1>1, HappinessIsJustified
  <1>4. /\ SetAddress(s) \in Status /\ SetAddress(s).conds = c /\ SetAddress(s).address = TRUE
        /\ SetAddress(s).ready = Happiness(c) /\ SetAddress(s).observed = s.observed
      BY <1>0, <1>1, <1>2, <1>3 DEF Status
  <1> QED BY <1>0, <1>1, <1>4, HappinessIsJustified DEF Sound, Justified

\* PropagateDispatcherStatus, for every status of the Available condition.
LEMMA PropagationIsSound ==
    ASSUME NEW s, Sound(s), NEW a \in CondStatus \cup {"none"}
    PROVE  /\ Sound(PropagateDispatcherStatus(s, a))
           /\ PropagateDispatcherStatus(s, a).observed = s.observed
  <1>1. "Dispatcher" \in Dependents BY DEF Dependents
  <1>2. CASE a = "none" BY <1>2 DEF PropagateDispatcherStatus
  <1>3. CASE a = "True" BY <1>1, <1>3, MarksAreSound DEF PropagateDispatcherStatus
  <1>4. CASE a = "False" BY <1>1, <1>4, MarksAreSound DEF PropagateDispatcherStatus
  <1>5. CASE a = "Unknown" BY <1>1, <1>5, MarksAreSound DEF PropagateDispatcherStatus
  <1> QED BY <1>2, <1>3, <1>4, <1>5 DEF CondStatus

--------------------------------------------------------------------------------
(* Versions of the channel *)

\* A status that is sound, was observed at no later generation, and was computed for a
\* valid spec or is not Ready, makes a good version of the channel.
LEMMA StatusPut ==
    ASSUME NEW r \in Channel, NEW s, Sound(s), s.observed <= r.gen,
           s.ready = "True" /\ s.observed = r.gen => ValidSpec(SetDefaults(r.conf))
    PROVE  /\ [r EXCEPT !.status = s] \in Channel /\ ChannelOK([r EXCEPT !.status = s])
           /\ [r EXCEPT !.status = s].status = s
           /\ [r EXCEPT !.status = s].gen = r.gen /\ [r EXCEPT !.status = s].conf = r.conf
           /\ [r EXCEPT !.status = s].sub = r.sub
           /\ [r EXCEPT !.status = s].deleting = r.deleting
           /\ [r EXCEPT !.status = s].finalizer = r.finalizer
  <1>1. s \in Status /\ Justified(s) BY DEF Sound
  <1>2. PICK n : n = [r EXCEPT !.status = s] OBVIOUS
  <1>3. /\ n \in Channel /\ n.status = s /\ n.gen = r.gen /\ n.conf = r.conf /\ n.sub = r.sub
        /\ n.deleting = r.deleting /\ n.finalizer = r.finalizer
      BY <1>1, <1>2 DEF Channel
  <1>4. ChannelOK(n) BY <1>1, <1>3 DEF ChannelOK
  <1> QED BY <1>2, <1>3, <1>4

\* The finalizer and the reported subscribers have no part in it.
LEMMA FinalizerPut ==
    ASSUME NEW r \in Channel, ChannelOK(r), NEW f \in BOOLEAN
    PROVE  /\ [r EXCEPT !.finalizer = f] \in Channel /\ ChannelOK([r EXCEPT !.finalizer = f])
           /\ [r EXCEPT !.finalizer = f].status = r.status
           /\ [r EXCEPT !.finalizer = f].gen = r.gen /\ [r EXCEPT !.finalizer = f].conf = r.conf
           /\ [r EXCEPT !.finalizer = f].sub = r.sub
           /\ [r EXCEPT !.finalizer = f].deleting = r.deleting
           /\ [r EXCEPT !.finalizer = f].finalizer = f
  <1>2. PICK n : n = [r EXCEPT !.finalizer = f] OBVIOUS
  <1>3. /\ n \in Channel /\ n.status = r.status /\ n.gen = r.gen /\ n.conf = r.conf /\ n.sub = r.sub
        /\ n.deleting = r.deleting /\ n.finalizer = f
      BY <1>2 DEF Channel
  <1>4. ChannelOK(n) BY <1>3 DEF ChannelOK
  <1> QED BY <1>2, <1>3, <1>4

LEMMA ReportedPut ==
    ASSUME NEW r \in Channel, ChannelOK(r), NEW g \in 0..MaxSub
    PROVE  LET n == [r EXCEPT !.status.reported = g] IN
           /\ n \in Channel /\ ChannelOK(n) /\ n.status.observed = r.status.observed
           /\ n.gen = r.gen /\ n.conf = r.conf /\ n.sub = r.sub /\ n.deleting = r.deleting
           /\ n.finalizer = r.finalizer
  <1>1. PICK s : s = [r.status EXCEPT !.reported = g] OBVIOUS
  <1>2. r.status \in Status BY DEF Channel
  <1>3. /\ s \in Status /\ s.observed = r.status.observed /\ s.ready = r.status.ready
        /\ s.conds = r.status.conds /\ s.address = r.status.address
      BY <1>1, <1>2 DEF Status
  <1>4. Sound(s) BY <1>3 DEF Sound, Justified, ChannelOK
  <1>5. [r EXCEPT !.status.reported = g] = [r EXCEPT !.status = s] BY <1>1
  <1>6. s.observed <= r.gen /\ (s.ready = "True" /\ s.observed = r.gen => ValidSpec(SetDefaults(r.conf)))
      BY <1>3 DEF ChannelOK
  <1>7. PICK n : n = [r EXCEPT !.status = s] OBVIOUS
  <1>8. /\ n \in Channel /\ ChannelOK(n) /\ n.status = s /\ n.gen = r.gen /\ n.conf = r.conf
        /\ n.sub = r.sub /\ n.deleting = r.deleting /\ n.finalizer = r.finalizer
      BY <1>4, <1>6, <1>7, StatusPut
  <1> QED BY <1>3, <1>5, <1>7, <1>8

--------------------------------------------------------------------------------
(* Steps of ReconcileKind *)

SameSpec(a, b) == a.gen = b.gen /\ a.conf = b.conf /\ a.sub = b.sub /\ a.deleting = b.deleting

\* What such a step does to the worker: it puts a new status into its copy, and a status at
\* which ReconcileKind ends has observed the generation of the copy.
Reconciled ==
    /\ wk' \in Worker /\ wk'.was = wk.was
    /\ wk'.res \in Channel /\ ChannelOK(wk'.res) /\ SameSpec(wk'.res, wk.res)
    /\ \/ wk'.pc \in Reconciling
       \/ wk'.pc = "status" /\ wk'.res.status.observed = wk'.res.gen

\* What it does to the channel: the server's object keeps all but its reported subscribers.
ChannelKept ==
    /\ UNCHANGED <<cache, edits>>
    /\ \/ UNCHANGED obj
       \/ /\ obj # Nil /\ obj' \in Channel /\ ChannelOK(obj') /\ SameSpec(obj', obj)
          /\ obj'.finalizer = obj.finalizer /\ obj'.status.observed = obj.status.observed

\* The worker in ReconcileKind has a copy with a valid spec.
LEMMA ReconcilingCopy ==
    ASSUME IInv, wk.pc \in Reconciling
    PROVE  /\ wk.pc # "idle" /\ wk.was # Nil /\ wk.res \in Channel /\ Copied(wk.res)
           /\ ValidSpec(SetDefaults(wk.res.conf)) /\ Sound(wk.res.status)
           /\ wk.res.gen \in 1..MaxEdits + 1 /\ wk.res.status.observed \in Int
           /\ wk.res.status.observed <= wk.res.gen
BY DEF IInv, WorkerInv, Copied, Reconciling, Sound, ChannelOK, Channel, Status

\* Goto with a new status.
LEMMA GotoReconciles ==
    ASSUME IInv, wk.pc \in Reconciling, NEW s, Sound(s), s.observed = wk.res.status.observed,
           NEW pc \in Reconciling, Goto(pc, [wk.res EXCEPT !.status = s])
    PROVE  Reconciled
  <1>1. PICK r : r = [wk.res EXCEPT !.status = s] OBVIOUS
  <1>2. r \in Channel /\ ChannelOK(r) /\ SameSpec(r, wk.res)
      BY <1>1, ReconcilingCopy, StatusPut DEF SameSpec
  <1>3. wk' \in Worker /\ wk'.pc = pc /\ wk'.res = r /\ wk'.was = wk.was
      BY <1>1, <1>2 DEF Goto, IInv, TypeOK, Worker, Reconciling
  <1> QED BY <1>2, <1>3 DEF Reconciled

\* Goto with the status as it is.
LEMMA GotoKeeps ==
    ASSUME IInv, wk.pc \in Reconciling, NEW pc \in Reconciling, Goto(pc, wk.res)
    PROVE  Reconciled
  <1>1. wk' \in Worker /\ wk'.pc = pc /\ wk'.res = wk.res /\ wk'.was = wk.was
      BY ReconcilingCopy DEF Goto, IInv, TypeOK, Worker, Reconciling
  <1> QED BY <1>1, ReconcilingCopy DEF Reconciled, SameSpec, Copied

\* End, with PostProcessReconcile.
LEMMA EndReconciles ==
    ASSUME IInv, wk.pc \in Reconciling, NEW s, Sound(s), NEW o \in {"ok", "error"}, End(s, o)
    PROVE  Reconciled
  <1>1. PICK q : q = [s EXCEPT !.observed = wk.res.gen] OBVIOUS
  <1>2. Sound(q) /\ q.observed = wk.res.gen
      BY <1>1, ReconcilingCopy DEF Sound, Justified, Status
  <1>3. PICK r : r = [wk.res EXCEPT !.status = q] OBVIOUS
  <1>4. r \in Channel /\ ChannelOK(r) /\ SameSpec(r, wk.res) /\ r.status = q /\ r.gen = wk.res.gen
      BY <1>2, <1>3, ReconcilingCopy, StatusPut DEF SameSpec
  <1>5. wk' \in Worker /\ wk'.pc = "status" /\ wk'.res = r /\ wk'.was = wk.was
      BY <1>1, <1>3, <1>4 DEF End, IInv, TypeOK, Worker
  <1> QED BY <1>2, <1>4, <1>5 DEF Reconciled

\* Such a step preserves the invariant, apart from the types of what it is not about.
LEMMA ReconcilingStep ==
    ASSUME IInv, wk.pc \in Reconciling, Reconciled, ChannelKept
    PROVE  CopyInv' /\ WorkerInv' /\ GuardInv'
  <1>1. CopyInv'
      BY ReconcilingCopy DEF IInv, CopyInv, ChannelKept, SameSpec, Older
  <1>2. Copied(wk.res)'
      BY ReconcilingCopy DEF IInv, CopyInv, Copied, ChannelKept, Reconciled, SameSpec, Older
  <1>3. WorkerInv'
      BY <1>2, ReconcilingCopy DEF WorkerInv, Reconciled, SameSpec, Reconciling
  <1>4. GuardInv'
      BY ReconcilingCopy DEF IInv, CopyInv, GuardInv, VersionInv, FinalizerInv, Guarded,
                             Precedes, ChannelKept, Reconciled, SameSpec, Reconciling
  <1> QED BY <1>1, <1>3, <1>4

\* The marks that the steps put on the status of the copy.
LEMMA MarkedCopy ==
    ASSUME IInv, wk.pc \in Reconciling, NEW t \in Dependents
    PROVE  /\ Sound(MarkFalse(wk.res.status, t))
           /\ t # "Addressable" => /\ Sound(MarkTrue(wk.res.status, t))
                                   /\ MarkTrue(wk.res.status, t).observed = wk.res.status.observed
BY ReconcilingCopy, MarksAreSound

\* API calls that fail stay within their bound.
LEMMA ErrorsBounded ==
    ASSUME IInv, UNCHANGED bounds \/ Fails
    PROVE  edits' = edits /\ edits' \in 0..MaxEdits /\ errors' \in 0..MaxErrors
BY DEF IInv, TypeOK, bounds, Fails

\* reconcileServiceAccount and reconcileRoleBinding.
LEMMA RBACStep == ASSUME IInv, ReconcileRBAC PROVE IInv'
  <1>1. wk.pc \in Reconciling /\ ChannelKept
      BY DEF ReconcileRBAC, Reconciling, ChannelKept, channel, bounds, Fails
  <1>2. ASSUME Goto("deployment", wk.res)
        PROVE  Reconciled
      BY <1>1, <1>2, GotoKeeps DEF Reconciling
  <1>3. ASSUME End(MarkFalse(wk.res.status, "Dispatcher"), "ok")
        PROVE  Reconciled
      BY <1>1, <1>3, EndReconciles, MarkedCopy DEF Dependents
  <1>4. Reconciled BY <1>2, <1>3 DEF ReconcileRBAC
  <1>5. TypeOK'
    <2>1. edits' \in 0..MaxEdits /\ errors' \in 0..MaxErrors BY ErrorsBounded DEF ReconcileRBAC
    <2>2. rbac' \in BOOLEAN BY DEF IInv, TypeOK, ReconcileRBAC
    <2>3. UNCHANGED <<channel, dep, depCache, depFresh, probe, endpoints, svc, chSvc, queued>> BY DEF ReconcileRBAC
    <2> QED BY <1>4, <2>1, <2>2, <2>3 DEF IInv, TypeOK, Reconciled, channel
  <1> QED BY <1>1, <1>4, <1>5, ReconcilingStep DEF IInv

\* Propagate with the status of any Deployment.
LEMMA Propagates ==
    ASSUME IInv, wk.pc \in Reconciling, NEW d \in Deployment, Propagate(d)
    PROVE  Reconciled
  <1>1. PICK s : s = PropagateDispatcherStatus(wk.res.status, d.available) OBVIOUS
  <1>2. Sound(s) /\ s.observed = wk.res.status.observed
      BY <1>1, ReconcilingCopy, PropagationIsSound DEF Deployment
  <1>3. Goto("service", [wk.res EXCEPT !.status = s]) BY <1>1 DEF Propagate
  <1> QED BY <1>2, <1>3, GotoReconciles DEF Reconciling

\* reconcileDispatcher: the Deployment is created, corrected or left alone.
LEMMA DispatcherStep == ASSUME IInv, ReconcileDispatcher PROVE IInv'
  <1>1. wk.pc \in Reconciling
      BY DEF ReconcileDispatcher, Reconciling
  <1>2. ASSUME NEW t \in {"Dispatcher", "Service"}, End(MarkFalse(wk.res.status, t), "ok")
        PROVE  Reconciled
      BY <1>1, <1>2, EndReconciles, MarkedCopy DEF Dependents
  <1>3. /\ dep \in Deployment \cup {Nil} /\ depCache \in Deployment \cup {Nil} /\ depFresh \in BOOLEAN
        /\ edits \in 0..MaxEdits /\ errors \in 0..MaxErrors
      BY DEF IInv, TypeOK
  <1> DEFINE Typed == /\ dep' \in Deployment \cup {Nil} /\ depCache' \in Deployment \cup {Nil}
                      /\ depFresh' \in BOOLEAN /\ edits' = edits /\ errors' \in 0..MaxErrors
  <1>4. ASSUME CreateDeployment PROVE Reconciled /\ Typed
    <2>1. NewDeployment \in Deployment BY DEF NewDeployment, Deployment
    <2>2. Reconciled BY <1>1, <1>2, <1>4, <2>1, Propagates DEF CreateDeployment
    <2>3. UNCHANGED bounds \/ Fails BY <1>4 DEF CreateDeployment
    <2>4. Typed BY <1>3, <1>4, <2>1, <2>3, ErrorsBounded DEF CreateDeployment
    <2> QED BY <2>2, <2>4
  <1>5. ASSUME UpdateDeployment PROVE Reconciled /\ Typed
    <2>1. \A d \in Deployment : [d EXCEPT !.spec = "expected"] \in Deployment BY DEF Deployment
    <2>2. Reconciled BY <1>1, <1>2, <1>3, <1>5, Propagates DEF UpdateDeployment
    <2>3. UNCHANGED bounds \/ Fails BY <1>5 DEF UpdateDeployment
    <2>4. Typed BY <1>3, <1>5, <2>1, <2>3, ErrorsBounded DEF UpdateDeployment
    <2> QED BY <2>2, <2>4
  <1>6. ASSUME KeepDeployment PROVE Reconciled /\ Typed
    <2>1. Reconciled BY <1>1, <1>3, <1>6, Propagates DEF KeepDeployment
    <2>2. Typed BY <1>3, <1>6 DEF KeepDeployment, bounds
    <2> QED BY <2>1, <2>2
  <1>7. Reconciled /\ Typed BY <1>4, <1>5, <1>6 DEF ReconcileDispatcher
  <1>8. ChannelKept BY <1>7 DEF ReconcileDispatcher, ChannelKept, channel
  <1>9. TypeOK' BY <1>7 DEF IInv, TypeOK, ReconcileDispatcher, Reconciled, channel
  <1> QED BY <1>1, <1>7, <1>8, <1>9, ReconcilingStep DEF IInv

\* reconcileDispatcherService.
LEMMA ServiceStep == ASSUME IInv, ReconcileDispatcherService PROVE IInv'
  <1>1. wk.pc \in Reconciling /\ ChannelKept
      BY DEF ReconcileDispatcherService, Reconciling, ChannelKept, channel, bounds, Fails
  <1>2. ASSUME Goto("endpoints", [wk.res EXCEPT !.status = MarkTrue(@, "Service")])
        PROVE  Reconciled
    <2>1. Goto("endpoints", [wk.res EXCEPT !.status = MarkTrue(wk.res.status, "Service")]) BY <1>2
    <2> QED BY <1>1, <2>1, GotoReconciles, MarkedCopy DEF Dependents, Reconciling
  <1>3. ASSUME End(MarkFalse(wk.res.status, "Service"), "error")
        PROVE  Reconciled
      BY <1>1, <1>3, EndReconciles, MarkedCopy DEF Dependents
  <1>4. Reconciled BY <1>2, <1>3 DEF ReconcileDispatcherService
  <1>5. TypeOK'
    <2>1. edits' \in 0..MaxEdits /\ errors' \in 0..MaxErrors BY ErrorsBounded DEF ReconcileDispatcherService
    <2>2. svc' \in BOOLEAN /\ queued' \in BOOLEAN BY DEF IInv, TypeOK, ReconcileDispatcherService
    <2>3. UNCHANGED <<channel, dep, depCache, depFresh, probe, endpoints, rbac, chSvc>> BY DEF ReconcileDispatcherService
    <2> QED BY <1>4, <2>1, <2>2, <2>3 DEF IInv, TypeOK, Reconciled, channel
  <1> QED BY <1>1, <1>4, <1>5, ReconcilingStep DEF IInv

\* The check of the Endpoints.
LEMMA EndpointsStep == ASSUME IInv, CheckEndpoints PROVE IInv'
  <1>1. wk.pc \in Reconciling /\ ChannelKept
      BY DEF CheckEndpoints, Reconciling, ChannelKept, channel, bounds
  <1>2. ASSUME Goto("channelService", [wk.res EXCEPT !.status = MarkTrue(@, "Endpoints")])
        PROVE  Reconciled
    <2>1. Goto("channelService", [wk.res EXCEPT !.status = MarkTrue(wk.res.status, "Endpoints")])
        BY <1>2
    <2> QED BY <1>1, <2>1, GotoReconciles, MarkedCopy DEF Dependents, Reconciling
  <1>3. ASSUME End(MarkFalse(wk.res.status, "Endpoints"), "error")
        PROVE  Reconciled
      BY <1>1, <1>3, EndReconciles, MarkedCopy DEF Dependents
  <1>4. Reconciled BY <1>2, <1>3 DEF CheckEndpoints
  <1>5. TypeOK'
      BY <1>4 DEF IInv, TypeOK, CheckEndpoints, Reconciled, channel, children, bounds
  <1> QED BY <1>1, <1>4, <1>5, ReconcilingStep DEF IInv

\* reconcileChannelService: the address comes with the condition.
LEMMA ChannelServiceStep == ASSUME IInv, ReconcileChannelService PROVE IInv'
  <1>1. wk.pc \in Reconciling /\ ChannelKept
      BY DEF ReconcileChannelService, Reconciling, ChannelKept, channel, bounds, Fails
  <1>2. PICK s : s = wk.res.status OBVIOUS
  <1>3. /\ Sound(s) /\ Sound(MarkFalse(s, "ChannelService"))
        /\ Sound(SetAddress(MarkTrue(s, "ChannelService")))
        /\ SetAddress(MarkTrue(s, "ChannelService")).observed = s.observed
    <2>1. "ChannelService" \in Dependents BY DEF Dependents
    <2> QED BY <1>1, <1>2, <2>1, ReconcilingCopy, MarkedCopy, AddressIsSound
  <1>4. ASSUME Goto("subscribers", [wk.res EXCEPT !.status =
                                      SetAddress(MarkTrue(wk.res.status, "ChannelService"))])
        PROVE  Reconciled
      BY <1>1, <1>2, <1>3, <1>4, GotoReconciles DEF Reconciling
  <1>5. ASSUME End(MarkFalse(wk.res.status, "ChannelService"), "error")
        PROVE  Reconciled
      BY <1>1, <1>2, <1>3, <1>5, EndReconciles
  <1>6. ASSUME End(wk.res.status, "error")
        PROVE  Reconciled
      BY <1>1, <1>2, <1>3, <1>6, EndReconciles
  <1>7. Reconciled BY <1>4, <1>5, <1>6 DEF ReconcileChannelService
  <1>8. TypeOK'
    <2>1. edits' \in 0..MaxEdits /\ errors' \in 0..MaxErrors BY ErrorsBounded DEF ReconcileChannelService
    <2>2. /\ queued' \in BOOLEAN
          /\ chSvc' \in {"absent", "ok", "drifted", "foreign", "foreignDrifted"}
        BY DEF IInv, TypeOK, ReconcileChannelService
    <2>3. UNCHANGED <<channel, dep, depCache, depFresh, probe, endpoints, rbac, svc>> BY DEF ReconcileChannelService
    <2> QED BY <1>7, <2>1, <2>2, <2>3 DEF IInv, TypeOK, Reconciled, channel
  <1> QED BY <1>1, <1>7, <1>8, ReconcilingStep DEF IInv

\* reconcileSubscribers: what is probed and reported is the subscriber of the copy.
LEMMA SubscribersStep == ASSUME IInv, ReconcileSubscribers PROVE IInv' /\ GuardKept
  <1>0. PICK r : r = wk.res OBVIOUS
  <1>1. PICK after : after = (IF IsReady(r) THEN r.sub ELSE 0) OBVIOUS
  <1>2. /\ wk.pc \in Reconciling /\ PatchSubscribers(r, after)
        /\ probe' = IF r.sub = 0 \/ probe.gen = r.sub THEN probe ELSE [gen |-> r.sub, ready |-> FALSE]
        /\ UNCHANGED <<children, queued>>
      BY <1>0, <1>1 DEF ReconcileSubscribers, Reconciling
  <1>3. r \in Channel /\ r.sub \in 0..MaxSub /\ after \in 0..MaxSub
      BY <1>0, <1>1, <1>2, ReconcilingCopy DEF Channel
  <1>4. Reconciled
    <2>1. End(r.status, "ok") \/ End(r.status, "error") BY <1>2 DEF PatchSubscribers
    <2> QED BY <1>0, <1>2, <2>1, ReconcilingCopy, EndReconciles
  <1>5. probe' \in [gen : 0..MaxSub, ready : BOOLEAN]
      BY <1>0, <1>2, <1>3 DEF IInv, TypeOK
  <1>6. edits' = edits /\ edits' \in 0..MaxEdits /\ errors' \in 0..MaxErrors
    <2>1. UNCHANGED bounds \/ Fails BY <1>2 DEF PatchSubscribers
    <2> QED BY <2>1, ErrorsBounded
  <1>7. CASE UNCHANGED channel
    <2>1. ChannelKept BY <1>6, <1>7 DEF ChannelKept, channel
    <2>2. TypeOK' BY <1>2, <1>4, <1>5, <1>6, <1>7 DEF IInv, TypeOK, Reconciled, channel, children
    <2>3. GuardKept BY <1>7 DEF GuardKept, Guarded, channel
    <2> QED BY <1>2, <1>4, <1>5, <2>1, <2>2, <2>3, ReconcilingStep DEF IInv
  <1>8. CASE obj # Nil /\ Write([obj EXCEPT !.status.reported = after])
    <2>1. obj \in Channel /\ ChannelOK(obj) BY <1>8 DEF IInv, TypeOK, CopyInv
    <2>2. obj' \in Channel /\ obj'.finalizer = obj.finalizer /\ ChannelKept
        BY <1>3, <1>6, <1>8, <2>1, ReportedPut DEF Write, ChannelKept, SameSpec
    <2>3. cache' = cache /\ cacheFresh' = FALSE /\ origFresh' = FALSE BY <1>8 DEF Write
    <2>4. TypeOK' BY <1>2, <1>4, <1>5, <1>6, <2>2, <2>3 DEF IInv, TypeOK, Reconciled, children
    <2>5. GuardKept BY <2>2 DEF GuardKept, Guarded
    <2> QED BY <1>2, <1>4, <1>5, <2>2, <2>4, <2>5, ReconcilingStep DEF IInv
  <1> QED BY <1>2, <1>7, <1>8 DEF PatchSubscribers

--------------------------------------------------------------------------------
(* Steps of Reconcile *)

\* The worker has a copy, and the lister shows one while the channel exists.
LEMMA WorkerCopy ==
    ASSUME IInv, wk.pc # "idle"
    PROVE  /\ wk.was \in Status /\ wk.res \in Channel /\ Copied(wk.res) /\ Sound(wk.res.status)
           /\ obj # Nil => cache # Nil
BY DEF IInv, WorkerInv, CopyInv, Copied, ChannelOK, Sound, TypeOK, Worker, Channel

\* Return: the worker forgets its copy, after it may have written a status that observes no
\* more than the lister shows.
LEMMA ReturnStep ==
    ASSUME IInv, wk.pc # "idle", wk' = Idle, UNCHANGED <<cache, probe, edits>>,
           \/ UNCHANGED obj
           \/ /\ obj # Nil /\ obj' \in Channel /\ ChannelOK(obj') /\ SameSpec(obj', obj)
              /\ obj'.finalizer = obj.finalizer /\ obj'.status.observed <= cache.gen
    PROVE  wk' \in Worker /\ CopyInv' /\ WorkerInv' /\ GuardInv'
  <1>1. wk' \in Worker /\ wk'.pc = "idle" BY DEF Idle, Worker
  <1>2. CopyInv' BY WorkerCopy DEF IInv, CopyInv, SameSpec, Older
  <1>3. WorkerInv' BY <1>1 DEF WorkerInv
  <1>4. GuardInv'
      BY <1>1 DEF IInv, GuardInv, VersionInv, FinalizerInv, Guarded, Precedes, SameSpec, Reconciling
  <1> QED BY <1>1, <1>2, <1>3, <1>4

\* Return, with nothing written.
LEMMA ReturnsOnly ==
    ASSUME IInv, wk.pc # "idle", NEW o, Return(o), UNCHANGED channel, UNCHANGED <<children, probe>>,
           UNCHANGED bounds \/ Fails
    PROVE  IInv' /\ GuardKept
  <1>1. edits' = edits /\ edits' \in 0..MaxEdits /\ errors' \in 0..MaxErrors BY ErrorsBounded
  <1>2. wk' = Idle /\ queued' \in BOOLEAN BY DEF Return, IInv, TypeOK
  <1>3. wk' \in Worker /\ CopyInv' /\ WorkerInv' /\ GuardInv'
      BY <1>1, <1>2, ReturnStep DEF channel
  <1>4. TypeOK' BY <1>1, <1>2, <1>3 DEF IInv, TypeOK, channel, children
  <1>5. GuardKept BY DEF GuardKept, Guarded, channel
  <1> QED BY <1>3, <1>4, <1>5 DEF IInv

\* Return, with the status s written over the object.
LEMMA WritesStatus ==
    ASSUME IInv, wk.pc # "idle", NEW o, Return(o), obj # Nil,
           Write([obj EXCEPT !.status = wk.res.status]), wk.res.status.observed = wk.res.gen,
           UNCHANGED <<children, probe, bounds>>
    PROVE  IInv' /\ GuardKept /\ obj'.status.observed >= obj.status.observed
  <1>1. obj \in Channel /\ obj.gen \in Int /\ wk.res.gen \in Int /\ cache \in Channel /\ cache.gen \in Int
        /\ obj.status.observed \in Int
      BY WorkerCopy DEF IInv, TypeOK, Channel, Status
  <1>2. PICK s : s = wk.res.status OBVIOUS
  <1>3. /\ Sound(s) /\ s.observed <= obj.gen /\ s.observed <= cache.gen
        /\ obj.status.observed <= s.observed
        /\ s.ready = "True" /\ s.observed = obj.gen => ValidSpec(SetDefaults(obj.conf))
      BY <1>1, <1>2, WorkerCopy DEF Copied, ChannelOK, Older
  <1>4. /\ obj' \in Channel /\ ChannelOK(obj') /\ obj'.status = s /\ SameSpec(obj', obj)
        /\ obj'.finalizer = obj.finalizer
      BY <1>1, <1>2, <1>3, StatusPut DEF Write, SameSpec
  <1>5. cache' = cache /\ cacheFresh' = FALSE /\ origFresh' = FALSE BY DEF Write
  <1>6. wk' = Idle /\ queued' \in BOOLEAN BY DEF Return, IInv, TypeOK
  <1>7. wk' \in Worker /\ CopyInv' /\ WorkerInv' /\ GuardInv'
      BY <1>3, <1>4, <1>5, <1>6, ReturnStep DEF bounds
  <1>8. TypeOK' BY <1>4, <1>5, <1>6, <1>7 DEF IInv, TypeOK, children, bounds
  <1>9. GuardKept BY <1>4 DEF GuardKept, Guarded
  <1> QED BY <1>1, <1>3, <1>4, <1>7, <1>8, <1>9 DEF IInv

\* updateStatus. In the first attempt a status that was changed has observed the generation of
\* the copy, so that it belongs to the spec the copy has.
LEMMA UpdateStatusStep == ASSUME IInv, UpdateStatus PROVE IInv' /\ GuardKept
  <1>1. wk.pc = "status" /\ wk.pc # "idle" /\ UNCHANGED children /\ probe' = probe
      BY DEF UpdateStatus
  <1>2. CASE UNCHANGED channel /\ (\E o : Return(o)) /\ (UNCHANGED bounds \/ Fails)
      BY <1>1, <1>2, ReturnsOnly
  <1>3. CASE /\ wk.res.status # wk.was /\ obj # Nil /\ Write([obj EXCEPT !.status = wk.res.status])
             /\ Return(wk.outcome) /\ UNCHANGED bounds
    <2>1. wk.res.status.observed = wk.res.gen BY <1>1, <1>3 DEF IInv, WorkerInv
    <2> QED BY <1>1, <1>3, <2>1, WritesStatus
  <1>4. CASE /\ wk.res.status # wk.was /\ obj # Nil /\ wk' = [wk EXCEPT !.pc = "retry"]
             /\ UNCHANGED <<channel, queued, bounds>>
    <2>1. wk' \in Worker /\ wk'.pc = "retry" /\ wk'.res = wk.res /\ wk'.was = wk.was
        BY <1>4 DEF IInv, TypeOK, Worker
    <2>2. TypeOK' BY <1>1, <1>4, <2>1 DEF IInv, TypeOK, channel, children, bounds
    <2>3. CopyInv' BY <1>1, <1>4, WorkerCopy DEF IInv, CopyInv, channel, bounds
    <2>4. Copied(wk.res)' BY <1>1, <1>4, <2>1, WorkerCopy DEF Copied, channel
    <2>5. WorkerInv' BY <1>1, <1>4, <2>1, <2>4 DEF IInv, WorkerInv, Reconciling
    <2>6. GuardInv'
        BY <1>1, <1>4, <2>1 DEF IInv, GuardInv, VersionInv, FinalizerInv, Guarded, Reconciling, channel
    <2>7. GuardKept BY <1>4 DEF GuardKept, Guarded, channel
    <2> QED BY <2>2, <2>3, <2>5, <2>6, <2>7 DEF IInv
  <1> QED BY <1>1, <1>2, <1>3, <1>4 DEF UpdateStatus

\* A later attempt of updateStatus.
LEMMA RetryStep == ASSUME IInv, RetryUpdateStatus PROVE IInv' /\ GuardKept
  <1>1. wk.pc = "retry" /\ wk.pc # "idle" /\ UNCHANGED children /\ probe' = probe
      BY DEF RetryUpdateStatus
  <1>2. CASE UNCHANGED channel /\ (\E o : Return(o)) /\ (UNCHANGED bounds \/ Fails)
      BY <1>1, <1>2, ReturnsOnly
  <1>3. CASE /\ obj # Nil /\ Write([obj EXCEPT !.status = wk.res.status])
             /\ Return(wk.outcome) /\ UNCHANGED bounds
    <2>1. wk.res.status.observed = wk.res.gen BY <1>1, <1>3 DEF IInv, WorkerInv
    <2> QED BY <1>1, <1>3, <2>1, WritesStatus
  <1> QED BY <1>1, <1>2, <1>3 DEF RetryUpdateStatus

\* clearFinalizer. The lister may show the object for a while after it is gone, but as one
\* that is being deleted.
LEMMA ClearStep == ASSUME IInv, ClearFinalizer PROVE IInv'
  <1>1. wk.pc = "clear" /\ wk.pc # "idle" /\ UNCHANGED children /\ probe' = probe
      BY DEF ClearFinalizer
  <1>2. CASE UNCHANGED channel /\ Return("error") /\ (UNCHANGED bounds \/ Fails)
      BY <1>1, <1>2, ReturnsOnly
  <1>3. CASE Goto("status", wk.res) /\ UNCHANGED <<channel, queued, bounds>>
    <2>1. wk' \in Worker /\ wk'.pc = "status" /\ wk'.res = wk.res /\ wk'.was = wk.was
        BY <1>3, <1>1, WorkerCopy DEF IInv, TypeOK, Worker, Goto
    <2>2. TypeOK' BY <1>1, <1>3, <2>1 DEF IInv, TypeOK, channel, children, bounds
    <2>3. CopyInv' BY <1>1, <1>3, WorkerCopy DEF IInv, CopyInv, channel, bounds
    <2>4. Copied(wk.res)' BY <1>1, <1>3, <2>1, WorkerCopy DEF Copied, channel
    <2>5. WorkerInv' BY <1>1, <1>3, <2>1, <2>4 DEF IInv, WorkerInv, Reconciling
    <2>6. GuardInv'
        BY <1>1, <1>3, <2>1 DEF IInv, GuardInv, VersionInv, FinalizerInv, Guarded, Reconciling, channel
    <2> QED BY <2>2, <2>3, <2>5, <2>6 DEF IInv
  <1>4. CASE /\ PatchApplies /\ Write(Nil) /\ Goto("status", [obj EXCEPT !.finalizer = FALSE])
             /\ UNCHANGED <<queued, bounds>>
    <2>1. /\ obj \in Channel /\ ChannelOK(obj) /\ cache = obj /\ cache # Nil
          /\ obj' = Nil /\ cache' = cache /\ cacheFresh' = FALSE /\ origFresh' = FALSE
        BY <1>4 DEF PatchApplies, Write, IInv, TypeOK, CopyInv
    <2>2. PICK r : r = [obj EXCEPT !.finalizer = FALSE] OBVIOUS
    <2>3. r \in Channel /\ ChannelOK(r) /\ SameSpec(r, obj)
        BY <2>1, <2>2, FinalizerPut DEF SameSpec
    <2>4. wk' \in Worker /\ wk'.pc = "status" /\ wk'.res = r /\ wk'.was = wk.was
        BY <1>1, <1>4, <2>2, <2>3 DEF IInv, TypeOK, Worker, Goto
    <2>5. TypeOK' BY <1>1, <1>4, <2>1, <2>4 DEF IInv, TypeOK, children, bounds
    <2>6. CopyInv' BY <2>1 DEF IInv, CopyInv
    <2>7. r.gen \in Int /\ r.sub \in Int BY <2>3 DEF Channel
    <2>8. Copied(wk.res)' BY <2>1, <2>3, <2>4, <2>7 DEF Copied, SameSpec
    <2>9. WorkerInv' BY <1>1, <2>1, <2>4, <2>8, WorkerCopy DEF WorkerInv, Reconciling
    <2>10. GuardInv'
        BY <1>1, <2>1, <2>3, <2>4, <2>7 DEF IInv, GuardInv, VersionInv, FinalizerInv, Guarded, Precedes,
                                            SameSpec, Reconciling
    <2> QED BY <2>5, <2>6, <2>9, <2>10 DEF IInv
  <1> QED BY <1>1, <1>2, <1>3, <1>4 DEF ClearFinalizer

\* PreProcessReconcile and the beginning of ReconcileKind. A channel that Validate rejects is
\* observed, but it is Ready only if it was with the same spec.
LEMMA StartsSound ==
    ASSUME wk \in Worker, NEW r \in Channel, ChannelOK(r), Start(r)
    PROVE  /\ wk' \in Worker /\ wk'.was = wk.was
           /\ wk'.res \in Channel /\ ChannelOK(wk'.res) /\ SameSpec(wk'.res, r)
           /\ \/ wk'.pc = "rbac" /\ ValidSpec(SetDefaults(r.conf))
              \/ wk'.pc = "status" /\ wk'.res.status.observed = wk'.res.gen
  <1>1. PICK s : s = IF r.status.observed # r.gen THEN MarkReadyUnknown(r.status) ELSE r.status
      OBVIOUS
  <1>2. Sound(r.status) /\ r.gen \in 1..MaxEdits + 1 /\ r.status.observed \in Int
        /\ r.status.observed <= r.gen /\ "Config" \in Dependents /\ "Topic" \in Dependents
      BY DEF Sound, ChannelOK, Channel, Status, Dependents
  <1>3. /\ Sound(s) /\ s.observed = r.status.observed
        /\ s.ready = "True" => ValidSpec(SetDefaults(r.conf))
      BY <1>1, <1>2, MarksAreSound DEF ChannelOK
  <1>4. CASE Validate(r)
    <2>0. ValidSpec(SetDefaults(r.conf)) BY <1>4 DEF Validate
    <2>1. PICK m : m = MarkTrue(MarkTrue(s, "Config"), "Topic") OBVIOUS
    <2>2. Sound(MarkTrue(s, "Config")) /\ MarkTrue(s, "Config").observed = s.observed
        BY <1>2, <1>3, MarksAreSound
    <2>3. Sound(m) /\ m.observed = s.observed BY <1>2, <2>1, <2>2, MarksAreSound
    <2>4. PICK n : n = [r EXCEPT !.status = m] OBVIOUS
    <2>5. n \in Channel /\ ChannelOK(n) /\ SameSpec(n, r)
        BY <1>2, <1>3, <2>0, <2>3, <2>4, StatusPut DEF SameSpec
    <2>6. wk' = [wk EXCEPT !.pc = "rbac", !.res = n] BY <1>1, <1>4, <2>1, <2>4 DEF Start
    <2> QED BY <2>0, <2>5, <2>6 DEF Worker
  <1>5. CASE ~Validate(r)
    <2>1. PICK m : m = [s EXCEPT !.observed = r.gen] OBVIOUS
    <2>2. Sound(m) /\ m.observed = r.gen /\ m.ready = s.ready
        BY <1>2, <1>3, <2>1 DEF Sound, Justified, Status
    <2>3. PICK n : n = [r EXCEPT !.status = m] OBVIOUS
    <2>4. n \in Channel /\ ChannelOK(n) /\ SameSpec(n, r) /\ n.status.observed = n.gen
        BY <1>2, <1>3, <2>2, <2>3, StatusPut DEF SameSpec
    <2>5. wk' = [wk EXCEPT !.pc = "status", !.outcome = "error", !.res = n]
        BY <1>1, <1>5, <2>1, <2>3 DEF Start
    <2> QED BY <2>4, <2>5 DEF Worker
  <1> QED BY <1>4, <1>5

\* setFinalizerIfFinalizer. Where the lister shows the finalizer on a channel that is not
\* being deleted, the object has it.
LEMMA SetFinalizerStep == ASSUME IInv, SetFinalizer PROVE IInv' /\ GuardKept
  <1>1. wk.pc = "finalizer" /\ wk.pc # "idle" /\ UNCHANGED children /\ probe' = probe /\ wk \in Worker
      BY DEF SetFinalizer, IInv, TypeOK
  <1>2. CASE UNCHANGED channel /\ Return("error") /\ (UNCHANGED bounds \/ Fails)
      BY <1>1, <1>2, ReturnsOnly
  <1>3. CASE /\ cache # Nil /\ cache.finalizer /\ Start([wk.res EXCEPT !.finalizer = TRUE])
             /\ UNCHANGED <<channel, queued, bounds>>
    <2>1. PICK r : r = [wk.res EXCEPT !.finalizer = TRUE] OBVIOUS
    <2>2. r \in Channel /\ ChannelOK(r) /\ SameSpec(r, wk.res)
        BY <1>1, <2>1, WorkerCopy, FinalizerPut DEF SameSpec, Copied
    <2>3. Start(r) BY <1>3, <2>1
    <2>4. /\ wk' \in Worker /\ wk'.was = wk.was
          /\ wk'.res \in Channel /\ ChannelOK(wk'.res) /\ SameSpec(wk'.res, r)
          /\ \/ wk'.pc = "rbac" /\ ValidSpec(SetDefaults(r.conf))
             \/ wk'.pc = "status" /\ wk'.res.status.observed = wk'.res.gen
        BY <1>1, <2>2, <2>3, StartsSound
    <2>5. TypeOK' BY <1>1, <1>3, <2>4 DEF IInv, TypeOK, channel, children, bounds
    <2>6. CopyInv' BY <1>1, <1>3, WorkerCopy DEF IInv, CopyInv, channel, bounds
    <2>7. Copied(wk.res)'
        BY <1>1, <1>3, <2>2, <2>4, WorkerCopy DEF Copied, SameSpec, Older, channel
    <2>8. WorkerInv'
        BY <1>1, <2>2, <2>4, <2>7, WorkerCopy DEF WorkerInv, Reconciling, SameSpec
    <2>9. GuardInv'
        BY <1>1, <1>3, <2>2, <2>4 DEF IInv, GuardInv, VersionInv, FinalizerInv, Guarded, Precedes,
                                      SameSpec, Reconciling, channel
    <2>10. GuardKept BY <1>3 DEF GuardKept, Guarded, channel
    <2> QED BY <2>5, <2>6, <2>8, <2>9, <2>10 DEF IInv
  <1>4. CASE /\ PatchApplies /\ Write([obj EXCEPT !.finalizer = TRUE])
             /\ Start([obj EXCEPT !.finalizer = TRUE]) /\ UNCHANGED <<queued, bounds>>
    <2>1. /\ obj # Nil /\ obj \in Channel /\ ChannelOK(obj) /\ cache = obj /\ cache' = cache
          /\ cacheFresh' = FALSE /\ origFresh' = FALSE
        BY <1>4 DEF PatchApplies, Write, IInv, TypeOK, CopyInv
    <2>2. PICK r : r = [obj EXCEPT !.finalizer = TRUE] OBVIOUS
    <2>3. /\ r \in Channel /\ ChannelOK(r) /\ SameSpec(r, obj) /\ r.finalizer = TRUE
          /\ r.status = obj.status
        BY <2>1, <2>2, FinalizerPut DEF SameSpec
    <2>4. Start(r) /\ obj' = r BY <1>4, <2>2 DEF Write
    <2>5. /\ wk' \in Worker /\ wk'.was = wk.was
          /\ wk'.res \in Channel /\ ChannelOK(wk'.res) /\ SameSpec(wk'.res, r)
          /\ \/ wk'.pc = "rbac" /\ ValidSpec(SetDefaults(r.conf))
             \/ wk'.pc = "status" /\ wk'.res.status.observed = wk'.res.gen
        BY <1>1, <2>3, <2>4, StartsSound
    <2>6. r.gen \in Int /\ r.sub \in Int BY <2>3 DEF Channel
    <2>7. TypeOK' BY <1>1, <1>4, <2>1, <2>3, <2>4, <2>5 DEF IInv, TypeOK, children, bounds
    <2>8. CopyInv'
        BY <1>4, <2>1, <2>3, <2>4, <2>6 DEF IInv, CopyInv, ChannelOK, SameSpec, Older, bounds
    <2>9. Copied(wk.res)'
        BY <2>1, <2>3, <2>4, <2>5, <2>6 DEF Copied, ChannelOK, SameSpec, Older
    <2>10. WorkerInv' BY <1>1, <2>3, <2>5, <2>9, WorkerCopy DEF WorkerInv, Reconciling, SameSpec
    <2>11. GuardInv'
        BY <1>1, <2>1, <2>3, <2>4, <2>5, <2>6 DEF IInv, GuardInv, VersionInv, FinalizerInv,
                                                  Guarded, Precedes, SameSpec, Reconciling
    <2>12. GuardKept BY <2>3, <2>4 DEF GuardKept, Guarded
    <2> QED BY <2>7, <2>8, <2>10, <2>11, <2>12 DEF IInv
  <1> QED BY <1>1, <1>2, <1>3, <1>4 DEF SetFinalizer

\* Reconcile takes the lister's copy. Once FinalizeKind has run nothing is probed, unless the
\* copy lists no subscriber.
LEMMA DequeueStep == ASSUME IInv, Dequeue PROVE IInv'
  <1>0. queued' \in BOOLEAN /\ origFresh' \in BOOLEAN BY DEF Dequeue, IInv, TypeOK
  <1>1. wk.pc = "idle" /\ UNCHANGED <<obj, cache, cacheFresh, children, bounds>> BY DEF Dequeue
  <1>2. CASE cache = Nil
    <2>1. UNCHANGED <<wk, probe>> BY <1>2 DEF Dequeue
    <2>2. TypeOK' BY <1>0, <1>1, <2>1 DEF IInv, TypeOK, children, bounds
    <2>3. CopyInv' /\ WorkerInv' BY <1>1, <2>1 DEF IInv, CopyInv, WorkerInv, bounds
    <2>4. GuardInv' BY <1>1, <2>1 DEF IInv, GuardInv, VersionInv, FinalizerInv, Guarded
    <2> QED BY <2>2, <2>3, <2>4 DEF IInv
  <1>3. CASE cache # Nil
    <2>1. /\ wk' = [Idle EXCEPT !.pc = IF cache.deleting THEN "clear" ELSE "finalizer",
                                !.was = cache.status, !.res = cache]
          /\ probe' = IF cache.deleting THEN FinalizeKind(cache) ELSE probe
        BY <1>3 DEF Dequeue
    <2>2. /\ cache \in Channel /\ cache.status \in Status /\ ChannelOK(cache)
          /\ cache.gen \in Int /\ cache.sub \in 0..MaxSub
        BY <1>3 DEF IInv, TypeOK, CopyInv, Channel
    <2>3. /\ wk' \in Worker /\ wk'.pc = (IF cache.deleting THEN "clear" ELSE "finalizer")
          /\ wk'.was = cache.status /\ wk'.res = cache
        BY <2>1, <2>2 DEF Idle, Worker
    <2>4. /\ probe' \in [gen : 0..MaxSub, ready : BOOLEAN] /\ (probe' = probe \/ probe'.gen = 0)
          /\ cache.deleting /\ cache.sub # 0 => probe'.gen = 0
        BY <2>1 DEF FinalizeKind, NotProbed, IInv, TypeOK
    <2>5. TypeOK' BY <1>0, <1>1, <2>3, <2>4 DEF IInv, TypeOK, children, bounds
    <2>6. CopyInv' BY <1>1, <1>3 DEF IInv, CopyInv, bounds
    <2>7. Copied(wk.res)' BY <1>1, <1>3, <2>2, <2>3 DEF IInv, CopyInv, Copied
    <2>8. WorkerInv' BY <2>2, <2>3, <2>7 DEF WorkerInv, Reconciling
    <2>9. VersionInv' BY <1>1, <1>3, <2>2, <2>3 DEF IInv, GuardInv, VersionInv, Precedes
    <2>10. FinalizerInv'
      <3>1. wk'.pc = "clear" => cache.deleting BY <2>3
      <3>2. wk.pc \notin Reconciling \cup {"finalizer"} /\ wk'.pc \notin Reconciling
            /\ (cache.deleting => wk'.pc \notin Reconciling \cup {"finalizer"})
          BY <1>1, <2>3 DEF Reconciling
      <3>3. cache.finalizer => \/ Guarded
                               \/ cache.deleting /\ wk'.pc \notin Reconciling \cup {"finalizer"}
          BY <1>3, <3>2 DEF IInv, GuardInv, FinalizerInv, Guarded
      <3> QED BY <1>1, <1>3, <2>2, <2>3, <2>4, <3>1, <3>2, <3>3 DEF FinalizerInv, Guarded
    <2>11. GuardInv' BY <2>9, <2>10 DEF GuardInv
    <2> QED BY <2>5, <2>6, <2>8, <2>11 DEF IInv
  <1> QED BY <1>2, <1>3

--------------------------------------------------------------------------------
(* Steps of the environment *)

\* A step that changes neither a version of the channel nor the worker.
LEMMA ChannelAside ==
    ASSUME IInv, UNCHANGED <<obj, cache, wk>>, probe'.gen = probe.gen,
           edits' = edits \/ edits' = edits + 1
    PROVE  CopyInv' /\ WorkerInv' /\ GuardInv'
  <1>1. CopyInv'
    <2>1. obj # Nil => obj.gen \in Int BY DEF IInv, TypeOK, Channel
    <2> QED BY <2>1 DEF IInv, CopyInv, TypeOK
  <1>2. WorkerInv' BY DEF IInv, WorkerInv, Copied
  <1>3. GuardInv' BY DEF IInv, GuardInv, VersionInv, FinalizerInv, Guarded
  <1> QED BY <1>1, <1>2, <1>3

\* An edit of the environment counts.
LEMMA EditCounts ==
    ASSUME IInv, NEW kind, Edit(kind)
    PROVE  edits' = edits + 1 /\ edits' \in 0..MaxEdits /\ errors' \in 0..MaxErrors
           /\ UNCHANGED <<probe, wk>>
BY DEF Edit, IInv, TypeOK

\* The Deployment is changed by somebody else.
LEMMA EditDeploymentStep ==
    ASSUME IInv, NEW kind, NEW new \in Deployment \cup {Nil}, EditDeployment(kind, new) PROVE IInv'
  <1>1. edits' = edits + 1 /\ edits' \in 0..MaxEdits /\ errors' \in 0..MaxErrors
        /\ UNCHANGED <<probe, wk>>
      BY EditCounts DEF EditDeployment
  <1>2. dep' \in Deployment \cup {Nil} /\ depFresh' \in BOOLEAN
        /\ UNCHANGED <<channel, depCache, rbac, svc, endpoints, chSvc, queued>>
      BY DEF EditDeployment
  <1>3. TypeOK' BY <1>1, <1>2 DEF IInv, TypeOK, channel
  <1> QED BY <1>1, <1>2, <1>3, ChannelAside DEF IInv, channel

\* The Endpoints of the dispatcher change.
LEMMA EditEndpointsStep ==
    ASSUME IInv, NEW e \in {"absent", "empty", "ready"}, EditEndpoints(e) PROVE IInv'
  <1>1. edits' = edits + 1 /\ edits' \in 0..MaxEdits /\ errors' \in 0..MaxErrors
        /\ UNCHANGED <<probe, wk>>
      BY EditCounts DEF EditEndpoints
  <1>2. TypeOK' BY <1>1 DEF IInv, TypeOK, EditEndpoints, channel
  <1> QED BY <1>1, <1>2, ChannelAside DEF IInv, EditEndpoints, channel

\* The Service of the dispatcher or of the channel changes.
LEMMA EditServicesStep ==
    ASSUME IInv, \/ RemoveDispatcherService
                 \/ \E c \in {"absent", "drifted", "foreign", "foreignDrifted"} : EditChannelService(c)
    PROVE  IInv'
  <1>1. edits' = edits + 1 /\ edits' \in 0..MaxEdits /\ errors' \in 0..MaxErrors
        /\ UNCHANGED <<probe, wk>>
      BY EditCounts DEF RemoveDispatcherService, EditChannelService
  <1>2. /\ svc' \in BOOLEAN /\ queued' \in BOOLEAN
        /\ chSvc' \in {"absent", "ok", "drifted", "foreign", "foreignDrifted"}
      BY DEF RemoveDispatcherService, EditChannelService, IInv, TypeOK
  <1>3. UNCHANGED <<channel, dep, depCache, depFresh, rbac, endpoints>>
      BY DEF RemoveDispatcherService, EditChannelService
  <1>4. TypeOK' BY <1>1, <1>2, <1>3 DEF IInv, TypeOK, channel
  <1> QED BY <1>1, <1>3, <1>4, ChannelAside DEF IInv, channel

\* The Deployment's informer, the cluster's own controllers, the periodic resync and the
\* callback of the prober.
LEMMA BackgroundStep ==
    ASSUME IInv, WatchDeployment \/ PodsStart \/ EndpointsAppear \/ Resync \/ ProbeSucceeds
    PROVE  IInv'
  <1>1. UNCHANGED <<channel, wk, bounds, rbac, svc, chSvc>>
      BY DEF WatchDeployment, PodsStart, EndpointsAppear, Resync, ProbeSucceeds, children
  <1>2. /\ dep' \in Deployment \cup {Nil} /\ depCache' \in Deployment \cup {Nil}
        /\ depFresh' \in BOOLEAN /\ endpoints' \in {"absent", "empty", "ready"}
        /\ queued' \in BOOLEAN
    <2>1. \A d \in Deployment : [d EXCEPT !.available = "True"] \in Deployment
        BY DEF Deployment, CondStatus
    <2> QED BY <2>1 DEF WatchDeployment, PodsStart, EndpointsAppear, Resync, ProbeSucceeds, children,
                        IInv, TypeOK
  <1>3. probe' \in [gen : 0..MaxSub, ready : BOOLEAN] /\ probe'.gen = probe.gen
      BY DEF WatchDeployment, PodsStart, EndpointsAppear, Resync, ProbeSucceeds, IInv, TypeOK
  <1>4. TypeOK' BY <1>1, <1>2, <1>3 DEF IInv, TypeOK, channel, bounds
  <1> QED BY <1>1, <1>3, <1>4, ChannelAside DEF IInv, channel, bounds

\* The spec is changed: a new generation, which nobody has observed.
LEMMA EditSpecStep ==
    ASSUME IInv, NEW kind, NEW sub \in 0..MaxSub, NEW conf \in Confs, EditSpec(kind, sub, conf)
    PROVE  IInv' /\ GuardKept
  <1>1. edits' = edits + 1 /\ edits' \in 0..MaxEdits /\ errors' \in 0..MaxErrors
        /\ UNCHANGED <<probe, wk>> /\ edits \in Int
      BY EditCounts DEF EditSpec, IInv, TypeOK
  <1>2. /\ obj # Nil /\ obj \in Channel /\ ChannelOK(obj) /\ obj.gen <= edits + 1
        /\ obj.gen \in 1..MaxEdits + 1 /\ obj.sub \in 0..MaxSub /\ obj.status.observed \in Int
      BY DEF EditSpec, IInv, TypeOK, CopyInv, Channel, Status
  <1>3. obj' = [obj EXCEPT !.gen = @ + 1, !.sub = sub, !.conf = conf] /\ cache' = cache
        /\ cacheFresh' = FALSE /\ origFresh' = FALSE /\ UNCHANGED <<children, queued>>
      BY DEF EditSpec, Write
  <1>4. /\ obj' \in Channel /\ obj'.gen = obj.gen + 1 /\ obj'.sub = sub /\ obj'.status = obj.status
        /\ obj'.deleting = obj.deleting /\ obj'.finalizer = obj.finalizer
    <2>1. PICK g : g = obj.gen + 1 OBVIOUS
    <2>2. g \in 1..MaxEdits + 1 BY <1>1, <1>2, <2>1
    <2>3. obj' = [obj EXCEPT !.gen = g, !.sub = sub, !.conf = conf] BY <1>3, <2>1
    <2> QED BY <1>2, <2>1, <2>2, <2>3 DEF Channel
  <1>5. ChannelOK(obj)' BY <1>2, <1>4 DEF ChannelOK
  <1>6. TypeOK' BY <1>1, <1>3, <1>4 DEF IInv, TypeOK, children
  <1>7. cache # Nil => cache.gen \in Int /\ cache.sub \in Int BY DEF IInv, TypeOK, Channel
  <1>8. CopyInv' BY <1>1, <1>2, <1>3, <1>4, <1>5, <1>7 DEF IInv, CopyInv, Older
  <1>9. wk.pc # "idle" => wk.res \in Channel /\ wk.res.gen \in Int /\ wk.res.sub \in Int
      BY WorkerCopy DEF Channel
  <1>10. WorkerInv'
    <2>1. wk.pc # "idle" => Copied(wk.res)'
        BY <1>1, <1>2, <1>3, <1>4, <1>9, WorkerCopy DEF Copied, Older
    <2> QED BY <1>1, <1>2, <1>4, <2>1 DEF IInv, WorkerInv
  <1>11. GuardInv'
      BY <1>1, <1>2, <1>3, <1>4, <1>7, <1>9 DEF IInv, GuardInv, VersionInv, FinalizerInv, Guarded, Precedes
  <1>12. GuardKept BY <1>4 DEF GuardKept, Guarded
  <1> QED BY <1>6, <1>8, <1>10, <1>11, <1>12 DEF IInv

\* The scope annotation is changed: the generation stays what it is.
LEMMA EditAnnotationStep ==
    ASSUME IInv, NEW scope \in Scopes, EditAnnotation(scope)
    PROVE  IInv' /\ GuardKept
  <1>1. edits' = edits + 1 /\ edits' \in 0..MaxEdits /\ errors' \in 0..MaxErrors
        /\ UNCHANGED <<probe, wk>> /\ edits \in Int
      BY EditCounts DEF EditAnnotation, IInv, TypeOK
  <1>2. obj # Nil /\ obj \in Channel /\ ChannelOK(obj) /\ obj.gen <= edits + 1 /\ obj.gen \in Int
      BY DEF EditAnnotation, IInv, TypeOK, CopyInv, Channel
  <1>3. obj' = [obj EXCEPT !.scope = scope] /\ cache' = cache
        /\ cacheFresh' = FALSE /\ origFresh' = FALSE /\ UNCHANGED <<children, queued>>
      BY DEF EditAnnotation, Write
  <1>4. /\ obj' \in Channel /\ obj'.gen = obj.gen /\ obj'.conf = obj.conf /\ obj'.status = obj.status
        /\ obj'.deleting = obj.deleting /\ obj'.finalizer = obj.finalizer
      BY <1>2, <1>3 DEF Channel
  <1>5. ChannelOK(obj)' BY <1>2, <1>4 DEF ChannelOK
  <1>6. TypeOK' BY <1>1, <1>3, <1>4 DEF IInv, TypeOK, children
  <1>7. CopyInv' BY <1>1, <1>2, <1>3, <1>4, <1>5 DEF IInv, CopyInv, Older
  <1>8. WorkerInv'
    <2>1. wk.pc # "idle" => Copied(wk.res)'
        BY <1>1, <1>2, <1>3, <1>4, WorkerCopy DEF Copied, Older
    <2> QED BY <1>1, <1>2, <1>4, <2>1 DEF IInv, WorkerInv
  <1>9. GuardInv'
      BY <1>1, <1>2, <1>3, <1>4 DEF IInv, GuardInv, VersionInv, FinalizerInv, Guarded, Precedes
  <1>10. GuardKept BY <1>4 DEF GuardKept, Guarded
  <1> QED BY <1>6, <1>7, <1>8, <1>9, <1>10 DEF IInv

\* The channel is deleted: with a finalizer it is marked and gets a new generation, without one
\* it is gone, and the worker is not in ReconcileKind.
LEMMA DeleteStep == ASSUME IInv, DeleteChannel PROVE IInv' /\ GuardKept
  <1>1. edits' = edits + 1 /\ edits' \in 0..MaxEdits /\ errors' \in 0..MaxErrors
        /\ UNCHANGED <<probe, wk>> /\ edits \in Int
      BY EditCounts DEF DeleteChannel, IInv, TypeOK
  <1>2. /\ obj # Nil /\ obj \in Channel /\ ChannelOK(obj) /\ obj.gen <= edits + 1
        /\ obj.gen \in 1..MaxEdits + 1 /\ obj.status.observed \in Int
      BY DEF DeleteChannel, IInv, TypeOK, CopyInv, Channel, Status
  <1>3. /\ obj' = IF obj.finalizer THEN [obj EXCEPT !.gen = @ + 1, !.deleting = TRUE] ELSE Nil
        /\ cache' = cache /\ cacheFresh' = FALSE /\ origFresh' = FALSE /\ UNCHANGED <<children, queued>>
      BY DEF DeleteChannel, Write
  <1>4. CASE obj.finalizer
    <2>1. /\ obj' # Nil /\ obj' \in Channel /\ obj'.gen = obj.gen + 1
          /\ obj'.status = obj.status /\ obj'.deleting = TRUE /\ obj'.finalizer = obj.finalizer
      <3>1. PICK g : g = obj.gen + 1 OBVIOUS
      <3>2. g \in 1..MaxEdits + 1 BY <1>1, <1>2, <3>1
      <3>3. obj' = [obj EXCEPT !.gen = g, !.deleting = TRUE] BY <1>3, <1>4, <3>1
      <3> QED BY <1>2, <3>1, <3>2, <3>3 DEF Channel
    <2>2. ChannelOK(obj)' BY <1>2, <2>1 DEF ChannelOK
    <2>3. TypeOK' BY <1>1, <1>3, <2>1 DEF IInv, TypeOK, children
    <2>4. cache # Nil => cache.gen \in Int BY DEF IInv, TypeOK, Channel
    <2>5. CopyInv' BY <1>1, <1>2, <1>3, <2>1, <2>2, <2>4 DEF IInv, CopyInv, Older
    <2>6. wk.pc # "idle" => wk.res \in Channel /\ wk.res.gen \in Int BY WorkerCopy DEF Channel
    <2>7. wk.pc # "idle" => Copied(wk.res)'
        BY <1>1, <1>2, <1>3, <2>1, <2>6, WorkerCopy DEF Copied, Older
    <2>8. WorkerInv' BY <1>1, <1>2, <2>1, <2>7 DEF IInv, WorkerInv
    <2>9. GuardInv'
        BY <1>1, <1>2, <1>3, <2>1 DEF IInv, GuardInv, VersionInv, FinalizerInv, Guarded, Precedes
    <2>10. GuardKept BY <2>1 DEF GuardKept, Guarded
    <2> QED BY <2>3, <2>5, <2>8, <2>9, <2>10 DEF IInv
  <1>5. CASE ~obj.finalizer
    <2>1. obj' = Nil BY <1>3, <1>5
    <2>2. TypeOK' BY <1>1, <1>3, <2>1 DEF IInv, TypeOK, children
    <2>3. CopyInv' BY <1>3, <2>1 DEF IInv, CopyInv
    <2>4. wk.pc # "idle" => Copied(wk.res)' BY <1>1, <1>3, <2>1, WorkerCopy DEF Copied
    <2>5. WorkerInv' BY <1>1, <2>1, <2>4 DEF IInv, WorkerInv
    <2>6. GuardInv'
        BY <1>1, <1>2, <1>3, <1>5, <2>1 DEF IInv, GuardInv, VersionInv, FinalizerInv, Guarded
    <2>7. GuardKept BY <1>5 DEF GuardKept, Guarded
    <2> QED BY <2>2, <2>3, <2>5, <2>6, <2>7 DEF IInv
  <1> QED BY <1>4, <1>5

\* The channel's informer: the copy becomes the object.
LEMMA WatchStep == ASSUME IInv, WatchChannel PROVE IInv'
  <1>1. /\ cache' = obj /\ cacheFresh' = TRUE /\ queued' = TRUE
        /\ UNCHANGED <<obj, origFresh, children, probe, wk, bounds>>
      BY DEF WatchChannel
  <1>2. obj # Nil => obj \in Channel /\ ChannelOK(obj) /\ obj.gen \in Int /\ obj.sub \in Int
      BY DEF IInv, TypeOK, CopyInv, Channel
  <1>3. TypeOK' BY <1>1 DEF IInv, TypeOK, children, bounds
  <1>4. CopyInv' BY <1>1, <1>2 DEF IInv, CopyInv, Older, ChannelOK, bounds
  <1>5. wk.pc # "idle" => Copied(wk.res)' BY <1>1, WorkerCopy DEF Copied, Older
  <1>6. WorkerInv' BY <1>1, <1>5 DEF IInv, WorkerInv
  <1>7. cache # Nil => cache.sub \in Int BY DEF IInv, TypeOK, Channel
  <1>8. probe.gen \in Int BY DEF IInv, TypeOK
  <1>9. GuardInv'
      BY <1>1, <1>2, <1>7, <1>8 DEF IInv, GuardInv, VersionInv, FinalizerInv, Guarded, Precedes
  <1> QED BY <1>3, <1>4, <1>6, <1>9 DEF IInv

\* The controller is restarted.
LEMMA RestartStep == ASSUME IInv, Restart PROVE IInv'
  <1>1. /\ cache' = obj /\ cacheFresh' = TRUE /\ depCache' = dep /\ depFresh' = TRUE
        /\ probe' = NotProbed /\ wk' = Idle
        /\ UNCHANGED <<obj, origFresh, dep, rbac, svc, endpoints, chSvc, edits>>
      BY DEF Restart
  <1>2. queued' \in BOOLEAN /\ errors' \in 0..MaxErrors BY DEF Restart, IInv, TypeOK
  <1>3. wk' \in Worker /\ wk'.pc = "idle" /\ probe' \in [gen : 0..MaxSub, ready : BOOLEAN] /\ probe'.gen = 0
      BY <1>1 DEF Idle, Worker, NotProbed
  <1>4. obj # Nil => obj \in Channel /\ ChannelOK(obj) /\ obj.gen \in Int /\ obj.sub \in Int
      BY DEF IInv, TypeOK, CopyInv, Channel
  <1>5. TypeOK' BY <1>1, <1>2, <1>3 DEF IInv, TypeOK
  <1>6. CopyInv' BY <1>1, <1>3, <1>4 DEF IInv, CopyInv, Older, ChannelOK
  <1>7. WorkerInv' BY <1>3 DEF WorkerInv
  <1>8. GuardInv'
      BY <1>1, <1>3, <1>4 DEF IInv, GuardInv, VersionInv, FinalizerInv, Guarded, Precedes, Reconciling
  <1> QED BY <1>5, <1>6, <1>7, <1>8 DEF IInv

--------------------------------------------------------------------------------
(* The invariant and its consequences *)

\* The channel as users create it, unknown to the controller.
LEMMA InitIInv == Init => IInv
  <1> SUFFICES ASSUME Init PROVE IInv OBVIOUS
  <1>1. /\ InitialStatus \in Status /\ InitialStatus.ready = "Unknown" /\ InitialStatus.observed = 0
        /\ InitialStatus.conds["Addressable"] = "Unknown"
    <2>1. [t \in Dependents |-> "Unknown"] \in [Dependents -> CondStatus] BY DEF CondStatus
    <2> QED BY <2>1 DEF InitialStatus, Status, CondStatus, Dependents
  <1>2. /\ obj \in Channel /\ obj.gen = 1 /\ obj.sub = 0 /\ obj.status = InitialStatus
        /\ obj.deleting = FALSE /\ obj.finalizer = FALSE
      BY <1>1 DEF Init, NewChannel, Channel
  <1>3. ChannelOK(obj) BY <1>1, <1>2 DEF ChannelOK, Justified
  <1>4. wk \in Worker /\ wk.pc = "idle" BY DEF Init, Idle, Worker
  <1>5. probe \in [gen : 0..MaxSub, ready : BOOLEAN] /\ probe.gen = 0 BY DEF Init, NotProbed
  <1>6. TypeOK
    <2>1. /\ cacheFresh \in BOOLEAN /\ ~cacheFresh /\ origFresh \in BOOLEAN /\ depFresh \in BOOLEAN
          /\ rbac \in BOOLEAN /\ svc \in BOOLEAN /\ queued \in BOOLEAN
        BY DEF Init
    <2>2. /\ cache = Nil /\ dep = Nil /\ depCache = Nil /\ endpoints = "absent" /\ chSvc = "absent"
          /\ edits = 0 /\ errors = 0
        BY DEF Init
    <2> QED BY <1>2, <1>4, <1>5, <2>1, <2>2 DEF TypeOK
  <1>7. CopyInv BY <1>1, <1>2, <1>3, <1>4 DEF Init, CopyInv
  <1>8. WorkerInv BY <1>4 DEF WorkerInv
  <1>9. GuardInv
      BY <1>4, <1>5 DEF Init, GuardInv, VersionInv, FinalizerInv, Guarded, Reconciling
  <1> QED BY <1>6, <1>7, <1>8, <1>9 DEF IInv

\* What users and others change.
LEMMA EnvironmentStep == ASSUME IInv, Environment PROVE IInv' /\ GuardKept
  <1>1. obj # Nil => obj \in Channel /\ obj.sub \in 0..MaxSub /\ obj.conf \in Confs
      BY DEF IInv, TypeOK, Channel
  <1>2. ASSUME NEW sub \in 1..MaxSub, obj # Nil, sub > obj.sub, EditSpec("subscribe", sub, obj.conf)
        PROVE  IInv' /\ GuardKept
    <2>1. sub \in 0..MaxSub BY <1>2
    <2> QED BY <1>1, <1>2, <2>1, EditSpecStep
  <1>3. ASSUME obj # Nil, EditSpec("unsubscribe", 0, obj.conf) PROVE IInv' /\ GuardKept
    <2>1. 0 \in 0..MaxSub OBVIOUS
    <2> QED BY <1>1, <1>3, <2>1, EditSpecStep
  <1>4. ASSUME obj # Nil, NEW conf \in Confs, EditSpec("conf", obj.sub, conf) PROVE IInv' /\ GuardKept
      BY <1>1, <1>4, EditSpecStep
  <1>5. dep # Nil => /\ \A a \in CondStatus : [dep EXCEPT !.available = a] \in Deployment
                     /\ \A d \in {"drifted", "noContainer"} : [dep EXCEPT !.spec = d] \in Deployment
      BY DEF IInv, TypeOK, Deployment
  <1>6. CASE /\ UNCHANGED obj
             /\ IInv'
      BY <1>6 DEF GuardKept, Guarded
  <1>7. CASE \E e \in {"absent", "empty", "ready"} : EditEndpoints(e)
      BY <1>6, <1>7, EditEndpointsStep DEF EditEndpoints, channel
  <1>8. CASE \/ RemoveDispatcherService
             \/ \E c \in {"absent", "drifted", "foreign", "foreignDrifted"} : EditChannelService(c)
      BY <1>6, <1>8, EditServicesStep DEF RemoveDispatcherService, EditChannelService, channel
  <1>9. CASE PodsStart \/ EndpointsAppear \/ Restart
      BY <1>6, <1>9, BackgroundStep, RestartStep DEF PodsStart, EndpointsAppear, Restart, channel
  <1>10. ASSUME NEW kind, NEW new \in Deployment \cup {Nil}, EditDeployment(kind, new)
         PROVE  IInv' /\ GuardKept
      BY <1>6, <1>10, EditDeploymentStep DEF EditDeployment, channel
  <1> QED BY <1>2, <1>3, <1>4, <1>5, <1>7, <1>8, <1>9, <1>10, EditAnnotationStep, DeleteStep
          DEF Environment

\* The invariant is inductive.
LEMMA NextIInv == IInv /\ [Next]_vars => IInv'
  <1> SUFFICES ASSUME IInv, [Next]_vars PROVE IInv' OBVIOUS
  <1>1. CASE UNCHANGED vars
    <2>1. /\ UNCHANGED <<obj, cache, cacheFresh, origFresh>>
          /\ UNCHANGED <<dep, depCache, depFresh, rbac, svc, endpoints, chSvc>>
          /\ UNCHANGED <<probe, queued, wk, edits, errors>>
        BY <1>1 DEF vars, channel, children, bounds
    <2>2. TypeOK' BY <2>1 DEF IInv, TypeOK
    <2> QED BY <2>1, <2>2, ChannelAside DEF IInv
  <1>2. CASE Environment BY <1>2, EnvironmentStep
  <1>3. CASE Informers BY <1>3, WatchStep, BackgroundStep DEF Informers
  <1>4. CASE Resync \/ ProbeSucceeds BY <1>4, BackgroundStep
  <1>5. CASE WorkerStep
      BY <1>5, DequeueStep, SetFinalizerStep, ClearStep, RBACStep, DispatcherStep, ServiceStep,
         EndpointsStep, ChannelServiceStep, SubscribersStep, UpdateStatusStep, RetryStep
         DEF WorkerStep
  <1> QED BY <1>1, <1>2, <1>3, <1>4, <1>5 DEF Next

\* The invariant holds throughout.
LEMMA Invariance == Spec => []IInv
BY InitIInv, NextIInv, PTL DEF Spec

\* The observed generation changes only when updateStatus writes a status, which observes the
\* generation of the worker's copy: the copy is no older than what was observed.
LEMMA ObservedGrows ==
    ASSUME IInv, Next, obj # Nil, obj' # Nil
    PROVE  obj'.status.observed >= obj.status.observed
  <1>0. obj \in Channel /\ obj.status \in Status /\ obj.status.observed \in Int
      BY DEF IInv, TypeOK, Channel, Status
  <1>1. CASE UNCHANGED obj BY <1>0, <1>1
  <1>2. CASE (\E kind, sub, conf : EditSpec(kind, sub, conf)) \/ (\E scope : EditAnnotation(scope))
    <2>1. obj'.status = obj.status BY <1>0, <1>2 DEF EditSpec, EditAnnotation, Write, Channel
    <2> QED BY <1>0, <2>1
  <1>3. CASE DeleteChannel
    <2>1. obj' = [obj EXCEPT !.gen = @ + 1, !.deleting = TRUE] BY <1>3 DEF DeleteChannel, Write
    <2> QED BY <1>0, <2>1 DEF Channel
  <1>4. CASE SetFinalizer
    <2>1. UNCHANGED obj \/ obj' = [obj EXCEPT !.finalizer = TRUE]
        BY <1>4 DEF SetFinalizer, Write, channel
    <2> QED BY <1>0, <2>1 DEF Channel
  <1>5. CASE ClearFinalizer BY <1>1, <1>5 DEF ClearFinalizer, Write, channel
  <1>6. CASE ReconcileSubscribers
    <2>1. UNCHANGED obj \/ \E after : obj' = [obj EXCEPT !.status.reported = after]
        BY <1>6 DEF ReconcileSubscribers, PatchSubscribers, Write, channel
    <2> QED BY <1>0, <2>1 DEF Channel, Status
  <1>7. CASE UpdateStatus \/ RetryUpdateStatus
    <2>1. wk.pc # "idle" /\ UNCHANGED <<children, probe>>
        BY <1>7 DEF UpdateStatus, RetryUpdateStatus
    <2>2. CASE /\ wk.res.status.observed = wk.res.gen
               /\ Write([obj EXCEPT !.status = wk.res.status])
               /\ Return(wk.outcome) /\ UNCHANGED bounds
        BY <2>1, <2>2, WritesStatus
    <2>3. CASE UpdateStatus BY <1>1, <2>2, <2>3 DEF UpdateStatus, IInv, WorkerInv, channel
    <2>4. CASE RetryUpdateStatus BY <1>1, <2>2, <2>4 DEF RetryUpdateStatus, IInv, WorkerInv, channel
    <2> QED BY <1>7, <2>3, <2>4
  <1>8. CASE Environment
      BY <1>1, <1>2, <1>3, <1>8
      DEF Environment, EditDeployment, EditEndpoints, RemoveDispatcherService, EditChannelService,
          PodsStart, EndpointsAppear, Restart, channel
  <1>9. CASE Informers \/ Resync \/ ProbeSucceeds
      BY <1>1, <1>9 DEF Informers, WatchChannel, WatchDeployment, Resync, ProbeSucceeds, channel
  <1>10. CASE WorkerStep
      BY <1>1, <1>4, <1>5, <1>6, <1>7, <1>10
      DEF WorkerStep, Dequeue, ReconcileRBAC, ReconcileDispatcher, ReconcileDispatcherService,
          CheckEndpoints, ReconcileChannelService, channel
  <1> QED BY <1>8, <1>9, <1>10 DEF Next

\* The finalizer or the channel goes in clearFinalizer alone.
LEMMA GuardEnds ==
    ASSUME IInv, Next, Guarded, ~Guarded'
    PROVE  ClearFinalizer
  <1>1. ~GuardKept BY DEF GuardKept
  <1>2. obj' # obj BY DEF Guarded
  <1>3. ~Environment BY <1>1, EnvironmentStep
  <1>4. ~(Informers \/ Resync \/ ProbeSucceeds)
      BY <1>2 DEF Informers, WatchChannel, WatchDeployment, Resync, ProbeSucceeds, channel
  <1>5. ~(SetFinalizer \/ ReconcileSubscribers \/ UpdateStatus \/ RetryUpdateStatus)
      BY <1>1, SetFinalizerStep, SubscribersStep, UpdateStatusStep, RetryStep
  <1>6. ~(\/ Dequeue \/ ReconcileRBAC \/ ReconcileDispatcher \/ ReconcileDispatcherService
          \/ CheckEndpoints \/ ReconcileChannelService)
      BY <1>2 DEF Dequeue, ReconcileRBAC, ReconcileDispatcher, ReconcileDispatcherService,
                  CheckEndpoints, ReconcileChannelService, channel
  <1> QED BY <1>3, <1>4, <1>5, <1>6 DEF Next, WorkerStep

\* Probing starts in reconcileSubscribers alone, where the finalizer is set.
LEMMA ProbingStarts ==
    ASSUME IInv, Next, probe.gen = 0, probe'.gen # 0
    PROVE  Guarded'
  <1>1. CASE ReconcileSubscribers
    <2>1. Guarded
        BY <1>1 DEF ReconcileSubscribers, Reconciling, IInv, GuardInv, FinalizerInv
    <2> QED BY <1>1, <2>1, SubscribersStep DEF GuardKept
  <1>2. ~(WorkerStep /\ ~ReconcileSubscribers)
      BY DEF WorkerStep, Dequeue, FinalizeKind, NotProbed, SetFinalizer, ClearFinalizer,
             ReconcileRBAC, ReconcileDispatcher, ReconcileDispatcherService, CheckEndpoints,
             ReconcileChannelService, UpdateStatus, RetryUpdateStatus
  <1>3. ~(Informers \/ Resync \/ ProbeSucceeds)
      BY DEF Informers, WatchChannel, WatchDeployment, Resync, ProbeSucceeds
  <1>4. ~Environment
    <2>1. \A kind : ~Edit(kind) BY EditCounts
    <2>2. ~(PodsStart \/ EndpointsAppear \/ Restart)
        BY DEF PodsStart, EndpointsAppear, Restart, NotProbed
    <2> QED BY <2>1, <2>2 DEF Environment, EditSpec, EditAnnotation, DeleteChannel, EditDeployment,
               EditEndpoints, RemoveDispatcherService, EditChannelService
  <1> QED BY <1>1, <1>2, <1>3, <1>4 DEF Next

\* The variables of the controller have their types, the copies of the lister with the object's
\* resourceVersion equal it, and neither generations nor reported subscribers leave their range,
\* whatever the API calls do.
THEOREM ControllerTypes == Spec => []TypeOK
BY Invariance, PTL DEF IInv

\* ReadyIsJustified for any specs and any number of edits, failures and restarts: a Ready that
\* the API server shows has all its conditions and its address, and its observed spec is valid
\* (not its annotation, which no generation counts), although ReconcileKind starts from the
\* conditions of the last status and updateStatus puts the status over whatever object it finds.
THEOREM ReadyJustified == Spec => []ReadyIsJustified
  <1>1. IInv => ReadyIsJustified
    <2> SUFFICES ASSUME IInv, obj # Nil, obj.status.ready = "True"
                 PROVE  /\ \A t \in Dependents : obj.status.conds[t] = "True"
                        /\ obj.status.address
                        /\ obj.status.observed = obj.gen => ValidSpec(SetDefaults(obj.conf))
        BY DEF ReadyIsJustified
    <2>1. ChannelOK(obj) BY DEF IInv, CopyInv
    <2>2. "Addressable" \in Dependents BY DEF Dependents
    <2> QED BY <2>1, <2>2 DEF ChannelOK, Justified
  <1> QED BY <1>1, Invariance, PTL

\* FinalizerGuardsProbing for any edits: the prober is started only for a channel that has the
\* finalizer, although the controller decides from a copy that may show a finalizer that is gone;
\* and the finalizer goes only when FinalizeKind has cancelled what its copy lists.
THEOREM FinalizerGuards == Spec => FinalizerGuardsProbing
  <1>1. IInv /\ [Next]_vars =>
            [/\ probe.gen = 0 /\ probe'.gen # 0 => Guarded'
             /\ Guarded /\ ~Guarded' /\ probe'.gen # 0 => wk.res.sub = 0]_vars
    <2> SUFFICES ASSUME IInv, Next
                 PROVE  /\ probe.gen = 0 /\ probe'.gen # 0 => Guarded'
                        /\ Guarded /\ ~Guarded' /\ probe'.gen # 0 => wk.res.sub = 0
        OBVIOUS
    <2>1. ASSUME ClearFinalizer, probe'.gen # 0 PROVE wk.res.sub = 0
        BY <2>1 DEF ClearFinalizer, IInv, GuardInv, FinalizerInv
    <2> QED BY <2>1, ProbingStarts, GuardEnds
  <1> QED BY <1>1, Invariance, PTL DEF Spec, FinalizerGuardsProbing

\* ObservedNeverRegresses: no write of the controller takes the observed generation back, although
\* updateStatus may put a status computed from an old copy over a newer object.
THEOREM ObservedGeneration == Spec => ObservedNeverRegresses
  <1>1. IInv /\ [Next]_vars =>
            [(obj # Nil /\ obj' # Nil) => obj'.status.observed >= obj.status.observed]_vars
      BY ObservedGrows
  <1> QED BY <1>1, Invariance, PTL DEF Spec, ObservedNeverRegresses
================================================================================
