-------------------------- MODULE KafkaDispatcherProofs ------------------------
(***************************************************************************)
(* Proofs about KafkaDispatcher for any number of channels, subscriptions,  *)
(* partitions, workers and requests, and for any set of faults.             *)
(*                                                                         *)
(* MapsAgree and OpenGroupsReachable are not inductive: unsubscribe and     *)
(* subscribe rely on the diff that ReconcileConsumers computed earlier, and  *)
(* the diff stays right only because of the lock. IInv says so: the process  *)
(* in its update phase is the lock's holder (LockInv), what it still has to  *)
(* add or remove fits the maps (ProcInv), and a closing group is the one the  *)
(* holder is waiting for (GroupInv).                                        *)
(***************************************************************************)
EXTENDS KafkaDispatcher, TLAPS

LockInv == \A p \in Procs : (proc[p].pc = "update") <=> (consumerUpdateLock = p)

\* What process p still has to do fits the config it applies and the maps.
ProcOK(p) ==
    /\ proc[p].pc # "update" =>
         proc[p].toAdd = {} /\ proc[p].toRemove = {} /\ proc[p].closing = Nil
    /\ \A u \in UIDs : proc[p].conf[u] # 0 => ChannelOf[u] = proc[p].ch
    /\ \A u \in proc[p].toAdd : proc[p].conf[u] # 0 /\ u \notin SubsOf(proc[p].ch)
    /\ proc[p].toRemove \subseteq SubsOf(proc[p].ch)
    /\ IF p = Informer THEN proc[p].ch = Self /\ proc[p].conf = NoSubscribers
       ELSE \A u \in proc[p].toRemove : proc[p].conf[u] = 0
    /\ proc[p].closing # Nil =>
         proc[p].toAdd = {} /\ group[proc[p].closing].state = "closing"
ProcInv == \A p \in Procs : ProcOK(p)

MapInv ==
    /\ \A c \in Channels : \A u \in SubsOf(c) : ChannelOf[u] = c
    /\ \A c, d \in Channels : (channelSubscriptions[c] # Nil /\ c # d)
                                => channelSubscriptions[c] # channelSubscriptions[d]
    /\ \A u \in UIDs : subsConsumerGroups[u] # Nil =>
          LET g == subsConsumerGroups[u] IN group[g].state = "open" /\ group[g].uid = u

GroupInv ==
    \A g \in Groups :
        /\ group[g].ks # Nil => group[g].uid # Nil
        /\ group[g].state # "free" => group[g].uid # Nil /\ group[g].ks # Nil
        /\ group[g].state = "closing" =>
             /\ subsConsumerGroups[group[g].uid] = Nil
             /\ \E p \in Procs : proc[p].closing = g

IInv == /\ TypeOK /\ LockInv /\ ProcInv /\ MapInv /\ GroupInv
        /\ MapsAgree /\ OpenGroupsReachable

--------------------------------------------------------------------------------
(* Types *)

\* SetReady yields a map of ready partitions again.
LEMMA SetReadyType ==
    ASSUME NEW m \in ReadyMaps, NEW u \in UIDs, NEW p \in Partitions, NEW ready \in BOOLEAN
    PROVE  SetReady(m, u, p, ready) \in ReadyMaps
<1> DEFINE old == IF u \in DOMAIN m THEN m[u] ELSE {}
           new == IF ready THEN old \cup {p} ELSE old \ {p}
           keys == IF new = {} THEN DOMAIN m \ {u} ELSE DOMAIN m \cup {u}
<1>1. PICK D \in SUBSET UIDs : m \in [D -> SUBSET Partitions]
  BY DEF ReadyMaps
<1>2. new \in SUBSET Partitions
  BY <1>1
<1>3. keys \in SUBSET UIDs /\ \A v \in keys : v = u \/ v \in D
  BY <1>1
<1>4. [v \in keys |-> IF v = u THEN new ELSE m[v]] \in [keys -> SUBSET Partitions]
  <2> HIDE DEF keys, new
  <2> QED BY <1>1, <1>2, <1>3
<1>5. SetReady(m, u, p, ready) \in [keys -> SUBSET Partitions]
  BY <1>4 DEF SetReady
<1> QED BY <1>3, <1>5 DEF ReadyMaps

\* The initial values of the records.
LEMMA RecordTypes ==
    /\ NewKafkaSubscription \in KafkaSubscriptionRecord
    /\ FreeGroup \in GroupRecord
    /\ IdleProc \in ProcRecord
    /\ IdleReq \in ReqRecord
    /\ NoSubscribers \in [UIDs -> 0..MaxRev]
<1>1. [u \in {} |-> {}] \in ReadyMaps
  <2>1. [u \in {} |-> {}] \in [{} -> SUBSET Partitions]
    OBVIOUS
  <2> QED BY <2>1 DEF ReadyMaps
<1>2. NewKafkaSubscription \in KafkaSubscriptionRecord
  BY <1>1 DEF NewKafkaSubscription, KafkaSubscriptionRecord
<1>3. NoSubscribers \in [UIDs -> 0..MaxRev]
  BY DispatcherAssumption DEF NoSubscribers
<1>4. NoClaims \in [Partitions -> ClaimStates]
  BY DEF NoClaims, ClaimStates
<1>5. FreeGroup \in GroupRecord
  BY <1>4, DispatcherAssumption DEF FreeGroup, GroupRecord
<1>6. IdleProc \in ProcRecord
  BY <1>3, DispatcherAssumption DEF IdleProc, ProcRecord
<1>7. IdleReq \in ReqRecord
  BY DispatcherAssumption DEF IdleReq, ReqRecord
<1> QED BY <1>2, <1>3, <1>5, <1>6, <1>7

USE DispatcherAssumption DEF env, maps

\* Init and Restart establish the types.
LEMMA InitType == Init => TypeOK
<1> SUFFICES ASSUME Init PROVE TypeOK
  OBVIOUS
<1> QED BY RecordTypes DEF Init, TypeOK, EventKinds, ChannelObject

\* A restarted process is well typed again, and with it the event of the first list.
LEMMA RestartType == ASSUME TypeOK, Restart PROVE TypeOK'
<1>1. <<>> \in Seq(EventKinds) /\ <<"upsert">> \in Seq(EventKinds)
  BY DEF EventKinds
<1>2. events' \in Seq(EventKinds)
  BY <1>1 DEF Restart
<1> QED BY <1>2, RecordTypes DEF Restart, TypeOK

\* An edit of one channel object, with the event it may cause, keeps the types.
LEMMA EditType ==
    ASSUME TypeOK, NEW c \in Channels, NEW obj \in ChannelObject \cup {Nil}, NEW kind,
           Edit(c, obj, kind), obj # Nil => obj.subscribers \in Subscribers(c)
    PROVE  TypeOK'
<1>1. events' \in Seq(EventKinds)
  BY DEF Edit, TypeOK
<1>2. edits' \in 0..MaxEdits
  BY DEF Edit, TypeOK
<1>3. /\ lister' \in [Channels -> ChannelObject \cup {Nil}]
      /\ \A d \in Channels : lister'[d] # Nil => lister'[d].subscribers \in Subscribers(d)
  BY DEF Edit, TypeOK
<1> QED BY <1>1, <1>2, <1>3 DEF Edit, TypeOK

\* The API server's edits and the leader's Promote keep the types.
LEMMA EnvironmentType == ASSUME TypeOK, Environment PROVE TypeOK'
<1>1. ASSUME NEW c \in Channels, CreateChannel(c) PROVE TypeOK'
  <2>1. NoSubscribers \in Subscribers(c)
    BY RecordTypes DEF Subscribers, NoSubscribers
  <2> DEFINE obj == [phase |-> "new", subscribers |-> NoSubscribers]
  <2>2. obj \in ChannelObject /\ obj.subscribers \in Subscribers(c)
    BY <2>1, RecordTypes DEF ChannelObject, Phases
  <2>3. Edit(c, obj, "upsert")
    BY <1>1 DEF CreateChannel
  <2> HIDE DEF obj
  <2> QED BY <2>2, <2>3, EditType
<1>2. ASSUME NEW c \in Channels, DeleteChannel(c) PROVE TypeOK'
  <2>1. \E kind : Edit(c, Nil, kind)
    BY <1>2 DEF DeleteChannel
  <2> QED BY <2>1, EditType
<1>3. ASSUME NEW c \in Channels, NEW u \in UIDs, NEW rev \in 0..MaxRev,
             EditSubscriber(c, u, rev)
      PROVE  TypeOK'
  <2> DEFINE obj == [lister[c] EXCEPT !.subscribers[u] = rev]
  <2>1. lister[c] \in ChannelObject /\ lister[c].subscribers \in Subscribers(c)
    BY <1>3 DEF EditSubscriber, TypeOK
  <2>2. obj \in ChannelObject /\ obj.subscribers = [lister[c].subscribers EXCEPT ![u] = rev]
    BY <2>1 DEF ChannelObject
  <2>3. obj.subscribers \in Subscribers(c)
    <3> HIDE DEF obj
    <3> QED BY <1>3, <2>1, <2>2 DEF Subscribers, EditSubscriber
  <2>4. Edit(c, obj, "upsert")
    BY <1>3 DEF EditSubscriber
  <2> HIDE DEF obj
  <2> QED BY <2>2, <2>3, <2>4, EditType
<1>4. ASSUME NEW c \in Channels, NEW phase \in Phases, ChangeStatus(c, phase) PROVE TypeOK'
  <2> DEFINE obj == [lister[c] EXCEPT !.phase = phase]
  <2>1. lister[c] \in ChannelObject /\ lister[c].subscribers \in Subscribers(c)
    BY <1>4 DEF ChangeStatus, TypeOK
  <2>2. obj \in ChannelObject /\ obj.subscribers \in Subscribers(c)
    BY <2>1 DEF ChannelObject
  <2>3. Edit(c, obj, "upsert")
    BY <1>4 DEF ChangeStatus
  <2> HIDE DEF obj
  <2> QED BY <2>2, <2>3, EditType
<1>5. ASSUME Promote PROVE TypeOK'
  BY <1>5 DEF Promote, TypeOK
<1> QED BY <1>1, <1>2, <1>3, <1>4, <1>5 DEF Environment

\* The workers and the informer.
LEMMA UpdateType ==
    ASSUME TypeOK, NEW p \in Procs, UpdateStep(p) PROVE TypeOK'
<1>1. ASSUME NEW u \in UIDs, Unsubscribe(p, u) PROVE TypeOK'
  <2> DEFINE g == subsConsumerGroups[u]
             k == channelSubscriptions[proc[p].ch]
  <2>0. proc[p] \in ProcRecord /\ proc[p].ch \in Channels /\ g \in Groups \cup {Nil}
    BY DEF TypeOK, ProcRecord
  <2>1. proc' \in [Procs -> ProcRecord]
    <3>1. /\ [proc[p] EXCEPT !.toRemove = @ \ {u}] \in ProcRecord
          /\ [proc[p] EXCEPT !.toRemove = @ \ {u}, !.closing = g] \in ProcRecord
      BY <2>0 DEF ProcRecord
    <3> QED BY <1>1, <3>1 DEF Unsubscribe, TypeOK
  <2>2. group' \in [Groups -> GroupRecord]
    <3>1. g # Nil => [group[g] EXCEPT !.state = "closing"] \in GroupRecord
      <4>1. g # Nil => group[g] \in GroupRecord
        BY <2>0 DEF TypeOK
      <4> QED BY <4>1 DEF GroupRecord
    <3> QED BY <1>1, <2>0, <3>1 DEF Unsubscribe, TypeOK
  <2>3. ks' \in [KafkaSubscriptions -> KafkaSubscriptionRecord]
    <3>1. k # Nil => [ks[k] EXCEPT !.subs = @ \ {u}] \in KafkaSubscriptionRecord
      <4>1. k # Nil => ks[k] \in KafkaSubscriptionRecord
        BY <2>0 DEF TypeOK
      <4> QED BY <4>1 DEF KafkaSubscriptionRecord
    <3> QED BY <1>1, <2>0, <3>1 DEF Unsubscribe, Forget, TypeOK
  <2>4. channelSubscriptions' \in [Channels -> KafkaSubscriptions \cup {Nil}]
    BY <1>1 DEF Unsubscribe, Forget, TypeOK
  <2>5. /\ subscriptions' \in [UIDs -> 0..MaxRev]
        /\ subsConsumerGroups' \in [UIDs -> Groups \cup {Nil}]
    <3>1. 0 \in 0..MaxRev
      OBVIOUS
    <3>2. subscriptions' = [subscriptions EXCEPT ![u] = 0]
      BY <1>1 DEF Unsubscribe, Forget
    <3>3. \/ subsConsumerGroups' = subsConsumerGroups
          \/ subsConsumerGroups' = [subsConsumerGroups EXCEPT ![u] = Nil]
      BY <1>1 DEF Unsubscribe, Forget
    <3> QED BY <3>1, <3>2, <3>3 DEF TypeOK
  <2> QED BY <1>1, <2>1, <2>2, <2>3, <2>4, <2>5 DEF Unsubscribe, MayUnsubscribe, TypeOK
<1>2. ASSUME NEW err \in BOOLEAN, CloseReturns(p, err) PROVE TypeOK'
  <2>1. proc' \in [Procs -> ProcRecord]
    <3>0. proc[p] \in ProcRecord
      BY DEF TypeOK
    <3>1. \A A \in SUBSET UIDs : [proc[p] EXCEPT !.closing = Nil, !.toRemove = A] \in ProcRecord
      BY <3>0 DEF ProcRecord
    <3>2. proc[p].toRemove \in SUBSET UIDs
      BY <3>0 DEF ProcRecord
    <3> QED BY <1>2, <3>1, <3>2 DEF CloseReturns, TypeOK
  <2>2. group' \in [Groups -> GroupRecord]
    BY <1>2, RecordTypes DEF CloseReturns, TypeOK
  <2> QED BY <1>2, <2>1, <2>2 DEF CloseReturns, TypeOK
<1>3. ASSUME Return(p) PROVE TypeOK'
  <2>1. proc[p].ch \in Channels
    BY DEF TypeOK, ProcRecord
  <2> QED BY <1>3, <2>1, RecordTypes DEF Return, Done, ToIdle, TypeOK
<1> QED BY <1>1, <1>2, <1>3 DEF UpdateStep

\* The object subscribe works on is well typed.
LEMMA KafkaSubscriptionType ==
    ASSUME TypeOK, NEW c \in Channels, NEW k \in KafkaSubscriptions
    PROVE  KafkaSubscriptionOf(c, k) \in KafkaSubscriptionRecord
BY RecordTypes DEF KafkaSubscriptionOf, TypeOK

\* Every step of a worker, from the work queue to the end of syncChannel, keeps the types.
LEMMA WorkerType ==
    ASSUME TypeOK, NEW w \in Workers, WorkerStep(w) PROVE TypeOK'
<1> w \in Procs
  BY DEF Procs
<1>0. proc[w] \in ProcRecord /\ proc[w].ch \in Channels
  BY DEF TypeOK, ProcRecord
<1>1. ASSUME NEW c \in Channels, Dequeue(w, c) PROVE TypeOK'
  <2>1. proc' \in [Procs -> ProcRecord]
    <3>1. CASE lister[c] # Nil /\ lister[c].phase = "ready"
      <4>1. lister[c].subscribers \in [UIDs -> 0..MaxRev]
        BY <3>1 DEF TypeOK, ChannelObject
      <4>2. [IdleProc EXCEPT !.pc = "register", !.ch = c, !.conf = lister[c].subscribers]
              \in ProcRecord
        BY <4>1, RecordTypes DEF ProcRecord
      <4> QED BY <1>1, <3>1, <4>2 DEF Dequeue, TypeOK
    <3> QED BY <1>1, <3>1 DEF Dequeue, TypeOK
  <2> QED BY <1>1, <2>1 DEF Dequeue, TypeOK
<1>2. ASSUME RegisterChannelHost(w) PROVE TypeOK'
  <2>1. proc' \in [Procs -> ProcRecord]
    <3>1. [proc[w] EXCEPT !.pc = "lock"] \in ProcRecord
      BY <1>0 DEF ProcRecord
    <3> QED BY <1>2, <3>1, RecordTypes DEF RegisterChannelHost, ToIdle, TypeOK
  <2>2. hostToChannelMap' \in [Hosts -> Channels \cup {Nil}]
    BY <1>0, <1>2 DEF RegisterChannelHost, TypeOK
  <2> QED BY <1>0, <1>2, <2>1, <2>2 DEF RegisterChannelHost, TypeOK
<1>3. ASSUME ReconcileConsumers(w) PROVE TypeOK'
  <2>1. Listed(proc[w].conf) \subseteq UIDs
    BY DEF Listed
  <2>2. SubsOf(proc[w].ch) \subseteq UIDs
    BY <1>0 DEF SubsOf, TypeOK, KafkaSubscriptionRecord
  <2>3. proc' \in [Procs -> ProcRecord]
    <3>1. \A A, B \in SUBSET UIDs :
            [proc[w] EXCEPT !.pc = "update", !.toAdd = A, !.toRemove = B] \in ProcRecord
      BY <1>0 DEF ProcRecord
    <3> QED BY <1>3, <2>1, <2>2, <3>1 DEF ReconcileConsumers, StartUpdate, TypeOK
  <2> QED BY <1>3, <2>3 DEF ReconcileConsumers, StartUpdate, TypeOK
<1>4. ASSUME NEW u \in UIDs, NEW k \in KafkaSubscriptions, NEW g \in Groups,
             Subscribe(w, u, k, g)
      PROVE  TypeOK'
  <2>1. proc' \in [Procs -> ProcRecord]
    <3>1. [proc[w] EXCEPT !.toAdd = @ \ {u}] \in ProcRecord
      BY <1>0 DEF ProcRecord
    <3> QED BY <1>4, <3>1 DEF Subscribe, TypeOK
  <2>2. proc[w].conf[u] \in 0..MaxRev
    BY <1>0 DEF ProcRecord
  <2>3. group' \in [Groups -> GroupRecord]
    <3>1. [FreeGroup EXCEPT !.state = "open", !.uid = u, !.rev = proc[w].conf[u], !.ks = k]
            \in GroupRecord
      BY <2>2, RecordTypes DEF GroupRecord
    <3> QED BY <1>4, <3>1 DEF Subscribe, TypeOK
  <2>4. ks' \in [KafkaSubscriptions -> KafkaSubscriptionRecord]
    <3>1. [KafkaSubscriptionOf(proc[w].ch, k) EXCEPT !.subs = @ \cup {u}]
            \in KafkaSubscriptionRecord
      BY <1>0, KafkaSubscriptionType DEF KafkaSubscriptionRecord
    <3> QED BY <1>4, <3>1 DEF Subscribe, TypeOK
  <2> QED BY <1>0, <1>4, <2>1, <2>2, <2>3, <2>4 DEF Subscribe, TypeOK
<1>5. ASSUME NEW u \in UIDs, NEW k \in KafkaSubscriptions, SubscribeFails(w, u, k)
      PROVE  TypeOK'
  <2>1. proc' \in [Procs -> ProcRecord]
    <3>1. [proc[w] EXCEPT !.toAdd = @ \ {u}, !.failed = TRUE] \in ProcRecord
      BY <1>0 DEF ProcRecord
    <3> QED BY <1>5, <3>1 DEF SubscribeFails, TypeOK
  <2>2. ks' \in [KafkaSubscriptions -> KafkaSubscriptionRecord]
    BY <1>0, <1>5, KafkaSubscriptionType DEF SubscribeFails, TypeOK
  <2> QED BY <1>0, <1>5, <2>1, <2>2 DEF SubscribeFails, TypeOK
<1> QED BY <1>1, <1>2, <1>3, <1>4, <1>5, UpdateType DEF WorkerStep, SubscribeStep

\* The informer's handler and CleanupChannel keep the types.
LEMMA InformerType == ASSUME TypeOK, InformerStep PROVE TypeOK'
<1> Informer \in Procs
  BY DEF Procs
<1>0. proc[Informer] \in ProcRecord
  BY DEF TypeOK
<1>1. ASSUME HandleUpsert PROVE TypeOK'
  <2>1. events' \in Seq(EventKinds)
    BY <1>1 DEF HandleUpsert, TypeOK
  <2> QED BY <1>1, <2>1 DEF HandleUpsert, TypeOK
<1>2. ASSUME HandleDelete PROVE TypeOK'
  <2>1. events' \in Seq(EventKinds)
    BY <1>2 DEF HandleDelete, TypeOK
  <2>2. proc' \in [Procs -> ProcRecord]
    <3>1. [proc[Informer] EXCEPT !.pc = "lock", !.ch = Self] \in ProcRecord
      BY <1>0 DEF ProcRecord
    <3> QED BY <1>2, <3>1 DEF HandleDelete, TypeOK
  <2> QED BY <1>2, <2>1, <2>2 DEF HandleDelete, TypeOK
<1>3. ASSUME HandleDeleteNoAddress PROVE TypeOK'
  BY <1>3, RestartType DEF HandleDeleteNoAddress
<1>4. ASSUME CleanupChannel PROVE TypeOK'
  <2>1. SubsOf(Self) \subseteq UIDs
    BY DEF SubsOf, TypeOK, KafkaSubscriptionRecord
  <2>2. proc' \in [Procs -> ProcRecord]
    <3>1. [proc[Informer] EXCEPT !.pc = "update", !.toRemove = SubsOf(Self)] \in ProcRecord
      BY <1>0, <2>1 DEF ProcRecord
    <3> QED BY <1>4, <3>1, RecordTypes DEF CleanupChannel, ToIdle, TypeOK
  <2> QED BY <1>4, <2>2 DEF CleanupChannel, TypeOK
<1> QED BY <1>1, <1>2, <1>3, <1>4, UpdateType DEF InformerStep

\* The consumer groups and the endpoint. SetReady is called with a uid because a group
\* that is bound to a KafkaSubscription has one.
LEMMA SetReadyStepType ==
    ASSUME TypeOK, NEW g \in Groups, NEW p \in Partitions, NEW ready \in BOOLEAN,
           group[g].ks # Nil => group[g].uid # Nil,
           GroupSetReady(g, p, ready)
    PROVE  ks' \in [KafkaSubscriptions -> KafkaSubscriptionRecord]
<1> DEFINE k == group[g].ks
<1>1. k \in KafkaSubscriptions \cup {Nil} /\ (k # Nil => group[g].uid \in UIDs)
  BY DEF TypeOK, GroupRecord
<1>2. ASSUME k # Nil
      PROVE  [ks[k] EXCEPT !.ready = SetReady(@, group[g].uid, p, ready)]
               \in KafkaSubscriptionRecord
  <2>1. ks[k] \in KafkaSubscriptionRecord /\ ks[k].ready \in ReadyMaps
    BY <1>1, <1>2 DEF TypeOK, KafkaSubscriptionRecord
  <2>2. SetReady(ks[k].ready, group[g].uid, p, ready) \in ReadyMaps
    BY <1>1, <1>2, <2>1, SetReadyType
  <2> HIDE DEF k
  <2> QED BY <2>1, <2>2 DEF KafkaSubscriptionRecord
<1>3. ks' = [ks EXCEPT ![k].ready = SetReady(@, group[g].uid, p, ready)]
  BY DEF GroupSetReady
<1> HIDE DEF k
<1> QED BY <1>1, <1>2, <1>3 DEF TypeOK

\* The sessions of a consumer group keep the types.
LEMMA GroupType ==
    ASSUME TypeOK, NEW g \in Groups, group[g].ks # Nil => group[g].uid # Nil, GroupStep(g)
    PROVE  TypeOK'
<1>0. group[g] \in GroupRecord
  BY DEF TypeOK
<1>1. ASSUME NEW claimed \in SUBSET Partitions, SessionStart(g, claimed) PROVE TypeOK'
  <2> DEFINE cl == [p \in Partitions |-> IF p \in claimed THEN "claimed" ELSE "none"]
  <2>1. cl \in [Partitions -> ClaimStates]
    BY DEF ClaimStates
  <2>2. group' = [group EXCEPT ![g].session = "active", ![g].claims = cl]
    BY <1>1 DEF SessionStart
  <2> HIDE DEF cl
  <2>3. [group[g] EXCEPT !.session = "active", !.claims = cl] \in GroupRecord
    BY <1>0, <2>1 DEF GroupRecord
  <2>4. group' \in [Groups -> GroupRecord]
    BY <2>2, <2>3 DEF TypeOK
  <2> QED BY <1>1, <2>4 DEF SessionStart, GroupOnly, TypeOK
<1>2. ASSUME NEW p \in Partitions, NEW claim \in ClaimStates, NEW ready \in BOOLEAN,
             GroupSetReady(g, p, ready), GroupOnly,
             group' = [group EXCEPT ![g].claims[p] = claim]
      PROVE  TypeOK'
  <2>1. [group[g].claims EXCEPT ![p] = claim] \in [Partitions -> ClaimStates]
    BY <1>0 DEF GroupRecord
  <2>2. \A cl \in [Partitions -> ClaimStates] : [group[g] EXCEPT !.claims = cl] \in GroupRecord
    BY <1>0 DEF GroupRecord
  <2>3. group' \in [Groups -> GroupRecord]
    BY <1>0, <1>2, <2>1, <2>2 DEF TypeOK
  <2>4. ks' \in [KafkaSubscriptions -> KafkaSubscriptionRecord]
    BY <1>2, SetReadyStepType
  <2> QED BY <1>2, <2>3, <2>4 DEF GroupOnly, TypeOK
<1>3. ASSUME NEW p \in Partitions, ConsumeClaim(g, p) PROVE TypeOK'
  BY <1>2, <1>3 DEF ConsumeClaim, ClaimStates
<1>4. ASSUME NEW p \in Partitions, HandleFails(g, p) PROVE TypeOK'
  BY <1>2, <1>4 DEF HandleFails, ClaimStates
<1>5. ASSUME NEW p \in Partitions, CleanupClaim(g, p) PROVE TypeOK'
  BY <1>2, <1>5 DEF CleanupClaim, ClaimStates
<1>6. \A x \in {"none", "cleanup"} : [group[g] EXCEPT !.session = x] \in GroupRecord
  BY <1>0 DEF GroupRecord
<1>7. ASSUME SessionEnd(g) PROVE TypeOK'
  BY <1>6, <1>7 DEF SessionEnd, GroupOnly, TypeOK
<1>8. ASSUME SessionOver(g) PROVE TypeOK'
  BY <1>6, <1>8 DEF SessionOver, GroupOnly, TypeOK
<1> QED BY <1>1, <1>3, <1>4, <1>5, <1>7, <1>8 DEF GroupStep, SessionCleanup

\* ServeHTTP keeps the types: RUnlock never makes the number of readers negative.
LEMMA RequestType ==
    ASSUME TypeOK, NEW r \in Requests,
           RequestStep(r) \/ \E c \in Channels : ServeHTTP(r, c)
    PROVE  TypeOK'
<1>0. /\ req[r] \in ReqRecord /\ req[r].ch \in Channels
      /\ req[r].deferred \in KafkaSubscriptions \cup {Nil}
      /\ Looked(r) \in KafkaSubscriptions \cup {Nil}
  BY DEF TypeOK, ReqRecord, Looked
<1>1. ASSUME NEW k \in KafkaSubscriptions
      PROVE  /\ \A n \in Nat : [ks[k] EXCEPT !.readers = n] \in KafkaSubscriptionRecord
             /\ ks[k].readers \in Nat
  <2>1. ks[k] \in KafkaSubscriptionRecord
    BY DEF TypeOK
  <2> QED BY <2>1 DEF KafkaSubscriptionRecord
<1>2. ASSUME NEW c \in Channels, ServeHTTP(r, c) PROVE TypeOK'
  <2>1. [req[r] EXCEPT !.pc = "rlock", !.ch = c] \in ReqRecord
    BY <1>0 DEF ReqRecord
  <2> QED BY <1>2, <2>1 DEF ServeHTTP, EndpointOnly, TypeOK
<1>3. ASSUME RLock(r) PROVE TypeOK'
  <2>1. [req[r] EXCEPT !.pc = "defer", !.rlocked = Looked(r)] \in ReqRecord
    BY <1>0 DEF ReqRecord
  <2>2. req' \in [Requests -> ReqRecord]
    BY <1>3, <2>1, RecordTypes DEF RLock, TypeOK
  <2>3. ks' \in [KafkaSubscriptions -> KafkaSubscriptionRecord]
    <3>1. CASE Looked(r) = Nil
      BY <1>3, <3>1 DEF RLock, TypeOK
    <3>2. CASE Looked(r) # Nil
      <4> DEFINE k == Looked(r)
                 n == ks[k].readers + 1
      <4>1. k \in KafkaSubscriptions
        BY <1>0, <3>2
      <4>2. ks' = [ks EXCEPT ![k].readers = n]
        BY <1>3, <3>2 DEF RLock
      <4> HIDE DEF k
      <4>3. n \in Nat
        BY <1>1, <4>1
      <4> HIDE DEF n
      <4> QED BY <1>1, <4>1, <4>2, <4>3 DEF TypeOK
    <3> QED BY <3>1, <3>2
  <2> QED BY <1>3, <2>2, <2>3 DEF RLock, EndpointOnly, TypeOK
<1>4. ASSUME DeferRUnlock(r) PROVE TypeOK'
  <2>1. [req[r] EXCEPT !.pc = "range", !.deferred = Looked(r)] \in ReqRecord
    BY <1>0 DEF ReqRecord
  <2> QED BY <1>4, <2>1, RecordTypes DEF DeferRUnlock, EndpointOnly, TypeOK
<1>5. ASSUME RangeReady(r) PROVE TypeOK'
  <2>1. [req[r] EXCEPT !.pc = "runlock"] \in ReqRecord
    BY <1>0 DEF ReqRecord
  <2> QED BY <1>5, <2>1 DEF RangeReady, EndpointOnly, TypeOK
<1>6. ASSUME RUnlock(r) PROVE TypeOK'
  <2>1. ks' \in [KafkaSubscriptions -> KafkaSubscriptionRecord]
    <3>1. CASE req[r].deferred = Nil
      BY <1>6, <3>1 DEF RUnlock, TypeOK
    <3>2. CASE req[r].deferred # Nil
      <4> DEFINE k == req[r].deferred
                 n == ks[k].readers - 1
      <4>1. k \in KafkaSubscriptions
        BY <1>0, <3>2
      <4>2. ks' = [ks EXCEPT ![k].readers = n] /\ ks[k].readers > 0
        BY <1>6, <3>2 DEF RUnlock
      <4> HIDE DEF k
      <4>3. n \in Nat
        BY <1>1, <4>1, <4>2
      <4> HIDE DEF n
      <4> QED BY <1>1, <4>1, <4>2, <4>3 DEF TypeOK
    <3> QED BY <3>1, <3>2
  <2> QED BY <1>6, <2>1, RecordTypes DEF RUnlock, EndpointOnly, TypeOK
<1>7. ASSUME RUnlockOfUnlocked(r) PROVE TypeOK'
  BY <1>7, RestartType DEF RUnlockOfUnlocked
<1> QED BY <1>2, <1>3, <1>4, <1>5, <1>6, <1>7 DEF RequestStep

--------------------------------------------------------------------------------
(* The inductive invariant *)

\* What a process that has just started holds.
Fresh == /\ proc = [p \in Procs |-> IdleProc] /\ consumerUpdateLock = Nil
         /\ channelSubscriptions = [c \in Channels |-> Nil]
         /\ subscriptions = NoSubscribers
         /\ subsConsumerGroups = [u \in UIDs |-> Nil]
         /\ group = [g \in Groups |-> FreeGroup]

\* A fresh process satisfies the invariant.
LEMMA FreshInv == TypeOK /\ Fresh => IInv
<1> SUFFICES ASSUME TypeOK, Fresh PROVE IInv
  OBVIOUS
<1> USE DEF Fresh
<1>1. LockInv
  BY DEF LockInv, IdleProc
<1>2. ProcInv
  BY DEF ProcInv, ProcOK, IdleProc, NoSubscribers
<1>3. \A c \in Channels : SubsOf(c) = {}
  BY DEF SubsOf
<1>4. MapInv
  BY <1>3 DEF MapInv
<1>5. GroupInv
  BY DEF GroupInv, FreeGroup
<1>6. MapsAgree
  BY <1>3 DEF MapsAgree, NoSubscribers
<1>7. OpenGroupsReachable
  BY DEF OpenGroupsReachable, FreeGroup
<1> QED BY <1>1, <1>2, <1>4, <1>5, <1>6, <1>7 DEF IInv

\* A restart of the process establishes the invariant anew.
LEMMA RestartInv == ASSUME TypeOK', Restart PROVE IInv'
<1>1. Fresh'
  BY DEF Fresh, Restart
<1> QED BY <1>1, FreshInv, PTL

\* Steps of the environment, of the consumer groups and of the endpoint touch nothing
\* that IInv speaks of, besides the types.
LEMMA Frame ==
    ASSUME IInv, TypeOK', UNCHANGED <<consumerUpdateLock, maps, proc>>,
           \A k \in KafkaSubscriptions : ks'[k].subs = ks[k].subs,
           \A g \in Groups : /\ group'[g].state = group[g].state
                             /\ group'[g].uid = group[g].uid
                             /\ group'[g].rev = group[g].rev
                             /\ group'[g].ks = group[g].ks
    PROVE  IInv'
<1>0. TypeOK
  BY DEF IInv
<1>1. \A c \in Channels : SubsOf(c)' = SubsOf(c)
  BY <1>0 DEF SubsOf, TypeOK
<1>2. LockInv'
  BY DEF IInv, LockInv
<1>3. ProcInv'
  <2>1. \A p \in Procs : proc[p].ch \in Channels /\ proc[p].closing \in Groups \cup {Nil}
    BY <1>0 DEF TypeOK, ProcRecord
  <2> QED BY <1>1, <2>1 DEF IInv, ProcInv, ProcOK
<1>4. \A u \in UIDs : subsConsumerGroups[u] \in Groups \cup {Nil}
  BY <1>0 DEF TypeOK
<1>5. MapInv'
  BY <1>1, <1>4 DEF IInv, MapInv
<1>6. GroupInv'
  BY DEF IInv, GroupInv
<1>7. MapsAgree'
  BY <1>1 DEF IInv, MapsAgree
<1>8. OpenGroupsReachable'
  BY DEF IInv, OpenGroupsReachable
<1> QED BY <1>2, <1>3, <1>5, <1>6, <1>7, <1>8 DEF IInv

\* Steps that change the locals of one process and perhaps the lock, and close no group.
LEMMA ProcFrame ==
    ASSUME IInv, TypeOK', UNCHANGED <<maps, ks, group>>, NEW p \in Procs,
           \A q \in Procs \ {p} : proc'[q] = proc[q],
           proc[p].closing = Nil, ProcOK(p)', LockInv'
    PROVE  IInv'
<1>1. \A c : SubsOf(c)' = SubsOf(c)
  BY DEF SubsOf
<1>2. ProcInv'
  BY <1>1 DEF IInv, ProcInv, ProcOK
<1>3. MapInv'
  BY <1>1 DEF IInv, MapInv
<1>4. GroupInv'
  <2>1. \A q \in Procs : proc[q].closing # Nil => proc'[q].closing = proc[q].closing
    OBVIOUS
  <2> QED BY <2>1 DEF IInv, GroupInv
<1>5. MapsAgree'
  BY <1>1 DEF IInv, MapsAgree
<1>6. OpenGroupsReachable'
  BY DEF IInv, OpenGroupsReachable
<1> QED BY <1>2, <1>3, <1>4, <1>5, <1>6 DEF IInv

\* Nobody but the holder of the lock has anything to add, to remove or to wait for.
LEMMA Others ==
    ASSUME IInv, NEW p \in Procs, proc[p].pc = "update", NEW q \in Procs, q # p
    PROVE  proc[q].toAdd = {} /\ proc[q].toRemove = {} /\ proc[q].closing = Nil
BY DEF IInv, LockInv, ProcInv, ProcOK

\* Two groups of one uid that are in use are the same: an open one is in the map, a closing
\* one is not, and only the holder of the lock waits for one.
LEMMA OneGroup ==
    ASSUME IInv, NEW g \in Groups, NEW h \in Groups, group[g].state # "free",
           group[h].state # "free", group[g].uid = group[h].uid
    PROVE  g = h
<1>1. group[g].state \in {"open", "closing"} /\ group[h].state \in {"open", "closing"}
  BY DEF IInv, TypeOK, GroupRecord
<1>2. \A j \in Groups : group[j].state = "open" =>
         subsConsumerGroups[group[j].uid] = j /\ j # Nil
  BY DEF IInv, OpenGroupsReachable
<1>3. \A j \in Groups : group[j].state = "closing" =>
         subsConsumerGroups[group[j].uid] = Nil /\ \E p \in Procs : proc[p].closing = j
  BY DEF IInv, GroupInv
<1>4. CASE group[g].state = "closing" /\ group[h].state = "closing"
  <2>1. PICK p \in Procs, q \in Procs : proc[p].closing = g /\ proc[q].closing = h
    BY <1>3, <1>4
  <2>2. proc[p].pc = "update"
    BY <2>1 DEF IInv, ProcInv, ProcOK
  <2> QED BY <2>1, <2>2, Others
<1> QED BY <1>1, <1>2, <1>3, <1>4

\* unsubscribe takes a uid out of all three maps at once, and its group becomes the one
\* that the caller is waiting for.
LEMMA UnsubscribeInv ==
    ASSUME IInv, TypeOK', NEW p \in Procs, NEW u \in UIDs, Unsubscribe(p, u)
    PROVE  IInv'
<1>a. TypeOK /\ proc[p].ch \in Channels
  BY DEF IInv, TypeOK, ProcRecord
<1>0. PICK c \in Channels, k \in KafkaSubscriptions \cup {Nil}, g \in Groups \cup {Nil} :
         c = proc[p].ch /\ k = channelSubscriptions[c] /\ g = subsConsumerGroups[u]
  BY <1>a DEF TypeOK
<1>1. /\ TypeOK /\ proc[p].pc = "update" /\ ProcOK(p)
      /\ u \in SubsOf(c) /\ ChannelOf[u] = c
  BY <1>a, <1>0 DEF IInv, ProcInv, ProcOK, MapInv, Unsubscribe, MayUnsubscribe
<1>2. k \in KafkaSubscriptions /\ subscriptions[u] # 0 /\ u \in ks[k].subs
  BY <1>0, <1>1 DEF IInv, MapsAgree, SubsOf, TypeOK
<1>3. g \in Groups /\ group[g].state = "open" /\ group[g].uid = u /\ group[g].ks # Nil
  BY <1>0, <1>1, <1>2 DEF IInv, MapsAgree, MapInv, GroupInv, TypeOK
<1>4. /\ Forget(c, k, u)
      /\ group' = [group EXCEPT ![g].state = "closing"]
      /\ proc' = [proc EXCEPT ![p].toRemove = @ \ {u}, ![p].closing = g]
      /\ proc[p].toAdd = {} /\ proc[p].closing = Nil
      /\ consumerUpdateLock' = consumerUpdateLock
  BY <1>0, <1>2, <1>3 DEF Unsubscribe, MayUnsubscribe
<1>5. \A h \in Groups : /\ group'[h].uid = group[h].uid /\ group'[h].rev = group[h].rev
                        /\ group'[h].ks = group[h].ks
                        /\ group'[h].state = IF h = g THEN "closing" ELSE group[h].state
  BY <1>1, <1>3, <1>4 DEF TypeOK, GroupRecord
<1>6. \A q \in Procs : /\ proc'[q].pc = proc[q].pc /\ proc'[q].ch = proc[q].ch
                       /\ proc'[q].conf = proc[q].conf /\ proc'[q].toAdd = proc[q].toAdd
                       /\ q # p => proc'[q] = proc[q]
                       /\ q = p => /\ proc'[q].toRemove = proc[q].toRemove \ {u}
                                   /\ proc'[q].closing = g
  BY <1>1, <1>4 DEF TypeOK, ProcRecord
<1>7. \A d \in Channels : SubsOf(d)' = SubsOf(d) \ {u}
  <2>1. \A j \in KafkaSubscriptions : ks'[j].subs = IF j = k THEN ks[k].subs \ {u} ELSE ks[j].subs
    BY <1>1, <1>2, <1>4 DEF Forget, TypeOK, KafkaSubscriptionRecord
  <2>2. ASSUME NEW d \in Channels, d # c PROVE SubsOf(d)' = SubsOf(d) \ {u}
    <3>1. channelSubscriptions'[d] = channelSubscriptions[d] /\ channelSubscriptions[d] # k
      BY <1>0, <1>1, <1>2, <1>4, <2>2 DEF Forget, TypeOK, IInv, MapInv
    <3>2. SubsOf(d)' = SubsOf(d)
      BY <1>1, <2>1, <3>1 DEF SubsOf, TypeOK
    <3>3. u \notin SubsOf(d)
      BY <1>1, <2>2 DEF IInv, MapInv
    <3> QED BY <3>2, <3>3
  <2>3. SubsOf(c)' = SubsOf(c) \ {u}
    <3>1. /\ SubsOf(c) = ks[k].subs
          /\ channelSubscriptions'[c] = IF ks[k].subs \ {u} = {} THEN Nil ELSE k
      BY <1>0, <1>1, <1>2, <1>4 DEF Forget, SubsOf, TypeOK
    <3> QED BY <1>2, <2>1, <3>1 DEF SubsOf
  <2> QED BY <2>2, <2>3
<1>8. /\ \A v \in UIDs : v # u => /\ subscriptions'[v] = subscriptions[v]
                                  /\ subsConsumerGroups'[v] = subsConsumerGroups[v]
      /\ subscriptions'[u] = 0 /\ subsConsumerGroups'[u] = Nil
      /\ \A d \in Channels : \/ channelSubscriptions'[d] = channelSubscriptions[d]
                             \/ d = c /\ channelSubscriptions'[d] = Nil /\ SubsOf(c)' = {}
  <2>1. /\ subscriptions' = [subscriptions EXCEPT ![u] = 0]
        /\ subsConsumerGroups' = [subsConsumerGroups EXCEPT ![u] = Nil]
    BY <1>4 DEF Forget
  <2>2. channelSubscriptions' = [channelSubscriptions EXCEPT
           ![c] = IF ks[k].subs \ {u} = {} THEN Nil ELSE @]
    BY <1>4 DEF Forget
  <2>3. \A d \in Channels : \/ channelSubscriptions'[d] = channelSubscriptions[d]
                            \/ d = c /\ channelSubscriptions'[d] = Nil /\ SubsOf(c)' = {}
    <3> TAKE d \in Channels
    <3>1. \/ channelSubscriptions'[d] = channelSubscriptions[d]
          \/ d = c /\ channelSubscriptions'[d] = Nil
      BY <1>1, <2>2 DEF TypeOK
    <3>2. (d = c /\ channelSubscriptions'[d] = Nil) => SubsOf(c)' = {}
      BY DEF SubsOf
    <3> QED BY <3>1, <3>2
  <2>4. \A v \in UIDs : subscriptions'[v] = IF v = u THEN 0 ELSE subscriptions[v]
    BY <1>1, <2>1 DEF TypeOK
  <2>5. \A v \in UIDs : subsConsumerGroups'[v] = IF v = u THEN Nil ELSE subsConsumerGroups[v]
    BY <1>1, <2>1 DEF TypeOK
  <2> QED BY <2>3, <2>4, <2>5
<1>9. \A q \in Procs : proc[q].ch \in Channels
  BY <1>1 DEF TypeOK, ProcRecord
<1>10. LockInv'
  BY <1>4, <1>6 DEF IInv, LockInv
<1>11. ProcInv'
  <2>1. ProcOK(p)'
    <3>1. /\ proc'[p].toAdd = {} /\ proc'[p].toRemove = proc[p].toRemove \ {u}
          /\ proc'[p].conf = proc[p].conf /\ proc'[p].ch = c /\ proc'[p].pc = "update"
      BY <1>0, <1>1, <1>4, <1>6
    <3>4. proc'[p].closing = g /\ group'[g].state = "closing"
      BY <1>3, <1>5, <1>6
    <3>2. /\ \A v \in UIDs : proc[p].conf[v] # 0 => ChannelOf[v] = c
          /\ proc[p].toRemove \subseteq SubsOf(c)
          /\ IF p = Informer THEN c = Self /\ proc[p].conf = NoSubscribers
             ELSE \A v \in proc[p].toRemove : proc[p].conf[v] = 0
      BY <1>0, <1>1 DEF ProcOK
    <3>3. SubsOf(c)' = SubsOf(c) \ {u} /\ SubsOf(proc[p].ch)' = SubsOf(c)'
      BY <1>7, <3>1 DEF SubsOf
    <3> QED BY <3>1, <3>2, <3>3, <3>4 DEF ProcOK
  <2>2. ASSUME NEW q \in Procs, q # p PROVE ProcOK(q)'
    <3>1. proc[q].toAdd = {} /\ proc[q].toRemove = {} /\ proc[q].closing = Nil /\ proc'[q] = proc[q]
      BY <1>1, <1>6, <2>2, Others
    <3> QED BY <3>1 DEF IInv, ProcInv, ProcOK
  <2> QED BY <2>1, <2>2 DEF ProcInv
<1>12. MapInv'
  <2>1. \A v \in UIDs : v # u => subsConsumerGroups[v] # g
    BY <1>0, <1>3 DEF IInv, MapInv
  <2>2. \A v \in UIDs : subsConsumerGroups[v] \in Groups \cup {Nil}
    BY <1>1 DEF TypeOK
  <2>3. \A v \in UIDs : subsConsumerGroups'[v] # Nil =>
           group'[subsConsumerGroups'[v]].state = "open" /\ group'[subsConsumerGroups'[v]].uid = v
    BY <1>5, <1>8, <2>1, <2>2 DEF IInv, MapInv
  <2>4. \A d, e \in Channels : (channelSubscriptions'[d] # Nil /\ d # e)
                                 => channelSubscriptions'[d] # channelSubscriptions'[e]
    BY <1>8 DEF IInv, MapInv
  <2>5. \A d \in Channels : \A v \in SubsOf(d)' : ChannelOf[v] = d
    BY <1>7 DEF IInv, MapInv
  <2> QED BY <2>3, <2>4, <2>5 DEF MapInv
<1>13. GroupInv'
  <2>1. ASSUME NEW h \in Groups, group'[h].state = "closing"
        PROVE  subsConsumerGroups'[group'[h].uid] = Nil /\ \E q \in Procs : proc'[q].closing = h
    <3>1. CASE h = g
      BY <1>3, <1>5, <1>6, <1>8, <3>1
    <3>2. CASE h # g
      <4>1. PICK q \in Procs : proc[q].closing = h
        BY <1>5, <2>1, <3>2 DEF IInv, GroupInv
      <4>2. q = p
        BY <1>1, <1>3, <4>1, Others
      <4> QED BY <1>4, <4>1, <4>2
    <3> QED BY <3>1, <3>2
  <2> QED BY <1>3, <1>5, <2>1 DEF IInv, GroupInv
<1>14. MapsAgree'
  <2>1. \A v \in UIDs : ChannelOf[v] \in Channels
    OBVIOUS
  <2> QED BY <1>7, <1>8, <2>1 DEF IInv, MapsAgree
<1>15. OpenGroupsReachable'
  <2> SUFFICES ASSUME NEW h \in Groups, group'[h].state = "open"
               PROVE  /\ subsConsumerGroups'[group'[h].uid] = h
                      /\ group'[h].rev = subscriptions'[group'[h].uid]
                      /\ group'[h].ks = channelSubscriptions'[ChannelOf[group'[h].uid]]
    BY DEF OpenGroupsReachable
  <2>0. PICK v : v = group[h].uid
    OBVIOUS
  <2>1. h # g /\ group[h].state = "open" /\ group'[h].uid = v
    BY <1>5, <2>0
  <2>2. v \in UIDs
    BY <1>1, <2>0, <2>1 DEF IInv, GroupInv, TypeOK, GroupRecord
  <2>3. /\ subsConsumerGroups[v] = h /\ group[h].rev = subscriptions[v]
        /\ group[h].ks = channelSubscriptions[ChannelOf[v]]
    BY <2>0, <2>1 DEF IInv, OpenGroupsReachable
  <2>4. v # u
    BY <1>0, <2>1, <2>3
  <2>5. ChannelOf[v] \in Channels /\ v \in SubsOf(ChannelOf[v])'
    BY <1>3, <1>7, <2>2, <2>3, <2>4 DEF IInv, MapsAgree
  <2>6. channelSubscriptions'[ChannelOf[v]] = channelSubscriptions[ChannelOf[v]]
    BY <1>8, <2>5
  <2> QED BY <1>5, <1>8, <2>1, <2>2, <2>3, <2>4, <2>6
<1> QED BY <1>10, <1>11, <1>12, <1>13, <1>14, <1>15 DEF IInv

\* When Close() returns the group is free and nobody waits for it.
LEMMA CloseReturnsInv ==
    ASSUME IInv, TypeOK', NEW p \in Procs, NEW err \in BOOLEAN, CloseReturns(p, err)
    PROVE  IInv'
<1>0. PICK g : g = proc[p].closing
  OBVIOUS
<1>1. /\ TypeOK /\ g \in Groups /\ proc[p].pc = "update" /\ ProcOK(p) /\ proc[p].toAdd = {}
  <2>1. TypeOK /\ ProcOK(p) /\ g # Nil
    BY <1>0 DEF IInv, ProcInv, CloseReturns
  <2>2. proc[p].closing \in Groups \cup {Nil}
    BY <2>1 DEF TypeOK, ProcRecord
  <2> QED BY <1>0, <2>1, <2>2 DEF ProcOK
<1>2. /\ group' = [group EXCEPT ![g] = FreeGroup]
      /\ UNCHANGED <<consumerUpdateLock, maps, ks>>
  BY <1>0 DEF CloseReturns
<1>3. /\ \A h \in Groups \ {g} : group'[h] = group[h]
      /\ group'[g].state = "free" /\ group'[g].ks = Nil
  BY <1>1, <1>2 DEF TypeOK, FreeGroup
<1>4. /\ \A q \in Procs : q # p => proc'[q] = proc[q]
      /\ proc'[p].pc = "update" /\ proc'[p].ch = proc[p].ch /\ proc'[p].conf = proc[p].conf
      /\ proc'[p].toAdd = {} /\ proc'[p].closing = Nil
      /\ proc'[p].toRemove \subseteq proc[p].toRemove
  BY <1>1 DEF CloseReturns, TypeOK, ProcRecord
<1>5. \A c : SubsOf(c)' = SubsOf(c)
  BY <1>2 DEF SubsOf
<1>6. LockInv'
  BY <1>1, <1>2, <1>4 DEF IInv, LockInv
<1>7. ProcInv'
  <2>1. ProcOK(p)'
    BY <1>1, <1>4, <1>5 DEF ProcOK
  <2>2. ASSUME NEW q \in Procs, q # p PROVE ProcOK(q)'
    <3>1. proc[q].closing = Nil /\ proc'[q] = proc[q]
      BY <1>1, <1>4, <2>2, Others
    <3> QED BY <1>5, <3>1 DEF IInv, ProcInv, ProcOK
  <2> QED BY <2>1, <2>2 DEF ProcInv
<1>8. \A h \in Groups : group[h].state = "closing" => h = g
  <2> SUFFICES ASSUME NEW h \in Groups, group[h].state = "closing" PROVE h = g
    OBVIOUS
  <2>1. PICK q \in Procs : proc[q].closing = h
    BY DEF IInv, GroupInv
  <2> QED BY <1>0, <1>1, <2>1, Others
<1>9. group[g].state # "open"
  BY <1>0, <1>1 DEF ProcOK
<1>10. MapInv'
  BY <1>2, <1>3, <1>5, <1>9 DEF IInv, MapInv, TypeOK
<1>11. GroupInv'
  BY <1>2, <1>3, <1>8 DEF IInv, GroupInv
<1>12. MapsAgree'
  BY <1>2, <1>5 DEF IInv, MapsAgree
<1>13. OpenGroupsReachable'
  BY <1>2, <1>3 DEF IInv, OpenGroupsReachable
<1> QED BY <1>6, <1>7, <1>10, <1>11, <1>12, <1>13 DEF IInv

\* subscribe enters a uid into all three maps together with its new consumer group.
LEMMA SubscribeInv ==
    ASSUME IInv, TypeOK', NEW w \in Workers, NEW u \in UIDs, NEW k \in KafkaSubscriptions,
           NEW g \in Groups, Subscribe(w, u, k, g)
    PROVE  IInv'
<1> w \in Procs
  BY DEF Procs
<1>a. TypeOK /\ proc[w].ch \in Channels
  BY DEF IInv, TypeOK, ProcRecord
<1>0. PICK c \in Channels : c = proc[w].ch
  BY <1>a
<1>1. /\ TypeOK /\ proc[w].pc = "update" /\ ProcOK(w) /\ u \in proc[w].toAdd
      /\ u \notin SubsOf(c) /\ ChannelOf[u] = c /\ proc[w].conf[u] # 0
      /\ proc[w].closing = Nil /\ group[g].state = "free" /\ GetOrCreate(c, k)
  BY <1>a, <1>0 DEF IInv, ProcInv, ProcOK, Subscribe
<1>2. subscriptions[u] = 0 /\ subsConsumerGroups[u] = Nil
  BY <1>1 DEF IInv, MapsAgree
<1>3. /\ channelSubscriptions' = [channelSubscriptions EXCEPT ![c] = k]
      /\ ks' = [ks EXCEPT ![k] = [KafkaSubscriptionOf(c, k) EXCEPT !.subs = @ \cup {u}]]
      /\ group' = [group EXCEPT ![g] = [FreeGroup EXCEPT !.state = "open", !.uid = u,
                                                !.rev = proc[w].conf[u], !.ks = k]]
      /\ subscriptions' = [subscriptions EXCEPT ![u] = proc[w].conf[u]]
      /\ subsConsumerGroups' = [subsConsumerGroups EXCEPT ![u] = g]
      /\ proc' = [proc EXCEPT ![w].toAdd = @ \ {u}]
      /\ consumerUpdateLock' = consumerUpdateLock
  BY <1>0 DEF Subscribe
<1>4. /\ \A h \in Groups \ {g} : group'[h] = group[h]
      /\ group'[g].state = "open" /\ group'[g].uid = u /\ group'[g].rev = proc[w].conf[u]
      /\ group'[g].ks = k
  BY <1>1, <1>3 DEF TypeOK, FreeGroup
<1>5. /\ \A q \in Procs \ {w} : proc'[q] = proc[q]
      /\ proc'[w].pc = "update" /\ proc'[w].ch = c /\ proc'[w].conf = proc[w].conf
      /\ proc'[w].toAdd = proc[w].toAdd \ {u} /\ proc'[w].closing = Nil
      /\ proc'[w].toRemove = proc[w].toRemove
  BY <1>0, <1>1, <1>3 DEF TypeOK, ProcRecord
<1>6. \A d \in Channels : /\ channelSubscriptions'[d] = IF d = c THEN k ELSE channelSubscriptions[d]
                          /\ d # c => channelSubscriptions[d] # k
                          /\ channelSubscriptions[c] # Nil => channelSubscriptions[c] = k
  <2>1. channelSubscriptions[c] # Nil => channelSubscriptions[c] = k
    BY <1>1 DEF GetOrCreate
  <2>2. \A d \in Channels : d # c => channelSubscriptions[d] # k
    BY <1>1, <2>1 DEF GetOrCreate, Unreferenced, IInv, MapInv
  <2> QED BY <1>1, <1>3, <2>1, <2>2 DEF TypeOK
<1>7. \A d \in Channels : SubsOf(d)' = IF d = c THEN SubsOf(d) \cup {u} ELSE SubsOf(d)
  <2>1. KafkaSubscriptionOf(c, k) \in KafkaSubscriptionRecord
    BY <1>1, KafkaSubscriptionType
  <2>2. KafkaSubscriptionOf(c, k).subs = SubsOf(c)
    BY <1>6 DEF KafkaSubscriptionOf, SubsOf, NewKafkaSubscription
  <2>3. \A j \in KafkaSubscriptions : j # k => ks'[j] = ks[j]
    BY <1>1, <1>3 DEF TypeOK
  <2>4. ks'[k].subs = SubsOf(c) \cup {u}
    BY <1>1, <1>3, <2>1, <2>2 DEF TypeOK, KafkaSubscriptionRecord
  <2>5. SubsOf(c)' = SubsOf(c) \cup {u}
    BY <1>6, <2>4 DEF SubsOf
  <2>6. ASSUME NEW d \in Channels, d # c PROVE SubsOf(d)' = SubsOf(d)
    BY <1>1, <1>6, <2>3, <2>6 DEF SubsOf, TypeOK
  <2> QED BY <2>5, <2>6
<1>8. /\ \A v \in UIDs : subscriptions'[v] = IF v = u THEN proc[w].conf[u] ELSE subscriptions[v]
      /\ \A v \in UIDs : subsConsumerGroups'[v] = IF v = u THEN g ELSE subsConsumerGroups[v]
  BY <1>1, <1>3 DEF TypeOK
<1>9. LockInv'
  BY <1>1, <1>3, <1>5 DEF IInv, LockInv
<1>10. ProcInv'
  <2>1. ProcOK(w)'
    <3>1. SubsOf(proc[w].ch)' = SubsOf(c) \cup {u}
      BY <1>5, <1>7 DEF SubsOf
    <3> QED BY <1>0, <1>1, <1>5, <3>1 DEF ProcOK
  <2>2. ASSUME NEW q \in Procs, q # w PROVE ProcOK(q)'
    <3>1. proc[q].toAdd = {} /\ proc[q].toRemove = {} /\ proc[q].closing = Nil /\ proc'[q] = proc[q]
      BY <1>1, <1>5, <2>2, Others
    <3> QED BY <3>1 DEF IInv, ProcInv, ProcOK
  <2> QED BY <2>1, <2>2 DEF ProcInv
<1>11. MapInv'
  <2>1. \A v \in UIDs : subsConsumerGroups[v] # g /\ subsConsumerGroups[v] \in Groups \cup {Nil}
    BY <1>1 DEF IInv, MapInv, TypeOK
  <2>2. \A v \in UIDs : subsConsumerGroups'[v] # Nil =>
           group'[subsConsumerGroups'[v]].state = "open" /\ group'[subsConsumerGroups'[v]].uid = v
    BY <1>4, <1>8, <2>1 DEF IInv, MapInv
  <2>3. \A d, e \in Channels : (channelSubscriptions'[d] # Nil /\ d # e)
                                 => channelSubscriptions'[d] # channelSubscriptions'[e]
    BY <1>6 DEF IInv, MapInv
  <2>4. \A d \in Channels : \A v \in SubsOf(d)' : ChannelOf[v] = d
    BY <1>1, <1>7 DEF IInv, MapInv
  <2> QED BY <2>2, <2>3, <2>4 DEF MapInv
<1>12. GroupInv'
  <2>1. \A h \in Groups : group[h].state # "closing"
    <3> SUFFICES ASSUME NEW h \in Groups, group[h].state = "closing" PROVE FALSE
      OBVIOUS
    <3>1. PICK q \in Procs : proc[q].closing = h
      BY DEF IInv, GroupInv
    <3> QED BY <1>1, <3>1, Others
  <2> QED BY <1>4, <2>1 DEF IInv, GroupInv
<1>13. MapsAgree'
  <2>1. g # Nil
    OBVIOUS
  <2> QED BY <1>1, <1>7, <1>8, <2>1 DEF IInv, MapsAgree
<1>14. OpenGroupsReachable'
  <2> SUFFICES ASSUME NEW h \in Groups, group'[h].state = "open"
               PROVE  /\ subsConsumerGroups'[group'[h].uid] = h
                      /\ group'[h].rev = subscriptions'[group'[h].uid]
                      /\ group'[h].ks = channelSubscriptions'[ChannelOf[group'[h].uid]]
    BY DEF OpenGroupsReachable
  <2>1. CASE h = g
    BY <1>1, <1>4, <1>6, <1>8, <2>1
  <2>2. CASE h # g
    <3>0. PICK v : v = group[h].uid
      OBVIOUS
    <3>1. group[h].state = "open" /\ group'[h] = group[h]
      BY <1>4, <2>2
    <3>2. v \in UIDs
      BY <1>1, <3>0, <3>1 DEF IInv, GroupInv, TypeOK, GroupRecord
    <3>3. /\ subsConsumerGroups[v] = h /\ group[h].rev = subscriptions[v]
          /\ group[h].ks = channelSubscriptions[ChannelOf[v]] /\ group[h].ks # Nil
      BY <3>0, <3>1 DEF IInv, OpenGroupsReachable, GroupInv
    <3>4. v # u
      BY <1>2, <3>3
    <3>5. channelSubscriptions'[ChannelOf[v]] = channelSubscriptions[ChannelOf[v]]
      BY <1>6, <3>2, <3>3
    <3> QED BY <1>8, <3>0, <3>1, <3>2, <3>3, <3>4, <3>5
  <2> QED BY <2>1, <2>2
<1> QED BY <1>9, <1>10, <1>11, <1>12, <1>13, <1>14 DEF IInv

\* A subscribe whose consumer group does not start leaves the maps in agreement: only an
\* empty KafkaSubscription may stay behind.
LEMMA SubscribeFailsInv ==
    ASSUME IInv, TypeOK', NEW w \in Workers, NEW u \in UIDs, NEW k \in KafkaSubscriptions,
           SubscribeFails(w, u, k)
    PROVE  IInv'
<1> w \in Procs
  BY DEF Procs
<1>a. TypeOK /\ proc[w].ch \in Channels
  BY DEF IInv, TypeOK, ProcRecord
<1>0. PICK c \in Channels : c = proc[w].ch
  BY <1>a
<1>1. TypeOK /\ proc[w].pc = "update" /\ ProcOK(w) /\ u \in proc[w].toAdd /\ GetOrCreate(c, k)
  BY <1>a, <1>0 DEF IInv, ProcInv, SubscribeFails
<1>2. /\ channelSubscriptions' = [channelSubscriptions EXCEPT ![c] = k]
      /\ ks' = [ks EXCEPT ![k] = KafkaSubscriptionOf(c, k)]
      /\ proc' = [proc EXCEPT ![w].toAdd = @ \ {u}, ![w].failed = TRUE]
      /\ UNCHANGED <<consumerUpdateLock, subscriptions, subsConsumerGroups, group>>
  BY <1>0 DEF SubscribeFails
<1>3. /\ \A q \in Procs \ {w} : proc'[q] = proc[q]
      /\ proc'[w].pc = "update" /\ proc'[w].ch = c /\ proc'[w].conf = proc[w].conf
      /\ proc'[w].toAdd = proc[w].toAdd \ {u} /\ proc'[w].closing = proc[w].closing
      /\ proc'[w].toRemove = proc[w].toRemove
  BY <1>0, <1>1, <1>2 DEF TypeOK, ProcRecord
<1>4. \A d \in Channels : /\ channelSubscriptions'[d] = IF d = c THEN k ELSE channelSubscriptions[d]
                          /\ d # c => channelSubscriptions[d] # k
                          /\ channelSubscriptions[c] # Nil => channelSubscriptions[c] = k
  <2>1. channelSubscriptions[c] # Nil => channelSubscriptions[c] = k
    BY <1>1 DEF GetOrCreate
  <2>2. \A d \in Channels : d # c => channelSubscriptions[d] # k
    BY <1>1, <2>1 DEF GetOrCreate, Unreferenced, IInv, MapInv
  <2> QED BY <1>1, <1>2, <2>1, <2>2 DEF TypeOK
<1>5. \A d \in Channels : SubsOf(d)' = SubsOf(d)
  <2>1. \A j \in KafkaSubscriptions : ks'[j] = IF j = k THEN KafkaSubscriptionOf(c, k) ELSE ks[j]
    BY <1>1, <1>2 DEF TypeOK
  <2>2. KafkaSubscriptionOf(c, k).subs = SubsOf(c)
    BY <1>4 DEF KafkaSubscriptionOf, SubsOf, NewKafkaSubscription
  <2>3. SubsOf(c)' = SubsOf(c)
    BY <1>4, <2>1, <2>2 DEF SubsOf
  <2>4. ASSUME NEW d \in Channels, d # c PROVE SubsOf(d)' = SubsOf(d)
    BY <1>1, <1>4, <2>1, <2>4 DEF SubsOf, TypeOK
  <2> QED BY <2>3, <2>4
<1>6. LockInv'
  BY <1>1, <1>2, <1>3 DEF IInv, LockInv
<1>7. ProcInv'
  <2>1. ProcOK(w)'
    <3>1. SubsOf(proc[w].ch)' = SubsOf(c)
      BY <1>3, <1>5 DEF SubsOf
    <3>2. proc[w].closing = Nil
      BY <1>1 DEF ProcOK
    <3> QED BY <1>0, <1>1, <1>3, <3>1, <3>2 DEF ProcOK
  <2>2. ASSUME NEW q \in Procs, q # w PROVE ProcOK(q)'
    <3>1. proc[q].toAdd = {} /\ proc[q].toRemove = {} /\ proc[q].closing = Nil /\ proc'[q] = proc[q]
      BY <1>1, <1>3, <2>2, Others
    <3> QED BY <3>1 DEF IInv, ProcInv, ProcOK
  <2> QED BY <2>1, <2>2 DEF ProcInv
<1>8. MapInv'
  <2>1. \A d, e \in Channels : (channelSubscriptions'[d] # Nil /\ d # e)
                                 => channelSubscriptions'[d] # channelSubscriptions'[e]
    BY <1>4 DEF IInv, MapInv
  <2> QED BY <1>2, <1>5, <2>1 DEF IInv, MapInv
<1>9. GroupInv'
  <2>1. \A q \in Procs : proc'[q].closing = proc[q].closing
    BY <1>3
  <2>2. group' = group /\ subsConsumerGroups' = subsConsumerGroups
    BY <1>2
  <2> QED BY <2>1, <2>2 DEF IInv, GroupInv
<1>10. MapsAgree'
  BY <1>2, <1>5 DEF IInv, MapsAgree
<1>11. OpenGroupsReachable'
  <2> SUFFICES ASSUME NEW h \in Groups, group[h].state = "open"
               PROVE  group[h].ks = channelSubscriptions'[ChannelOf[group[h].uid]]
    BY <1>2 DEF IInv, OpenGroupsReachable
  <2>1. group[h].uid \in UIDs
    BY <1>1 DEF IInv, GroupInv, TypeOK, GroupRecord
  <2>2. group[h].ks = channelSubscriptions[ChannelOf[group[h].uid]] /\ group[h].ks # Nil
    BY DEF IInv, OpenGroupsReachable, GroupInv
  <2> QED BY <1>4, <2>1, <2>2
<1> QED BY <1>6, <1>7, <1>8, <1>9, <1>10, <1>11 DEF IInv

\* The return of ReconcileConsumers and CleanupChannel, with the deferred Unlock.
LEMMA ReturnInv == ASSUME IInv, TypeOK', NEW p \in Procs, Return(p) PROVE IInv'
<1>1. TypeOK /\ LockInv
  BY DEF IInv
<1>2. /\ proc[p].pc = "update" /\ proc[p].closing = Nil /\ consumerUpdateLock' = Nil
      /\ UNCHANGED <<maps, ks, group>>
      /\ proc' = [proc EXCEPT ![p] = IdleProc]
  BY DEF Return, Done, ToIdle
<1>3. proc'[p] = IdleProc /\ \A q \in Procs \ {p} : proc'[q] = proc[q]
  BY <1>1, <1>2 DEF TypeOK
<1>4. ProcOK(p)'
  BY <1>3 DEF ProcOK, IdleProc, NoSubscribers
<1>5. LockInv'
  BY <1>1, <1>2, <1>3 DEF LockInv, IdleProc
<1> QED BY <1>2, <1>3, <1>4, <1>5, ProcFrame

\* Every step of a worker keeps the invariant.
LEMMA WorkerInv == ASSUME IInv, TypeOK', NEW w \in Workers, WorkerStep(w) PROVE IInv'
<1> w \in Procs
  BY DEF Procs
<1>0. /\ TypeOK /\ LockInv /\ ProcOK(w)
      /\ proc[w] \in ProcRecord
      /\ proc[w].pc # "update" =>
           proc[w].toAdd = {} /\ proc[w].toRemove = {} /\ proc[w].closing = Nil
  BY DEF IInv, ProcInv, ProcOK, TypeOK
<1>1. ASSUME NEW c \in Channels, Dequeue(w, c) PROVE IInv'
  <2>1. proc[w].pc = "idle" /\ UNCHANGED <<maps, ks, group, consumerUpdateLock>>
    BY <1>1 DEF Dequeue
  <2>2. CASE proc' = proc
    BY <2>1, <2>2, Frame
  <2>3. CASE proc' # proc
    <3>1. /\ lister[c] # Nil
          /\ proc' = [proc EXCEPT ![w] = [IdleProc EXCEPT !.pc = "register", !.ch = c,
                                                 !.conf = lister[c].subscribers]]
      BY <1>1, <2>3 DEF Dequeue
    <3>2. /\ \A q \in Procs \ {w} : proc'[q] = proc[q]
          /\ proc'[w].pc = "register" /\ proc'[w].ch = c /\ proc'[w].conf = lister[c].subscribers
          /\ proc'[w].toAdd = {} /\ proc'[w].toRemove = {} /\ proc'[w].closing = Nil
      BY <1>0, <3>1 DEF TypeOK, IdleProc
    <3>3. lister[c].subscribers \in Subscribers(c)
      BY <1>0, <3>1 DEF TypeOK
    <3>4. ProcOK(w)'
      BY <3>2, <3>3 DEF ProcOK, Subscribers
    <3>5. LockInv'
      BY <1>0, <2>1, <3>2 DEF LockInv
    <3> QED BY <1>0, <2>1, <3>2, <3>4, <3>5, ProcFrame
  <2> QED BY <2>2, <2>3
<1>2. ASSUME RegisterChannelHost(w) PROVE IInv'
  <2>1. /\ proc[w].pc = "register" /\ UNCHANGED <<maps, ks, group, consumerUpdateLock>>
        /\ \/ proc' = [proc EXCEPT ![w].pc = "lock"]
           \/ proc' = [proc EXCEPT ![w] = IdleProc]
    BY <1>2 DEF RegisterChannelHost, ToIdle
  <2>2. /\ \A q \in Procs \ {w} : proc'[q] = proc[q]
        /\ proc'[w].pc # "update" /\ proc'[w].toAdd = {} /\ proc'[w].toRemove = {}
        /\ proc'[w].closing = Nil
        /\ \/ proc'[w].ch = proc[w].ch /\ proc'[w].conf = proc[w].conf
           \/ proc'[w].conf = NoSubscribers
    <3>1. CASE proc' = [proc EXCEPT ![w].pc = "lock"]
      BY <1>0, <2>1, <3>1 DEF TypeOK, ProcRecord
    <3>2. CASE proc' = [proc EXCEPT ![w] = IdleProc]
      BY <1>0, <3>2 DEF TypeOK, IdleProc
    <3> QED BY <2>1, <3>1, <3>2
  <2>3. ProcOK(w)'
    BY <1>0, <2>2 DEF ProcOK, NoSubscribers
  <2>4. LockInv'
    BY <1>0, <2>1, <2>2 DEF LockInv
  <2> QED BY <1>0, <2>1, <2>2, <2>3, <2>4, ProcFrame
<1>3. ASSUME ReconcileConsumers(w) PROVE IInv'
  <2>0. PICK c, new, existing :
           c = proc[w].ch /\ new = Listed(proc[w].conf) /\ existing = SubsOf(c)
    OBVIOUS
  <2>1. /\ proc[w].pc = "lock" /\ consumerUpdateLock = Nil /\ consumerUpdateLock' = w
        /\ UNCHANGED <<maps, ks, group>>
        /\ proc' = [proc EXCEPT ![w].pc = "update", ![w].toAdd = new \ existing,
                                ![w].toRemove = existing \ new]
    BY <1>3, <2>0 DEF ReconcileConsumers, StartUpdate
  <2>2. /\ \A q \in Procs \ {w} : proc'[q] = proc[q]
        /\ proc'[w].pc = "update" /\ proc'[w].toAdd = new \ existing
        /\ proc'[w].toRemove = existing \ new /\ proc'[w].closing = Nil
        /\ proc'[w].ch = c /\ proc'[w].conf = proc[w].conf
    BY <1>0, <2>0, <2>1 DEF TypeOK, ProcRecord
  <2>3. existing \subseteq UIDs
    BY <1>0, <2>0 DEF SubsOf, TypeOK, KafkaSubscriptionRecord, ProcRecord
  <2>4. SubsOf(proc[w].ch)' = existing
    BY <2>0, <2>1, <2>2 DEF SubsOf
  <2>5. ProcOK(w)'
    BY <1>0, <2>0, <2>2, <2>3, <2>4 DEF ProcOK, Listed
  <2>6. LockInv'
    BY <1>0, <2>1, <2>2 DEF LockInv
  <2> QED BY <1>0, <2>1, <2>2, <2>5, <2>6, ProcFrame
<1>4. ASSUME NEW u \in UIDs, Unsubscribe(w, u) PROVE IInv'
  BY <1>4, UnsubscribeInv
<1>5. ASSUME NEW err \in BOOLEAN, CloseReturns(w, err) PROVE IInv'
  BY <1>5, CloseReturnsInv
<1> QED BY <1>1, <1>2, <1>3, <1>4, <1>5, SubscribeInv, SubscribeFailsInv, ReturnInv
        DEF WorkerStep, SubscribeStep, UpdateStep

\* Every step of the informer's handler keeps the invariant.
LEMMA InformerInv == ASSUME IInv, TypeOK', InformerStep PROVE IInv'
<1> Informer \in Procs
  BY DEF Procs
<1>0. /\ TypeOK /\ LockInv /\ ProcOK(Informer)
      /\ proc[Informer] \in ProcRecord
      /\ proc[Informer].pc # "update" =>
           /\ proc[Informer].toAdd = {} /\ proc[Informer].toRemove = {}
           /\ proc[Informer].closing = Nil
  BY DEF IInv, ProcInv, ProcOK, TypeOK
<1>1. ASSUME HandleUpsert PROVE IInv'
  BY <1>1, Frame DEF HandleUpsert
<1>2. ASSUME HandleDelete PROVE IInv'
  <2>1. /\ proc[Informer].pc = "idle" /\ UNCHANGED <<maps, ks, group, consumerUpdateLock>>
        /\ proc' = [proc EXCEPT ![Informer].pc = "lock", ![Informer].ch = Self]
    BY <1>2 DEF HandleDelete
  <2>2. /\ \A q \in Procs \ {Informer} : proc'[q] = proc[q]
        /\ proc'[Informer].pc = "lock" /\ proc'[Informer].ch = Self
        /\ proc'[Informer].toAdd = {} /\ proc'[Informer].toRemove = {}
        /\ proc'[Informer].closing = Nil /\ proc'[Informer].conf = proc[Informer].conf
    BY <1>0, <2>1 DEF TypeOK, ProcRecord
  <2>3. ProcOK(Informer)'
    BY <1>0, <2>2 DEF ProcOK, NoSubscribers
  <2>4. LockInv'
    BY <1>0, <2>1, <2>2 DEF LockInv
  <2> QED BY <1>0, <2>1, <2>2, <2>3, <2>4, ProcFrame
<1>3. ASSUME HandleDeleteNoAddress PROVE IInv'
  BY <1>3, RestartInv DEF HandleDeleteNoAddress
<1>4. ASSUME CleanupChannel PROVE IInv'
  <2>1. /\ proc[Informer].pc = "lock" /\ consumerUpdateLock = Nil
        /\ UNCHANGED <<maps, ks, group>>
    BY <1>4 DEF CleanupChannel
  <2>2. CASE channelSubscriptions[Self] = Nil
    <3>1. consumerUpdateLock' = consumerUpdateLock /\ proc' = [proc EXCEPT ![Informer] = IdleProc]
      BY <1>4, <2>2 DEF CleanupChannel, ToIdle
    <3>2. proc'[Informer] = IdleProc /\ \A q \in Procs \ {Informer} : proc'[q] = proc[q]
      BY <1>0, <3>1 DEF TypeOK
    <3>3. ProcOK(Informer)'
      BY <3>2 DEF ProcOK, IdleProc, NoSubscribers
    <3>4. LockInv'
      BY <1>0, <2>1, <3>1, <3>2 DEF LockInv, IdleProc
    <3> QED BY <1>0, <2>1, <3>2, <3>3, <3>4, ProcFrame
  <2>3. CASE channelSubscriptions[Self] # Nil
    <3>0. PICK existing : existing = SubsOf(Self)
      OBVIOUS
    <3>1. /\ consumerUpdateLock' = Informer
          /\ proc' = [proc EXCEPT ![Informer].pc = "update", ![Informer].toRemove = existing]
      BY <1>4, <2>3, <3>0 DEF CleanupChannel
    <3>2. /\ \A q \in Procs \ {Informer} : proc'[q] = proc[q]
          /\ proc'[Informer].pc = "update" /\ proc'[Informer].ch = proc[Informer].ch
          /\ proc'[Informer].toAdd = {} /\ proc'[Informer].toRemove = existing
          /\ proc'[Informer].closing = Nil /\ proc'[Informer].conf = proc[Informer].conf
      BY <1>0, <2>1, <3>1 DEF TypeOK, ProcRecord
    <3>3. SubsOf(proc[Informer].ch)' = existing
      <4>1. proc[Informer].ch = Self
        BY <1>0 DEF ProcOK
      <4> QED BY <2>1, <3>0, <3>2, <4>1 DEF SubsOf
    <3>4. ProcOK(Informer)'
      BY <1>0, <3>2, <3>3 DEF ProcOK
    <3>5. LockInv'
      BY <1>0, <2>1, <3>1, <3>2 DEF LockInv
    <3> QED BY <1>0, <2>1, <3>2, <3>4, <3>5, ProcFrame
  <2> QED BY <2>2, <2>3
<1>5. ASSUME NEW u \in UIDs, Unsubscribe(Informer, u) PROVE IInv'
  BY <1>5, UnsubscribeInv
<1>6. ASSUME NEW err \in BOOLEAN, CloseReturns(Informer, err) PROVE IInv'
  BY <1>6, CloseReturnsInv
<1> QED BY <1>1, <1>2, <1>3, <1>4, <1>5, <1>6, ReturnInv DEF InformerStep, UpdateStep

\* A step of a consumer group keeps the subs of every KafkaSubscription and the group's
\* binding; so do the endpoint's requests.
LEMMA GroupBinding ==
    ASSUME TypeOK, NEW g \in Groups, GroupStep(g)
    PROVE  \A h \in Groups : /\ group'[h].state = group[h].state /\ group'[h].uid = group[h].uid
                             /\ group'[h].rev = group[h].rev /\ group'[h].ks = group[h].ks
<1> DEFINE Bound(new) ==
      \A h \in Groups : /\ new[h].state = group[h].state /\ new[h].uid = group[h].uid
                        /\ new[h].rev = group[h].rev /\ new[h].ks = group[h].ks
<1>1. \/ \E s : group' = [group EXCEPT ![g].session = s]
      \/ \E p, s : group' = [group EXCEPT ![g].claims[p] = s]
      \/ \E s, f : group' = [group EXCEPT ![g].session = s, ![g].claims = f]
  BY DEF GroupStep, SessionCleanup, SessionStart, ConsumeClaim, HandleFails, SessionEnd,
         CleanupClaim, SessionOver
<1>2. ASSUME NEW s, group' = [group EXCEPT ![g].session = s] PROVE Bound(group')
  BY <1>2 DEF TypeOK, GroupRecord
<1>3. ASSUME NEW p, NEW s, group' = [group EXCEPT ![g].claims[p] = s] PROVE Bound(group')
  BY <1>3 DEF TypeOK, GroupRecord
<1>4. ASSUME NEW s, NEW f, group' = [group EXCEPT ![g].session = s, ![g].claims = f]
      PROVE  Bound(group')
  BY <1>4 DEF TypeOK, GroupRecord
<1> QED BY <1>1, <1>2, <1>3, <1>4

\* The sessions of consumer groups keep the invariant.
LEMMA GroupInvStep == ASSUME IInv, TypeOK', NEW g \in Groups, GroupStep(g) PROVE IInv'
<1>0. TypeOK
  BY DEF IInv
<1>1. UNCHANGED <<consumerUpdateLock, maps, proc>>
  BY DEF GroupStep, SessionCleanup, SessionStart, ConsumeClaim, HandleFails, SessionEnd,
         CleanupClaim, SessionOver, GroupOnly
<1>2. \A k \in KafkaSubscriptions : ks'[k].subs = ks[k].subs
  <2>1. ASSUME NEW p, NEW ready, GroupSetReady(g, p, ready)
        PROVE  \A k \in KafkaSubscriptions : ks'[k].subs = ks[k].subs
    BY <1>0, <2>1 DEF GroupSetReady, TypeOK, KafkaSubscriptionRecord
  <2> QED BY <2>1 DEF GroupStep, SessionCleanup, SessionStart, ConsumeClaim, HandleFails,
                  SessionEnd, CleanupClaim, SessionOver
<1> QED BY <1>0, <1>1, <1>2, GroupBinding, Frame

\* The subscription endpoint keeps the invariant, its fatal RUnlock included.
LEMMA RequestInvStep ==
    ASSUME IInv, TypeOK', NEW r \in Requests,
           RequestStep(r) \/ \E c \in Channels : ServeHTTP(r, c)
    PROVE  IInv'
<1>0. TypeOK
  BY DEF IInv
<1>1. CASE RUnlockOfUnlocked(r)
  BY <1>1, RestartInv DEF RUnlockOfUnlocked
<1>2. CASE ~RUnlockOfUnlocked(r)
  <2>1. UNCHANGED <<consumerUpdateLock, maps, proc, group>>
    BY <1>2 DEF RequestStep, ServeHTTP, RLock, DeferRUnlock, RangeReady, RUnlock, EndpointOnly
  <2>2. ks' = ks \/ \E k, n : ks' = [ks EXCEPT ![k].readers = n]
    <3>1. RLock(r) => \/ ks' = ks
                      \/ ks' = [ks EXCEPT ![Looked(r)].readers = ks[Looked(r)].readers + 1]
      BY DEF RLock
    <3>2. RUnlock(r) => ks' = [ks EXCEPT ![req[r].deferred].readers =
                                            ks[req[r].deferred].readers - 1]
      BY DEF RUnlock
    <3>3. RLock(r) \/ RUnlock(r) \/ ks' = ks
      BY <1>2 DEF RequestStep, ServeHTTP, DeferRUnlock, RangeReady
    <3> QED BY <3>1, <3>2, <3>3
  <2>3. \A k \in KafkaSubscriptions : ks'[k].subs = ks[k].subs
    <3>1. ASSUME NEW j, NEW n, ks' = [ks EXCEPT ![j].readers = n]
          PROVE  \A k \in KafkaSubscriptions : ks'[k].subs = ks[k].subs
      BY <1>0, <3>1 DEF TypeOK, KafkaSubscriptionRecord
    <3> QED BY <2>2, <3>1
  <2> QED BY <2>1, <2>3, Frame
<1> QED BY <1>1, <1>2

\* Edits of the API objects and Promote keep the invariant.
LEMMA EnvironmentInv == ASSUME IInv, TypeOK', Environment PROVE IInv'
<1>1. UNCHANGED <<consumerUpdateLock, maps, proc, ks, group>>
  BY DEF Environment, CreateChannel, DeleteChannel, EditSubscriber, ChangeStatus, Edit, Promote
<1> QED BY <1>1, Frame

--------------------------------------------------------------------------------
(* The theorems *)

\* Every step of the dispatcher keeps the invariant.
LEMMA Inductive == IInv /\ [Next]_vars => IInv'
<1> SUFFICES ASSUME IInv, [Next]_vars PROVE IInv'
  OBVIOUS
<1>0. TypeOK /\ \A g \in Groups : group[g].ks # Nil => group[g].uid # Nil
  BY DEF IInv, GroupInv
<1>1. CASE UNCHANGED vars
  <2>1. TypeOK'
    BY <1>0, <1>1 DEF vars, TypeOK
  <2> QED BY <1>1, <2>1, Frame DEF vars
<1>2. CASE Environment
  BY <1>0, <1>2, EnvironmentType, EnvironmentInv
<1>3. ASSUME NEW w \in Workers, WorkerStep(w) PROVE IInv'
  BY <1>0, <1>3, WorkerType, WorkerInv
<1>4. CASE InformerStep
  BY <1>0, <1>4, InformerType, InformerInv
<1>5. ASSUME NEW g \in Groups, GroupStep(g) PROVE IInv'
  BY <1>0, <1>5, GroupType, GroupInvStep
<1>6. ASSUME NEW r \in Requests, RequestStep(r) \/ \E c \in Channels : ServeHTTP(r, c)
      PROVE  IInv'
  BY <1>0, <1>6, RequestType, RequestInvStep
<1> QED BY <1>1, <1>2, <1>3, <1>4, <1>5, <1>6 DEF Next

\* The inductive invariant holds in every state of the dispatcher.
LEMMA Invariance == Spec => []IInv
<1>1. Init => Fresh
  BY DEF Init, Fresh
<1>2. Init => IInv
  BY <1>1, InitType, FreshInv
<1> QED BY <1>2, Inductive, PTL DEF Spec

\* The variables keep their types: in particular RUnlock never leaves a negative number
\* of readers, and the object a process closes or reports to is one of the heap.
THEOREM TypeCorrect == Spec => []TypeOK
<1>1. IInv => TypeOK
  BY DEF IInv
<1> QED BY <1>1, Invariance, PTL

\* subscriptions, subsConsumerGroups and the subs of the KafkaSubscriptions agree after
\* every step of subscribe and unsubscribe, whatever fails.
THEOREM MapsAlwaysAgree == Spec => []MapsAgree
<1>1. IInv => MapsAgree
  BY DEF IInv
<1> QED BY <1>1, Invariance, PTL

\* Every open consumer group is reachable from the maps: unsubscribe and CleanupChannel
\* find it, and SetReady reports to the object the endpoint serves.
THEOREM NoLeakedConsumers == Spec => []OpenGroupsReachable
<1>1. IInv => OpenGroupsReachable
  BY DEF IInv
<1> QED BY <1>1, Invariance, PTL

\* No subscription ever has two consumer groups that are open or still closing, however
\* many workers and channels there are.
THEOREM SingleConsumer == Spec => []OneConsumerPerSubscription
<1>1. IInv => OneConsumerPerSubscription
  BY OneGroup DEF OneConsumerPerSubscription
<1> QED BY <1>1, Invariance, PTL

\* Only CleanupChannel, or a sync whose config lacks the uid, closes a consumer group.
THEOREM SurvivorsAreLeftAlone == Spec => SurvivorsKeepConsuming
<1>1. ASSUME IInv, [Next]_vars, NEW g \in Groups,
             group[g].state = "open", group'[g].state = "closing"
      PROVE  \/ consumerUpdateLock = Informer
             \/ proc[consumerUpdateLock].conf[group[g].uid] = 0
  <2>0. TypeOK
    BY <1>1 DEF IInv
  <2>1. PICK p \in Procs, u \in UIDs : Unsubscribe(p, u)
    <3>1. ~Restart
      BY <1>1 DEF Restart, FreeGroup
    <3>2. ~UNCHANGED group
      BY <1>1
    <3>3. \A h \in Groups : ~GroupStep(h)
      <4> SUFFICES ASSUME NEW h \in Groups, GroupStep(h) PROVE FALSE
        OBVIOUS
      <4>1. group'[g].state = group[g].state
        BY <2>0, GroupBinding
      <4> QED BY <1>1, <4>1
    <3>a. \A h, r : group' = [group EXCEPT ![h] = r] => r.state = "closing"
      <4> SUFFICES ASSUME NEW h, NEW r, group' = [group EXCEPT ![h] = r] PROVE r.state = "closing"
        OBVIOUS
      <4> QED BY <1>1, <2>0 DEF TypeOK
    <3>4. \A w \in Procs, v \in UIDs, k \in KafkaSubscriptions, h \in Groups : ~Subscribe(w, v, k, h)
      <4> SUFFICES ASSUME NEW w \in Procs, NEW v \in UIDs, NEW k \in KafkaSubscriptions,
                          NEW h \in Groups, Subscribe(w, v, k, h)
                   PROVE  FALSE
        OBVIOUS
      <4> DEFINE r == [FreeGroup EXCEPT !.state = "open", !.uid = v, !.rev = proc[w].conf[v], !.ks = k]
      <4>1. group' = [group EXCEPT ![h] = r]
        BY DEF Subscribe
      <4>2. r.state = "open"
        BY DEF FreeGroup
      <4> HIDE DEF r
      <4> QED BY <3>a, <4>1, <4>2
    <3>5. \A w \in Procs, err \in BOOLEAN : ~CloseReturns(w, err)
      <4>1. FreeGroup.state = "free"
        BY DEF FreeGroup
      <4> QED BY <3>a, <4>1 DEF CloseReturns
    <3>6. ~Environment
      BY <3>2 DEF Environment, CreateChannel, DeleteChannel, EditSubscriber, ChangeStatus, Edit,
                  Promote
    <3>7. \A r \in Requests : ~(RequestStep(r) \/ \E c \in Channels : ServeHTTP(r, c))
      BY <3>1, <3>2 DEF RequestStep, ServeHTTP, RLock, DeferRUnlock, RangeReady, RUnlock,
                        RUnlockOfUnlocked, EndpointOnly
    <3>8. ASSUME NEW p \in Procs, UpdateStep(p) PROVE \E u \in UIDs : Unsubscribe(p, u)
      BY <3>2, <3>5, <3>8 DEF UpdateStep, Return, Done
    <3>9. ASSUME NEW w \in Workers, WorkerStep(w) PROVE \E u \in UIDs : Unsubscribe(w, u)
      BY <3>2, <3>4, <3>8, <3>9 DEF WorkerStep, SubscribeStep, Dequeue, RegisterChannelHost,
                        ReconcileConsumers, StartUpdate, SubscribeFails, Procs
    <3>10. ASSUME InformerStep PROVE \E u \in UIDs : Unsubscribe(Informer, u)
      BY <3>1, <3>2, <3>8, <3>10 DEF InformerStep, HandleUpsert, HandleDelete,
                        HandleDeleteNoAddress, CleanupChannel, Procs
    <3> QED BY <1>1, <3>2, <3>3, <3>6, <3>7, <3>9, <3>10 DEF Next, vars, Procs
  <2>2. proc[p].pc = "update" /\ u \in proc[p].toRemove /\ consumerUpdateLock = p /\ ProcOK(p)
    BY <1>1, <2>1 DEF Unsubscribe, MayUnsubscribe, IInv, LockInv, ProcInv
  <2>3. group[g].uid = u
    BY <1>1, <2>0, <2>1 DEF Unsubscribe, IInv, MapInv, TypeOK, GroupRecord
  <2> QED BY <2>2, <2>3 DEF ProcOK
<1>2. IInv /\ [Next]_vars =>
        [\A g \in Groups : (group[g].state = "open" /\ group'[g].state = "closing") =>
            \/ consumerUpdateLock = Informer
            \/ proc[consumerUpdateLock].conf[group[g].uid] = 0]_vars
  BY <1>1
<1> QED BY <1>2, Invariance, PTL DEF Spec, SurvivorsKeepConsuming

================================================================================
