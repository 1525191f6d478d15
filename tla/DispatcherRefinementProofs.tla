----------------------- MODULE DispatcherRefinementProofs -----------------------
(***************************************************************************)
(* What the subscription endpoint serves is exact, and the dispatcher       *)
(* implements DispatcherSpec, for any number of channels, subscriptions,    *)
(* partitions, workers and requests, and for any set of faults.             *)
(*                                                                         *)
(* ReadyIsExact needs to know that a group without a session claims nothing *)
(* and that a free group is bound to nothing (SessionInv), and that no      *)
(* other group reports for the same uid (OneConsumerPerSubscription). The    *)
(* refinement rests on it: when the last subscription of a channel goes,    *)
(* the list that goes with it held nothing for anybody else.                *)
(***************************************************************************)
EXTENDS DispatcherRefinement, KafkaDispatcherProofs

SessionInv ==
    \A g \in Groups :
        /\ group[g].session = "none" => group[g].claims = NoClaims
        /\ group[g].state = "free" => group[g] = FreeGroup

RInv == IInv /\ SessionInv /\ ReadyIsExact

\* Some group that reports to object k consumes partition p for subscription u.
Consuming(k, u, p) ==
    \E g \in Groups : group[g].uid = u /\ group[g].ks = k /\ group[g].claims[p] = "consuming"

USE DispatcherAssumption DEF env, maps

--------------------------------------------------------------------------------
(* Readiness *)

\* What SetReady does to the set of one uid, and to no other.
LEMMA SetReadyMap ==
    ASSUME NEW m \in ReadyMaps, NEW u \in UIDs, NEW p \in Partitions, NEW ready \in BOOLEAN,
           NEW n, n = SetReady(m, u, p, ready)
    PROVE  /\ \A v : v # u => /\ v \in DOMAIN n <=> v \in DOMAIN m
                              /\ v \in DOMAIN n => n[v] = m[v]
           /\ u \in DOMAIN n => n[u] # {}
           /\ \A q : (u \in DOMAIN n /\ q \in n[u])
                        <=> IF q = p THEN ready ELSE u \in DOMAIN m /\ q \in m[u]
<1> DEFINE old == IF u \in DOMAIN m THEN m[u] ELSE {}
           new == IF ready THEN old \cup {p} ELSE old \ {p}
           keys == IF new = {} THEN DOMAIN m \ {u} ELSE DOMAIN m \cup {u}
<1>1. n = [v \in keys |-> IF v = u THEN new ELSE m[v]]
  BY DEF SetReady
<1>2. \A v : v # u => (v \in keys <=> v \in DOMAIN m)
  OBVIOUS
<1>3. u \in keys <=> new # {}
  OBVIOUS
<1>4. \A q : q \in new <=> IF q = p THEN ready ELSE u \in DOMAIN m /\ q \in m[u]
  OBVIOUS
<1> HIDE DEF new, keys
<1> QED BY <1>1, <1>2, <1>3, <1>4

\* A group that claims something, or is bound to a uid or an object, is in use.
LEMMA ClaimingGroup ==
    ASSUME RInv, NEW g \in Groups, NEW p \in Partitions, group[g].claims[p] # "none"
    PROVE  /\ group[g].state \in {"open", "closing"} /\ group[g].session # "none"
           /\ group[g].uid \in UIDs /\ group[g].ks \in KafkaSubscriptions
<1>1. group[g].session # "none"
  BY DEF RInv, SessionInv, NoClaims
<1>2. group[g].state # "free"
  BY <1>1 DEF RInv, SessionInv, FreeGroup
<1> QED BY <1>1, <1>2 DEF RInv, IInv, TypeOK, GroupInv, GroupRecord

\* A step that neither changes a list of ready partitions nor who consumes what.
LEMMA ReadyFrame ==
    ASSUME ReadyIsExact, \A k \in KafkaSubscriptions : ks'[k].ready = ks[k].ready,
           \A k \in KafkaSubscriptions, u \in UIDs, p \in Partitions :
              Consuming(k, u, p)' <=> Consuming(k, u, p)
    PROVE  ReadyIsExact'
<1>1. \A k \in KafkaSubscriptions : \A u \in DOMAIN ks[k].ready : ks[k].ready[u] # {}
  BY DEF ReadyIsExact
<1>2. \A k \in KafkaSubscriptions, u \in UIDs, p \in Partitions :
        (u \in DOMAIN ks[k].ready /\ p \in ks[k].ready[u]) <=> Consuming(k, u, p)
  BY DEF ReadyIsExact, Consuming
<1>3. \A k \in KafkaSubscriptions, u \in UIDs, p \in Partitions :
        (u \in DOMAIN ks'[k].ready /\ p \in ks'[k].ready[u]) <=> Consuming(k, u, p)'
  BY <1>2
<1> QED BY <1>1, <1>3 DEF ReadyIsExact, Consuming

\* A group that consumes nothing before and after a step does not matter.
LEMMA QuietGroup ==
    ASSUME NEW g \in Groups, \A h \in Groups \ {g} : group'[h] = group[h],
           \A p \in Partitions : /\ group[g].claims[p] # "consuming"
                                 /\ group'[g].claims[p] # "consuming"
    PROVE  \A k, u : \A p \in Partitions : Consuming(k, u, p)' <=> Consuming(k, u, p)
BY DEF Consuming

\* Nor does a step that leaves bindings and claims alone.
LEMMA SameClaims ==
    ASSUME \A h \in Groups : /\ group'[h].uid = group[h].uid /\ group'[h].ks = group[h].ks
                             /\ group'[h].claims = group[h].claims
    PROVE  \A k, u, p : Consuming(k, u, p)' <=> Consuming(k, u, p)
BY DEF Consuming

\* ConsumeClaim, an error of Handle and Cleanup report one partition of one group.
LEMMA SetReadyExact ==
    ASSUME RInv, NEW g \in Groups, NEW p \in Partitions, NEW ready \in BOOLEAN, NEW state,
           group[g].claims[p] # "none", ready <=> state = "consuming",
           GroupSetReady(g, p, ready), group' = [group EXCEPT ![g].claims[p] = state]
    PROVE  ReadyIsExact'
<1>1. PICK k \in KafkaSubscriptions, u \in UIDs : k = group[g].ks /\ u = group[g].uid
  BY ClaimingGroup
<1>2. TypeOK
  BY DEF RInv, IInv
<1>3. PICK n : n = SetReady(ks[k].ready, u, p, ready)
  OBVIOUS
<1>4. \A j \in KafkaSubscriptions : ks'[j].ready = IF j = k THEN n ELSE ks[j].ready
  BY <1>1, <1>2, <1>3 DEF GroupSetReady, TypeOK, KafkaSubscriptionRecord
<1>5. ks[k].ready \in ReadyMaps
  BY <1>2 DEF TypeOK, KafkaSubscriptionRecord
<1>6. \A h \in Groups : /\ group'[h].uid = group[h].uid /\ group'[h].ks = group[h].ks
                        /\ \A q \in Partitions : group'[h].claims[q] =
                              IF h = g /\ q = p THEN state ELSE group[h].claims[q]
  BY <1>2 DEF TypeOK, GroupRecord
<1>7. \A j, v : \A q \in Partitions :
        (j # k \/ v # u \/ q # p) => (Consuming(j, v, q)' <=> Consuming(j, v, q))
  BY <1>1, <1>6 DEF Consuming
<1>8. Consuming(k, u, p)' <=> ready
  <2>1. ready => Consuming(k, u, p)'
    BY <1>1, <1>6 DEF Consuming
  <2>2. ASSUME ~ready, NEW h \in Groups, group'[h].uid = u, group'[h].claims[p] = "consuming"
        PROVE  FALSE
    <3>1. h # g /\ group[h].claims[p] = "consuming" /\ group[h].uid = group[g].uid
      BY <1>1, <1>6, <2>2
    <3>2. group[h].state # "free" /\ group[g].state # "free"
      BY <3>1, ClaimingGroup
    <3> QED BY <3>1, <3>2, OneGroup DEF RInv
  <2> QED BY <2>1, <2>2 DEF Consuming
<1>9. \A j \in KafkaSubscriptions, v \in UIDs, q \in Partitions :
        (v \in DOMAIN ks[j].ready /\ q \in ks[j].ready[v]) <=> Consuming(j, v, q)
  BY DEF RInv, ReadyIsExact, Consuming
<1>10. \A j \in KafkaSubscriptions : \A v \in DOMAIN ks[j].ready : ks[j].ready[v] # {}
  BY DEF RInv, ReadyIsExact
<1>11. /\ \A v : v # u => /\ v \in DOMAIN n <=> v \in DOMAIN ks[k].ready
                          /\ v \in DOMAIN n => n[v] = ks[k].ready[v]
       /\ u \in DOMAIN n => n[u] # {}
       /\ \A q : (u \in DOMAIN n /\ q \in n[u])
                    <=> IF q = p THEN ready ELSE u \in DOMAIN ks[k].ready /\ q \in ks[k].ready[u]
  BY <1>3, <1>5, SetReadyMap
<1>12. \A j \in KafkaSubscriptions : \A v \in DOMAIN ks'[j].ready : ks'[j].ready[v] # {}
  BY <1>4, <1>10, <1>11
<1>13. ASSUME NEW j \in KafkaSubscriptions, NEW v \in UIDs, NEW q \in Partitions
       PROVE  (v \in DOMAIN ks'[j].ready /\ q \in ks'[j].ready[v]) <=> Consuming(j, v, q)'
  <2>1. CASE j = k /\ v = u /\ q = p
    BY <1>4, <1>8, <1>11, <2>1
  <2>2. CASE j # k \/ v # u \/ q # p
    <3>1. (v \in DOMAIN ks'[j].ready /\ q \in ks'[j].ready[v])
             <=> (v \in DOMAIN ks[j].ready /\ q \in ks[j].ready[v])
      BY <1>4, <1>11, <2>2
    <3> QED BY <1>7, <1>9, <2>2, <3>1
  <2> QED BY <2>1, <2>2
<1> QED BY <1>12, <1>13 DEF ReadyIsExact, Consuming

\* Every step of a consumer group keeps the lists exact.
LEMMA GroupReady ==
    ASSUME RInv, TypeOK', NEW g \in Groups, GroupStep(g)
    PROVE  SessionInv' /\ ReadyIsExact'
<1>0. TypeOK /\ SessionInv /\ ReadyIsExact /\ group[g] \in GroupRecord
  BY DEF RInv, IInv, TypeOK
<1>a. \A h \in Groups \ {g} : group'[h] = group[h]
  <2>1. \E r : group' = [group EXCEPT ![g] = r]
    BY DEF GroupStep, SessionCleanup, SessionStart, ConsumeClaim, HandleFails, SessionEnd,
           CleanupClaim, SessionOver
  <2> QED BY <1>0, <2>1 DEF TypeOK
<1>b. SUFFICES ASSUME TRUE
               PROVE  /\ group'[g].session = "none" => group'[g].claims = NoClaims
                      /\ group'[g].state = "free" => group'[g] = FreeGroup
                      /\ ReadyIsExact'
  BY <1>0, <1>a DEF SessionInv
<1>c. group'[g].state = group[g].state
  BY <1>0, GroupBinding
<1>1. ASSUME NEW claimed \in SUBSET Partitions, SessionStart(g, claimed)
      PROVE  group'[g].session = "active" /\ group'[g].state = "open" /\ ReadyIsExact'
  <2>1. /\ group'[g].session = "active" /\ group[g].session = "none" /\ group[g].state = "open"
        /\ \A p \in Partitions : group'[g].claims[p] \in {"claimed", "none"}
        /\ ks' = ks
    BY <1>0, <1>1 DEF SessionStart, TypeOK, GroupRecord
  <2>2. \A p \in Partitions : group[g].claims[p] = "none"
    BY <1>0, <2>1 DEF SessionInv, NoClaims
  <2>3. \A p \in Partitions : group[g].claims[p] # "consuming" /\ group'[g].claims[p] # "consuming"
    BY <2>1, <2>2
  <2> QED BY <1>0, <1>a, <1>c, <2>1, <2>3, QuietGroup, ReadyFrame
<1>2. ASSUME NEW p \in Partitions, ConsumeClaim(g, p) \/ HandleFails(g, p) \/ CleanupClaim(g, p)
      PROVE  group'[g].session # "none" /\ group'[g].state # "free" /\ ReadyIsExact'
  <2>1. \/ group' = [group EXCEPT ![g].claims[p] = "consuming"] /\ GroupSetReady(g, p, TRUE)
        \/ group' = [group EXCEPT ![g].claims[p] = "failed"] /\ GroupSetReady(g, p, FALSE)
        \/ group' = [group EXCEPT ![g].claims[p] = "none"] /\ GroupSetReady(g, p, FALSE)
    BY <1>2 DEF ConsumeClaim, HandleFails, CleanupClaim
  <2>2. group[g].claims[p] # "none"
    BY <1>2 DEF ConsumeClaim, HandleFails, CleanupClaim
  <2>3. group'[g].session = group[g].session
    <3>1. ASSUME NEW s, group' = [group EXCEPT ![g].claims[p] = s]
          PROVE  group'[g].session = group[g].session
      BY <1>0, <3>1 DEF TypeOK, GroupRecord
    <3> QED BY <2>1, <3>1
  <2>4. ReadyIsExact'
    <3>1. CASE group' = [group EXCEPT ![g].claims[p] = "consuming"] /\ GroupSetReady(g, p, TRUE)
      BY <2>2, <3>1, SetReadyExact, Zenon
    <3>2. CASE group' = [group EXCEPT ![g].claims[p] = "failed"] /\ GroupSetReady(g, p, FALSE)
      <4>1. FALSE <=> "failed" = "consuming"
        OBVIOUS
      <4> QED BY <2>2, <3>2, <4>1, SetReadyExact, Zenon
    <3>3. CASE group' = [group EXCEPT ![g].claims[p] = "none"] /\ GroupSetReady(g, p, FALSE)
      <4>1. FALSE <=> "none" = "consuming"
        OBVIOUS
      <4> QED BY <2>2, <3>3, <4>1, SetReadyExact, Zenon
    <3> QED BY <2>1, <3>1, <3>2, <3>3
  <2> QED BY <1>c, <2>2, <2>3, <2>4, ClaimingGroup
<1>3. ASSUME SessionEnd(g) \/ SessionOver(g)
      PROVE  /\ group'[g].session = "none" => group'[g].claims = NoClaims
             /\ group'[g].state # "free" /\ ReadyIsExact'
  <2>1. /\ group[g].session # "none" /\ ks' = ks
        /\ \E s : group' = [group EXCEPT ![g].session = s]
    BY <1>3 DEF SessionEnd, SessionOver
  <2>2. \A h \in Groups : /\ group'[h].uid = group[h].uid /\ group'[h].ks = group[h].ks
                          /\ group'[h].claims = group[h].claims
    BY <1>0, <2>1 DEF TypeOK, GroupRecord
  <2>3. group'[g].session = "none" => group[g].claims = NoClaims
    BY <1>0, <1>3 DEF SessionEnd, SessionOver, TypeOK, GroupRecord
  <2>4. group[g].state # "free"
    BY <1>0, <2>1 DEF SessionInv, FreeGroup
  <2> QED BY <1>0, <1>c, <2>1, <2>2, <2>3, <2>4, SameClaims, ReadyFrame
<1> QED BY <1>1, <1>2, <1>3 DEF GroupStep, SessionCleanup

--------------------------------------------------------------------------------
(* What the operations do to groups and lists, and that the lists stay exact *)

\* unsubscribe always finds a stored Subscription, its object and its open group.
LEMMA UnsubscribeEffect ==
    ASSUME IInv, NEW p \in Procs, NEW u \in UIDs, Unsubscribe(p, u)
    PROVE  /\ proc[p].pc = "update" /\ proc[p].closing = Nil
           /\ \E k \in KafkaSubscriptions, g \in Groups :
                /\ channelSubscriptions[ChannelOf[u]] = k /\ u \in ks[k].subs
                /\ subsConsumerGroups[u] = g /\ group[g].state = "open" /\ group[g].uid = u
                /\ group[g].ks = k
                /\ Forget(ChannelOf[u], k, u)
                /\ group' = [group EXCEPT ![g].state = "closing"]
<1>a. TypeOK /\ proc[p].ch \in Channels
  BY DEF IInv, TypeOK, ProcRecord
<1>0. PICK c \in Channels, k \in KafkaSubscriptions \cup {Nil}, g \in Groups \cup {Nil} :
         c = proc[p].ch /\ k = channelSubscriptions[c] /\ g = subsConsumerGroups[u]
  BY <1>a DEF TypeOK
<1>1. /\ proc[p].pc = "update" /\ proc[p].closing = Nil
      /\ u \in SubsOf(c) /\ ChannelOf[u] = c
  BY <1>a, <1>0 DEF IInv, ProcInv, ProcOK, MapInv, Unsubscribe, MayUnsubscribe
<1>2. k \in KafkaSubscriptions /\ subscriptions[u] # 0 /\ u \in ks[k].subs
  BY <1>a, <1>0, <1>1 DEF IInv, MapsAgree, SubsOf, TypeOK
<1>3. g \in Groups /\ group[g].state = "open" /\ group[g].uid = u
  BY <1>a, <1>0, <1>1, <1>2 DEF IInv, MapsAgree, MapInv, TypeOK
<1>4. group[g].ks = k
  BY <1>0, <1>1, <1>3 DEF IInv, OpenGroupsReachable
<1>5. Forget(c, k, u) /\ group' = [group EXCEPT ![g].state = "closing"]
  BY <1>0, <1>2, <1>3 DEF Unsubscribe
<1> QED BY <1>0, <1>1, <1>2, <1>3, <1>4, <1>5

\* unsubscribe takes no partition from any list: it is the session that does.
LEMMA UnsubscribeReady ==
    ASSUME RInv, NEW p \in Procs, NEW u \in UIDs, Unsubscribe(p, u)
    PROVE  /\ \A k \in KafkaSubscriptions : ks'[k].ready = ks[k].ready
           /\ SessionInv' /\ ReadyIsExact'
<1>0. IInv /\ TypeOK /\ SessionInv /\ ReadyIsExact
  BY DEF RInv, IInv
<1>1. PICK k \in KafkaSubscriptions, g \in Groups :
        /\ group[g].state = "open" /\ Forget(ChannelOf[u], k, u)
        /\ group' = [group EXCEPT ![g].state = "closing"]
  BY <1>0, UnsubscribeEffect
<1>2. \A j \in KafkaSubscriptions : ks'[j].ready = ks[j].ready
  BY <1>0, <1>1 DEF Forget, TypeOK, KafkaSubscriptionRecord
<1>3. \A h \in Groups : /\ group'[h].uid = group[h].uid /\ group'[h].ks = group[h].ks
                        /\ group'[h].claims = group[h].claims
                        /\ group'[h].session = group[h].session
  BY <1>0, <1>1 DEF TypeOK, GroupRecord
<1>4. \A h \in Groups : group'[h].state = "free" => group'[h] = group[h]
  BY <1>0, <1>1 DEF TypeOK, GroupRecord
<1>5. SessionInv'
  BY <1>0, <1>3, <1>4 DEF SessionInv
<1>6. ReadyIsExact'
  BY <1>0, <1>2, <1>3, SameClaims, ReadyFrame
<1> QED BY <1>2, <1>5, <1>6

\* Close() has returned: the group has no session and so no claim.
LEMMA CloseReady ==
    ASSUME RInv, NEW p \in Procs, NEW err \in BOOLEAN, CloseReturns(p, err)
    PROVE  SessionInv' /\ ReadyIsExact'
<1>0. TypeOK /\ SessionInv /\ ReadyIsExact /\ proc[p].closing \in Groups \cup {Nil}
  BY DEF RInv, IInv, TypeOK, ProcRecord
<1>1. PICK g \in Groups : g = proc[p].closing /\ group[g].session = "none"
  BY <1>0 DEF CloseReturns
<1>2. /\ \A h \in Groups \ {g} : group'[h] = group[h]
      /\ group'[g] = FreeGroup /\ ks' = ks
  BY <1>0, <1>1 DEF CloseReturns, TypeOK
<1>3. \A q \in Partitions : /\ group[g].claims[q] # "consuming"
                            /\ group'[g].claims[q] # "consuming"
  BY <1>0, <1>1, <1>2 DEF SessionInv, NoClaims, FreeGroup
<1>4. SessionInv'
  BY <1>0, <1>2 DEF SessionInv, FreeGroup
<1>5. ReadyIsExact'
  BY <1>0, <1>2, <1>3, QuietGroup, ReadyFrame
<1> QED BY <1>4, <1>5

\* A new KafkaSubscription lists nothing, and no group reports to it yet; an existing one
\* keeps its list.
LEMMA GetOrCreateReady ==
    ASSUME RInv, NEW c \in Channels, NEW k \in KafkaSubscriptions, GetOrCreate(c, k),
           \A j \in KafkaSubscriptions \ {k} : ks'[j].ready = ks[j].ready,
           ks'[k].ready = KafkaSubscriptionOf(c, k).ready,
           \A j, v : \A q \in Partitions : Consuming(j, v, q)' <=> Consuming(j, v, q)
    PROVE  ReadyIsExact'
<1>0. ReadyIsExact
  BY DEF RInv
<1>1. CASE channelSubscriptions[c] # Nil
  <2>1. \A j \in KafkaSubscriptions : ks'[j].ready = ks[j].ready
    BY <1>1 DEF KafkaSubscriptionOf
  <2> QED BY <1>0, <2>1, ReadyFrame
<1>2. CASE channelSubscriptions[c] = Nil
  <2>1. DOMAIN ks'[k].ready = {}
    BY <1>2 DEF KafkaSubscriptionOf, NewKafkaSubscription
  <2>2. \A v, q : ~Consuming(k, v, q)
    BY <1>2 DEF GetOrCreate, Unreferenced, Consuming
  <2>3. \A j \in KafkaSubscriptions : \A v \in DOMAIN ks'[j].ready : ks'[j].ready[v] # {}
    BY <1>0, <2>1 DEF ReadyIsExact
  <2>4. \A j \in KafkaSubscriptions, v \in UIDs, q \in Partitions :
          (v \in DOMAIN ks[j].ready /\ q \in ks[j].ready[v]) <=> Consuming(j, v, q)
    BY <1>0 DEF ReadyIsExact, Consuming
  <2>5. \A j \in KafkaSubscriptions, v \in UIDs, q \in Partitions :
          (v \in DOMAIN ks'[j].ready /\ q \in ks'[j].ready[v]) <=> Consuming(j, v, q)'
    BY <2>1, <2>2, <2>4
  <2> QED BY <2>3, <2>5 DEF ReadyIsExact, Consuming
<1> QED BY <1>1, <1>2

\* subscribe starts a group that was free, with no claims.
LEMMA SubscribeReady ==
    ASSUME RInv, NEW w \in Workers, NEW u \in UIDs, NEW k \in KafkaSubscriptions,
           NEW g \in Groups, Subscribe(w, u, k, g)
    PROVE  SessionInv' /\ ReadyIsExact'
<1> w \in Procs
  BY DEF Procs
<1>0. TypeOK /\ SessionInv /\ ReadyIsExact /\ proc[w].ch \in Channels
  BY DEF RInv, IInv, TypeOK, ProcRecord
<1>1. PICK c \in Channels : c = proc[w].ch
  BY <1>0
<1>2. /\ GetOrCreate(c, k) /\ group[g] = FreeGroup
      /\ ks' = [ks EXCEPT ![k] = [KafkaSubscriptionOf(c, k) EXCEPT !.subs = @ \cup {u}]]
      /\ group' = [group EXCEPT ![g] = [FreeGroup EXCEPT !.state = "open", !.uid = u,
                                               !.rev = proc[w].conf[u], !.ks = k]]
  BY <1>0, <1>1 DEF Subscribe, SessionInv
<1>3. /\ \A h \in Groups \ {g} : group'[h] = group[h]
      /\ group'[g].state = "open" /\ group'[g].claims = NoClaims
  BY <1>0, <1>2 DEF TypeOK, FreeGroup
<1>4. SessionInv'
  BY <1>0, <1>3 DEF SessionInv
<1>5. \A q \in Partitions : /\ group[g].claims[q] # "consuming"
                            /\ group'[g].claims[q] # "consuming"
  BY <1>2, <1>3 DEF NoClaims, FreeGroup
<1>6. KafkaSubscriptionOf(c, k) \in KafkaSubscriptionRecord
  BY <1>0, KafkaSubscriptionType
<1>7. /\ \A j \in KafkaSubscriptions \ {k} : ks'[j].ready = ks[j].ready
      /\ ks'[k].ready = KafkaSubscriptionOf(c, k).ready
  BY <1>0, <1>2, <1>6 DEF TypeOK, KafkaSubscriptionRecord
<1>8. ReadyIsExact'
  BY <1>2, <1>3, <1>5, <1>7, QuietGroup, GetOrCreateReady
<1> QED BY <1>4, <1>8

\* subscribe fails to start a group: the object may be new.
LEMMA SubscribeFailsReady ==
    ASSUME RInv, NEW w \in Workers, NEW u \in UIDs, NEW k \in KafkaSubscriptions,
           SubscribeFails(w, u, k)
    PROVE  SessionInv' /\ ReadyIsExact'
<1> w \in Procs
  BY DEF Procs
<1>0. TypeOK /\ SessionInv /\ ReadyIsExact /\ proc[w].ch \in Channels
  BY DEF RInv, IInv, TypeOK, ProcRecord
<1>1. PICK c \in Channels : c = proc[w].ch
  BY <1>0
<1>2. /\ GetOrCreate(c, k) /\ group' = group
      /\ ks' = [ks EXCEPT ![k] = KafkaSubscriptionOf(c, k)]
  BY <1>1 DEF SubscribeFails
<1>3. SessionInv'
  BY <1>0, <1>2 DEF SessionInv
<1>4. /\ \A j \in KafkaSubscriptions \ {k} : ks'[j].ready = ks[j].ready
      /\ ks'[k].ready = KafkaSubscriptionOf(c, k).ready
  BY <1>0, <1>2 DEF TypeOK
<1>5. \A j, v, q : Consuming(j, v, q)' <=> Consuming(j, v, q)
  BY <1>2, SameClaims
<1>6. ReadyIsExact'
  BY <1>2, <1>4, <1>5, GetOrCreateReady
<1> QED BY <1>3, <1>6

FreshHeap == /\ ks = [k \in KafkaSubscriptions |-> NewKafkaSubscription]
             /\ group = [g \in Groups |-> FreeGroup]

\* A process that has just started serves nothing.
LEMMA FreshReady == FreshHeap => SessionInv /\ ReadyIsExact
<1>1. FreshHeap => SessionInv
  BY DEF FreshHeap, SessionInv, FreeGroup
<1>2. FreshHeap => ReadyIsExact
  BY DEF FreshHeap, ReadyIsExact, NewKafkaSubscription, FreeGroup, NoClaims
<1> QED BY <1>1, <1>2

\* A step that changes neither the maps, nor a group, nor a list.
Quiet == /\ UNCHANGED <<channelSubscriptions, subscriptions, subsConsumerGroups, group>>
         /\ \A k \in KafkaSubscriptions : ks'[k].ready = ks[k].ready

\* The operations that matter to what is served; every other step is quiet.
LEMMA StepKinds ==
    ASSUME TypeOK, [Next]_vars
    PROVE  \/ Restart \/ Quiet
           \/ \E g \in Groups : GroupStep(g)
           \/ \E w \in Workers, u \in UIDs, k \in KafkaSubscriptions, g \in Groups :
                Subscribe(w, u, k, g)
           \/ \E w \in Workers, u \in UIDs, k \in KafkaSubscriptions : SubscribeFails(w, u, k)
           \/ \E p \in Procs, u \in UIDs : Unsubscribe(p, u)
           \/ \E p \in Procs, err \in BOOLEAN : CloseReturns(p, err)
<1>1. UNCHANGED <<maps, ks, group>> => Quiet
  BY DEF Quiet
<1>2. UNCHANGED vars => Quiet
  BY <1>1 DEF vars
<1>3. Environment => Quiet
  BY <1>1 DEF Environment, CreateChannel, DeleteChannel, EditSubscriber, ChangeStatus, Edit, Promote
<1>4. ASSUME NEW p \in Procs, UpdateStep(p)
      PROVE  \/ Quiet
             \/ \E u \in UIDs : Unsubscribe(p, u)
             \/ \E err \in BOOLEAN : CloseReturns(p, err)
  BY <1>1, <1>4 DEF UpdateStep, Return, Done
<1>5. ASSUME NEW w \in Workers, WorkerStep(w)
      PROVE  \/ Quiet \/ UpdateStep(w)
             \/ \E u \in UIDs, k \in KafkaSubscriptions, g \in Groups : Subscribe(w, u, k, g)
             \/ \E u \in UIDs, k \in KafkaSubscriptions : SubscribeFails(w, u, k)
  BY <1>1, <1>5 DEF WorkerStep, SubscribeStep, Dequeue, RegisterChannelHost, ReconcileConsumers,
                    StartUpdate
<1>6. ASSUME InformerStep PROVE Quiet \/ Restart \/ UpdateStep(Informer)
  BY <1>1, <1>6 DEF InformerStep, HandleUpsert, HandleDelete, HandleDeleteNoAddress,
                    CleanupChannel
<1>7. ASSUME NEW r \in Requests, RequestStep(r) \/ \E c \in Channels : ServeHTTP(r, c)
      PROVE  Quiet \/ Restart
  <2>1. CASE RUnlockOfUnlocked(r)
    BY <2>1 DEF RUnlockOfUnlocked
  <2>2. CASE ~RUnlockOfUnlocked(r)
    <3>1. UNCHANGED <<maps, group>>
      BY <1>7, <2>2 DEF RequestStep, ServeHTTP, RLock, DeferRUnlock, RangeReady, RUnlock,
                        EndpointOnly
    <3>2. ASSUME NEW j, NEW n, ks' = [ks EXCEPT ![j].readers = n]
          PROVE  \A k \in KafkaSubscriptions : ks'[k].ready = ks[k].ready
      BY <3>2 DEF TypeOK, KafkaSubscriptionRecord
    <3>3. RLock(r) => \/ ks' = ks
                      \/ ks' = [ks EXCEPT ![Looked(r)].readers = ks[Looked(r)].readers + 1]
      BY DEF RLock
    <3>4. RUnlock(r) => ks' = [ks EXCEPT ![req[r].deferred].readers =
                                            ks[req[r].deferred].readers - 1]
      BY DEF RUnlock
    <3>5. RLock(r) \/ RUnlock(r) \/ ks' = ks
      BY <1>7, <2>2 DEF RequestStep, ServeHTTP, DeferRUnlock, RangeReady
    <3>6. \A k \in KafkaSubscriptions : ks'[k].ready = ks[k].ready
      BY <3>2, <3>3, <3>4, <3>5
    <3> QED BY <3>1, <3>6 DEF Quiet
  <2> QED BY <2>1, <2>2
<1>8. Informer \in Procs /\ Workers \subseteq Procs
  BY DEF Procs
<1> QED BY <1>2, <1>3, <1>4, <1>5, <1>6, <1>7, <1>8 DEF Next

\* The invariant with readiness is inductive.
LEMMA ReadyInductive == RInv /\ [Next]_vars => RInv'
<1> SUFFICES ASSUME RInv, [Next]_vars PROVE RInv'
  OBVIOUS
<1>1. IInv' /\ TypeOK /\ TypeOK'
  <2>1. IInv /\ IInv'
    BY Inductive DEF RInv
  <2> QED BY <2>1 DEF IInv
<1>2. SUFFICES SessionInv' /\ ReadyIsExact'
  BY <1>1 DEF RInv
<1>3. CASE Restart
  <2>1. FreshHeap'
    BY <1>3 DEF Restart, FreshHeap
  <2> QED BY <2>1, FreshReady, PTL
<1>4. CASE Quiet
  <2>1. SessionInv'
    BY <1>4 DEF Quiet, RInv, SessionInv
  <2> QED BY <1>4, <2>1, SameClaims, ReadyFrame DEF Quiet, RInv
<1> QED BY <1>1, <1>3, <1>4, StepKinds, GroupReady, SubscribeReady, SubscribeFailsReady,
          UnsubscribeReady, CloseReady

\* The invariant with readiness holds in every state.
LEMMA ReadyInvariance == Spec => []RInv
<1>1. Init => RInv
  <2> SUFFICES ASSUME Init PROVE RInv
    OBVIOUS
  <2>1. Fresh /\ TypeOK
    BY InitType DEF Init, Fresh
  <2>2. SessionInv /\ ReadyIsExact
    BY FreshReady DEF Init, FreshHeap
  <2> QED BY <2>1, <2>2, FreshInv DEF RInv
<1> QED BY <1>1, ReadyInductive, PTL DEF Spec

\* What ServeHTTP answers is exact: a partition is listed for a subscription exactly while
\* the one consumer group of that subscription consumes it and has not failed on it, however
\* SetReady, rebalances, subscribe and unsubscribe interleave.
THEOREM EndpointIsExact == Spec => []ReadyIsExact
<1>1. RInv => ReadyIsExact
  BY DEF RInv
<1> QED BY <1>1, ReadyInvariance, PTL

--------------------------------------------------------------------------------
(* The refinement: steps of DispatcherSpec, uid by uid *)

\* A uid's consumer is started.
LEMMA AbsSubscribe ==
    ASSUME NEW u \in UIDs, NEW r \in 1..MaxRev, Phase(u) = "absent",
           \A v \in UIDs : Phase(v)' = IF v = u THEN "consuming" ELSE Phase(v),
           subscriptions' = [subscriptions EXCEPT ![u] = r],
           \A v \in UIDs : Served(v)' = Served(v)
    PROVE  Promise!Next
<1>1. Promise!Subscribe(u, r)
  BY DEF Promise!Subscribe
<1> QED BY <1>1 DEF Promise!Next

\* A uid's consumer is to be closed; its list may go at once.
LEMMA AbsUnsubscribe ==
    ASSUME NEW u \in UIDs, Phase(u) = "consuming",
           \A v \in UIDs : Phase(v)' = IF v = u THEN "closing" ELSE Phase(v),
           subscriptions' = [subscriptions EXCEPT ![u] = 0],
           \A v \in UIDs : v # u => Served(v)' = Served(v),
           Served(u)' \in {Served(u), {}}
    PROVE  Promise!Next
<1>1. Promise!Unsubscribe(u)
  BY DEF Promise!Unsubscribe
<1> QED BY <1>1 DEF Promise!Next

\* A uid's consumer is closed.
LEMMA AbsClose ==
    ASSUME NEW u \in UIDs, Phase(u) = "closing", Served(u) = {},
           \A v \in UIDs : Phase(v)' = IF v = u THEN "absent" ELSE Phase(v),
           subscriptions' = subscriptions, \A v \in UIDs : Served(v)' = Served(v)
    PROVE  Promise!Next
<1>1. Promise!Close(u)
  BY DEF Promise!Close
<1> QED BY <1>1 DEF Promise!Next

\* A partition is listed, or no longer listed, for a uid that has a consumer.
LEMMA AbsReady ==
    ASSUME NEW u \in UIDs, NEW p \in Partitions, Phase(u) # "absent",
           \A v \in UIDs : Phase(v)' = Phase(v), subscriptions' = subscriptions,
           \A v \in UIDs : v # u => Served(v)' = Served(v),
           Served(u)' \in {Served(u) \cup {p}, Served(u) \ {p}}
    PROVE  Promise!Next
<1>1. Promise!Claim(u, p) \/ Promise!Release(u, p)
  BY DEF Promise!Claim, Promise!Release
<1> QED BY <1>1 DEF Promise!Next

\* Nothing that DispatcherSpec sees has changed.
LEMMA AbsStutter ==
    ASSUME \A v \in UIDs : Phase(v)' = Phase(v) /\ Served(v)' = Served(v),
           subscriptions' = subscriptions
    PROVE  UNCHANGED Promise!vars
BY DEF Promise!vars

--------------------------------------------------------------------------------
(* The refinement: what each step of the dispatcher amounts to *)

\* While a process has no group to wait for under the lock, no group is closing.
LEMMA NoClosing ==
    ASSUME IInv, NEW p \in Procs, proc[p].pc = "update", proc[p].closing = Nil
    PROVE  \A g \in Groups : group[g].state # "closing"
BY Others DEF IInv, GroupInv

\* A list belongs to a uid whose group is in use and bound to the object.
LEMMA ListedGroup ==
    ASSUME RInv, NEW u \in UIDs, Served(u) # {}
    PROVE  \E g \in Groups, p \in Partitions :
              /\ group[g].uid = u /\ group[g].claims[p] = "consuming"
              /\ group[g].state \in {"open", "closing"}
<1>0. TypeOK
  BY DEF RInv, IInv
<1>1. PICK k \in KafkaSubscriptions : /\ k = channelSubscriptions[ChannelOf[u]]
                                      /\ u \in DOMAIN ks[k].ready /\ Served(u) = ks[k].ready[u]
  BY <1>0 DEF Served, TypeOK
<1>2. ks[k].ready \in ReadyMaps
  BY <1>0 DEF TypeOK, KafkaSubscriptionRecord
<1>3. ks[k].ready[u] \subseteq Partitions
  BY <1>1, <1>2 DEF ReadyMaps
<1>4. PICK p \in Partitions : p \in ks[k].ready[u]
  BY <1>1, <1>3
<1>5. PICK g \in Groups : group[g].uid = u /\ group[g].claims[p] = "consuming"
  BY <1>1, <1>4 DEF RInv, ReadyIsExact
<1>6. group[g].state \in {"open", "closing"}
  BY <1>5, ClaimingGroup
<1> QED BY <1>5, <1>6

\* The endpoint serves the same lists after the channel's object was created or found.
LEMMA GetOrCreateServed ==
    ASSUME IInv, NEW c \in Channels, NEW k \in KafkaSubscriptions, GetOrCreate(c, k),
           channelSubscriptions' = [channelSubscriptions EXCEPT ![c] = k],
           \A j \in KafkaSubscriptions \ {k} : ks'[j].ready = ks[j].ready,
           ks'[k].ready = KafkaSubscriptionOf(c, k).ready
    PROVE  \A v \in UIDs : Served(v)' = Served(v)
<1> SUFFICES ASSUME NEW v \in UIDs PROVE Served(v)' = Served(v)
  OBVIOUS
<1>0. TypeOK /\ channelSubscriptions \in [Channels -> KafkaSubscriptions \cup {Nil}]
  BY DEF IInv, TypeOK
<1>1. CASE ChannelOf[v] # c
  <2>1. channelSubscriptions'[ChannelOf[v]] = channelSubscriptions[ChannelOf[v]]
    BY <1>0, <1>1
  <2>2. channelSubscriptions[ChannelOf[v]] # k
    BY <1>1 DEF GetOrCreate, Unreferenced, IInv, MapInv
  <2> QED BY <1>0, <2>1, <2>2 DEF Served
<1>2. CASE ChannelOf[v] = c /\ channelSubscriptions[c] # Nil
  <2>1. channelSubscriptions[c] = k /\ channelSubscriptions'[c] = k /\ ks'[k].ready = ks[k].ready
    BY <1>0, <1>2 DEF GetOrCreate, KafkaSubscriptionOf
  <2> QED BY <1>2, <2>1 DEF Served
<1>3. CASE ChannelOf[v] = c /\ channelSubscriptions[c] = Nil
  <2>1. channelSubscriptions'[c] = k /\ DOMAIN ks'[k].ready = {}
    BY <1>0, <1>3 DEF KafkaSubscriptionOf, NewKafkaSubscription
  <2> QED BY <1>3, <2>1 DEF Served
<1> QED BY <1>1, <1>2, <1>3

\* subscribe starts the consumer of a uid that has none, not even one that is closing.
LEMMA SubscribeRefines ==
    ASSUME RInv, NEW w \in Workers, NEW u \in UIDs, NEW k \in KafkaSubscriptions,
           NEW g \in Groups, Subscribe(w, u, k, g)
    PROVE  Promise!Next
<1> w \in Procs
  BY DEF Procs
<1>0. /\ IInv /\ TypeOK /\ proc[w].ch \in Channels /\ ProcOK(w) /\ proc[w].conf[u] \in 0..MaxRev
      /\ subsConsumerGroups \in [UIDs -> Groups \cup {Nil}]
  BY DEF RInv, IInv, TypeOK, ProcRecord, ProcInv
<1>1. PICK c \in Channels, r \in 0..MaxRev : c = proc[w].ch /\ r = proc[w].conf[u]
  BY <1>0
<1>2. /\ proc[w].pc = "update" /\ u \in proc[w].toAdd /\ GetOrCreate(c, k)
      /\ group[g].state = "free"
      /\ channelSubscriptions' = [channelSubscriptions EXCEPT ![c] = k]
      /\ ks' = [ks EXCEPT ![k] = [KafkaSubscriptionOf(c, k) EXCEPT !.subs = @ \cup {u}]]
      /\ group' = [group EXCEPT ![g] = [FreeGroup EXCEPT !.state = "open", !.uid = u,
                                               !.rev = r, !.ks = k]]
      /\ subscriptions' = [subscriptions EXCEPT ![u] = r]
      /\ subsConsumerGroups' = [subsConsumerGroups EXCEPT ![u] = g]
  BY <1>1 DEF Subscribe
<1>3. ChannelOf[u] = c /\ r \in 1..MaxRev /\ u \notin SubsOf(c) /\ proc[w].closing = Nil
  BY <1>0, <1>1, <1>2 DEF ProcOK
<1>4. subsConsumerGroups[u] = Nil
  BY <1>0, <1>3 DEF IInv, MapsAgree
<1>5. \A h \in Groups : group[h].state # "closing"
  BY <1>0, <1>2, <1>3, NoClosing
<1>6. \A h \in Groups : group'[h].state # "closing"
  BY <1>0, <1>2, <1>5 DEF TypeOK, FreeGroup
<1>7. Phase(u) = "absent" /\ \A v \in UIDs : Phase(v)' = IF v = u THEN "consuming" ELSE Phase(v)
  BY <1>0, <1>2, <1>4, <1>5, <1>6 DEF Phase
<1>8. KafkaSubscriptionOf(c, k) \in KafkaSubscriptionRecord
  BY <1>0, KafkaSubscriptionType
<1>9. /\ \A j \in KafkaSubscriptions \ {k} : ks'[j].ready = ks[j].ready
      /\ ks'[k].ready = KafkaSubscriptionOf(c, k).ready
  BY <1>0, <1>2, <1>8 DEF TypeOK, KafkaSubscriptionRecord
<1>10. \A v \in UIDs : Served(v)' = Served(v)
  BY <1>0, <1>2, <1>9, GetOrCreateServed
<1> QED BY <1>2, <1>3, <1>7, <1>10, AbsSubscribe

\* A failed subscribe is no step of the specification.
LEMMA SubscribeFailsRefines ==
    ASSUME RInv, NEW w \in Workers, NEW u \in UIDs, NEW k \in KafkaSubscriptions,
           SubscribeFails(w, u, k)
    PROVE  UNCHANGED Promise!vars
<1> w \in Procs
  BY DEF Procs
<1>0. IInv /\ TypeOK /\ proc[w].ch \in Channels
  BY DEF RInv, IInv, TypeOK, ProcRecord
<1>1. PICK c \in Channels : c = proc[w].ch
  BY <1>0
<1>2. /\ GetOrCreate(c, k) /\ UNCHANGED <<group, subscriptions, subsConsumerGroups>>
      /\ channelSubscriptions' = [channelSubscriptions EXCEPT ![c] = k]
      /\ ks' = [ks EXCEPT ![k] = KafkaSubscriptionOf(c, k)]
  BY <1>1 DEF SubscribeFails
<1>3. /\ \A j \in KafkaSubscriptions \ {k} : ks'[j].ready = ks[j].ready
      /\ ks'[k].ready = KafkaSubscriptionOf(c, k).ready
  BY <1>0, <1>2 DEF TypeOK
<1>4. \A v \in UIDs : Served(v)' = Served(v)
  BY <1>0, <1>2, <1>3, GetOrCreateServed
<1>5. \A v \in UIDs : Phase(v)' = Phase(v)
  BY <1>2 DEF Phase
<1> QED BY <1>2, <1>4, <1>5, AbsStutter

\* unsubscribe: when the object goes with its last uid, its list held nothing for others.
LEMMA UnsubscribeRefines ==
    ASSUME RInv, NEW p \in Procs, NEW u \in UIDs, Unsubscribe(p, u)
    PROVE  Promise!Next
<1>0. /\ IInv /\ TypeOK
      /\ channelSubscriptions \in [Channels -> KafkaSubscriptions \cup {Nil}]
      /\ subsConsumerGroups \in [UIDs -> Groups \cup {Nil}]
  BY DEF RInv, IInv, TypeOK
<1>1. proc[p].pc = "update" /\ proc[p].closing = Nil
  BY <1>0, UnsubscribeEffect
<1>2. PICK k \in KafkaSubscriptions, g \in Groups :
        /\ channelSubscriptions[ChannelOf[u]] = k /\ u \in ks[k].subs
        /\ subsConsumerGroups[u] = g /\ group[g].state = "open" /\ group[g].uid = u
        /\ group[g].ks = k
        /\ Forget(ChannelOf[u], k, u)
        /\ group' = [group EXCEPT ![g].state = "closing"]
  BY <1>0, UnsubscribeEffect
<1>3. \A h \in Groups : group[h].state # "closing"
  BY <1>0, <1>1, NoClosing
<1>4. \A h \in Groups : /\ group'[h].uid = group[h].uid
                        /\ group'[h].state = "closing" <=> h = g
  BY <1>0, <1>2, <1>3 DEF TypeOK, GroupRecord
<1>5. /\ subscriptions' = [subscriptions EXCEPT ![u] = 0]
      /\ subsConsumerGroups' = [subsConsumerGroups EXCEPT ![u] = Nil]
      /\ channelSubscriptions' = [channelSubscriptions EXCEPT
             ![ChannelOf[u]] = IF ks[k].subs \ {u} = {} THEN Nil ELSE @]
  BY <1>2 DEF Forget
<1>6. Phase(u) = "consuming" /\ \A v \in UIDs : Phase(v)' = IF v = u THEN "closing" ELSE Phase(v)
  BY <1>0, <1>2, <1>3, <1>4, <1>5 DEF Phase
<1>7. \A j \in KafkaSubscriptions : ks'[j].ready = ks[j].ready
  BY UnsubscribeReady
<1>8. \A v \in UIDs : Served(v)' \in {Served(v), {}}
  BY <1>0, <1>5, <1>7 DEF Served
<1>9. ASSUME NEW v \in UIDs, v # u PROVE Served(v)' = Served(v)
  <2>1. CASE ChannelOf[v] # ChannelOf[u] \/ ks[k].subs \ {u} # {}
    <3>1. channelSubscriptions'[ChannelOf[v]] = channelSubscriptions[ChannelOf[v]]
      BY <1>0, <1>5, <2>1
    <3> QED BY <1>0, <1>7, <3>1 DEF Served
  <2>2. CASE ChannelOf[v] = ChannelOf[u] /\ ks[k].subs \ {u} = {}
    <3>1. v \notin SubsOf(ChannelOf[v])
      BY <1>2, <1>9, <2>2 DEF SubsOf
    <3>2. subsConsumerGroups[v] = Nil
      BY <1>0, <3>1 DEF IInv, MapsAgree
    <3>3. \A h \in Groups : ~(group[h].uid = v /\ group[h].state \in {"open", "closing"})
      BY <1>0, <1>3, <3>2 DEF IInv, OpenGroupsReachable
    <3>4. Served(v) = {}
      BY <3>3, ListedGroup
    <3> QED BY <1>8, <3>4
  <2> QED BY <2>1, <2>2
<1> QED BY <1>5, <1>6, <1>8, <1>9, AbsUnsubscribe

\* Close() has returned: nothing is listed for the uid any more.
LEMMA CloseRefines ==
    ASSUME RInv, NEW p \in Procs, NEW err \in BOOLEAN, CloseReturns(p, err)
    PROVE  Promise!Next
<1>0. /\ IInv /\ TypeOK /\ SessionInv /\ ProcOK(p) /\ proc[p].closing \in Groups \cup {Nil}
  BY DEF RInv, IInv, TypeOK, ProcRecord, ProcInv
<1>1. PICK g \in Groups : /\ g = proc[p].closing /\ group[g].session = "none"
                          /\ group[g].state = "closing"
  BY <1>0 DEF CloseReturns, ProcOK
<1>2. /\ \A h \in Groups \ {g} : group'[h] = group[h]
      /\ group'[g] = FreeGroup /\ UNCHANGED <<maps, ks>>
  BY <1>0, <1>1 DEF CloseReturns, TypeOK
<1>3. PICK u \in UIDs : u = group[g].uid
  BY <1>0, <1>1 DEF IInv, GroupInv, TypeOK, GroupRecord
<1>4. subsConsumerGroups[u] = Nil
  BY <1>0, <1>1, <1>3 DEF IInv, GroupInv
<1>5. \A h \in Groups : group[h].state # "free" /\ group[h].uid = u => h = g
  BY <1>0, <1>1, <1>3, OneGroup
<1>6. \A h \in Groups : (group'[h].state = "closing" <=> group[h].state = "closing" /\ h # g)
                        /\ (h # g => group'[h].uid = group[h].uid)
  BY <1>2 DEF FreeGroup
<1>7. Phase(u) = "closing" /\ Phase(u)' = "absent"
  BY <1>1, <1>2, <1>3, <1>4, <1>5, <1>6 DEF Phase
<1>8. \A v \in UIDs : v # u => Phase(v)' = Phase(v)
  BY <1>2, <1>3, <1>6 DEF Phase
<1>9. \A v \in UIDs : Served(v)' = Served(v)
  BY <1>2 DEF Served
<1>10. Served(u) = {}
  <2> SUFFICES ASSUME Served(u) # {} PROVE FALSE
    OBVIOUS
  <2>1. PICK h \in Groups, q \in Partitions :
          /\ group[h].uid = u /\ group[h].claims[q] = "consuming"
          /\ group[h].state \in {"open", "closing"}
    BY ListedGroup
  <2>2. h = g
    BY <1>5, <2>1
  <2> QED BY <1>0, <1>1, <2>1, <2>2 DEF SessionInv, NoClaims
<1> QED BY <1>2, <1>7, <1>8, <1>9, <1>10, AbsClose

\* SetReady changes what is served for the group's uid only, and only when the object that
\* the group reports to is still the one that the endpoint serves.
LEMMA SetReadyRefines ==
    ASSUME RInv, NEW g \in Groups, NEW p \in Partitions, NEW ready \in BOOLEAN,
           group[g].claims[p] # "none", GroupSetReady(g, p, ready), GroupOnly,
           \A h \in Groups : group'[h].state = group[h].state /\ group'[h].uid = group[h].uid
    PROVE  Promise!Next \/ UNCHANGED Promise!vars
<1>1. PICK k \in KafkaSubscriptions, u \in UIDs : k = group[g].ks /\ u = group[g].uid
  BY ClaimingGroup
<1>2. IInv /\ TypeOK /\ UNCHANGED maps /\ group[g].state \in {"open", "closing"}
  BY ClaimingGroup DEF RInv, IInv, GroupOnly
<1>3. PICK n : n = SetReady(ks[k].ready, u, p, ready)
  OBVIOUS
<1>4. \A j \in KafkaSubscriptions : ks'[j].ready = IF j = k THEN n ELSE ks[j].ready
  BY <1>1, <1>2, <1>3 DEF GroupSetReady, TypeOK, KafkaSubscriptionRecord
<1>5. ks[k].ready \in ReadyMaps
  BY <1>2 DEF TypeOK, KafkaSubscriptionRecord
<1>6. /\ \A v : v # u => /\ v \in DOMAIN n <=> v \in DOMAIN ks[k].ready
                         /\ v \in DOMAIN n => n[v] = ks[k].ready[v]
      /\ \A q : (u \in DOMAIN n /\ q \in n[u])
                   <=> IF q = p THEN ready ELSE u \in DOMAIN ks[k].ready /\ q \in ks[k].ready[u]
  BY <1>3, <1>5, SetReadyMap
<1>7. \A v \in UIDs : channelSubscriptions[ChannelOf[v]] \in KafkaSubscriptions \cup {Nil}
  BY <1>2 DEF TypeOK
<1>8. \A v \in UIDs : Phase(v)' = Phase(v)
  BY <1>2 DEF Phase
<1>9. Phase(u) # "absent"
  BY <1>1, <1>2 DEF Phase, IInv, OpenGroupsReachable
<1>10. \A v \in UIDs : v # u => Served(v)' = Served(v)
  BY <1>2, <1>4, <1>6, <1>7 DEF Served
<1>11. CASE channelSubscriptions[ChannelOf[u]] # k
  <2>1. Served(u)' = Served(u)
    BY <1>2, <1>4, <1>7, <1>11 DEF Served
  <2> QED BY <1>2, <1>8, <1>10, <2>1, AbsStutter
<1>12. CASE channelSubscriptions[ChannelOf[u]] = k
  <2>1. \A q : q \in Served(u) <=> u \in DOMAIN ks[k].ready /\ q \in ks[k].ready[u]
    BY <1>12 DEF Served
  <2>2. \A q : q \in Served(u)' <=> u \in DOMAIN n /\ q \in n[u]
    BY <1>2, <1>4, <1>12 DEF Served
  <2>3. \A q : q \in Served(u)' <=> IF q = p THEN ready ELSE q \in Served(u)
    BY <1>6, <2>1, <2>2
  <2>4. Served(u)' \in {Served(u) \cup {p}, Served(u) \ {p}}
    <3>1. CASE ready
      <4>1. \A q : q \in Served(u)' <=> q \in Served(u) \cup {p}
        BY <2>3, <3>1
      <4>2. Served(u)' = Served(u) \cup {p}
        BY <4>1
      <4> QED BY <4>2
    <3>2. CASE ~ready
      <4>1. \A q : q \in Served(u)' <=> q \in Served(u) \ {p}
        BY <2>3, <3>2
      <4>2. Served(u)' = Served(u) \ {p}
        BY <4>1
      <4> QED BY <4>2
    <3> QED BY <3>1, <3>2
  <2> QED BY <1>2, <1>8, <1>9, <1>10, <2>4, AbsReady
<1> QED BY <1>11, <1>12

\* Sessions list and unlist partitions, and do nothing else.
LEMMA GroupRefines ==
    ASSUME RInv, NEW g \in Groups, GroupStep(g)
    PROVE  Promise!Next \/ UNCHANGED Promise!vars
<1>1. TypeOK
  BY DEF RInv, IInv
<1>2. \A h \in Groups : group'[h].state = group[h].state /\ group'[h].uid = group[h].uid
  BY <1>1, GroupBinding
<1>3. GroupOnly
  BY DEF GroupStep, SessionCleanup, SessionStart, ConsumeClaim, HandleFails, SessionEnd,
         CleanupClaim, SessionOver
<1>4. CASE ks' = ks
  <2>1. \A v \in UIDs : Phase(v)' = Phase(v) /\ Served(v)' = Served(v)
    BY <1>2, <1>3, <1>4 DEF Phase, Served, GroupOnly
  <2> QED BY <1>3, <2>1, AbsStutter DEF GroupOnly
<1>5. CASE ks' # ks
  <2>1. PICK p \in Partitions : ConsumeClaim(g, p) \/ HandleFails(g, p) \/ CleanupClaim(g, p)
    BY <1>5 DEF GroupStep, SessionCleanup, SessionStart, SessionEnd, SessionOver
  <2>2. group[g].claims[p] # "none" /\ \E ready \in BOOLEAN : GroupSetReady(g, p, ready)
    BY <2>1 DEF ConsumeClaim, HandleFails, CleanupClaim
  <2> QED BY <1>2, <1>3, <2>2, SetReadyRefines
<1> QED BY <1>4, <1>5

\* A process that has just started has no consumers and serves nothing.
LEMMA FreshPromise ==
    ASSUME Fresh
    PROVE  /\ subscriptions = [u \in UIDs |-> 0]
           /\ \A u \in UIDs : Phase(u) = "absent" /\ Served(u) = {}
BY DEF Fresh, NoSubscribers, Phase, Served, FreeGroup

\* Restarting is the specification's Restart.
LEMMA RestartRefines == ASSUME Restart PROVE Promise!Next
<1>1. subscriptions' = [u \in UIDs |-> 0]
  BY DEF Restart, NoSubscribers
<1>2. \A u \in UIDs : Phase(u)' = "absent" /\ Served(u)' = {}
  BY DEF Restart, Phase, Served, FreeGroup
<1>3. Promise!Restart
  BY <1>1, <1>2 DEF Promise!Restart
<1> QED BY <1>3 DEF Promise!Next

\* The dispatcher implements DispatcherSpec: whatever its workers, its informer, its consumer
\* groups and its endpoint interleave and whatever fails, a consumer keeps the spec that it
\* was started with until it is closed, and the endpoint lists partitions of a live consumer
\* only.
THEOREM Refinement == Spec => KeepsPromise
<1>1. Init => Promise!Init
  <2> SUFFICES ASSUME Init PROVE Promise!Init
    OBVIOUS
  <2>1. Fresh
    BY DEF Init, Fresh
  <2> QED BY <2>1, FreshPromise DEF Promise!Init
<1>2. RInv /\ [Next]_vars => [Promise!Next]_(Promise!vars)
  <2> SUFFICES ASSUME RInv, [Next]_vars PROVE Promise!Next \/ UNCHANGED Promise!vars
    OBVIOUS
  <2>1. TypeOK
    BY DEF RInv, IInv
  <2>2. CASE Quiet
    <3>1. \A v \in UIDs : channelSubscriptions[ChannelOf[v]] \in KafkaSubscriptions \cup {Nil}
      BY <2>1 DEF TypeOK
    <3>2. \A v \in UIDs : Phase(v)' = Phase(v) /\ Served(v)' = Served(v)
      BY <2>2, <3>1 DEF Quiet, Phase, Served
    <3> QED BY <2>2, <3>2, AbsStutter DEF Quiet
  <2> QED BY <2>1, <2>2, StepKinds, RestartRefines, GroupRefines, SubscribeRefines,
             SubscribeFailsRefines, UnsubscribeRefines, CloseRefines
<1> QED BY <1>1, <1>2, ReadyInvariance, PTL DEF Spec, KeepsPromise, Promise!Spec
================================================================================
