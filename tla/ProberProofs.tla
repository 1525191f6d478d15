------------------------------ MODULE ProberProofs ------------------------------
(***************************************************************************)
(* Proofs about Prober for any number of subscriptions, pods, partitions,   *)
(* goroutines, generations and changes.                                     *)
(***************************************************************************)
EXTENDS Prober, FiniteSetTheorems, TLAPS

\* A work item is with a probe worker, or its goroutine waits for its cancellation.
Active(i) == i.at # "none" \/ i.waiting

\* An item: success counts it down once at most, and a worker has it only while its goroutine
\* waits or its context is done.
Sane(i) == i \in ItemRecord /\ (i.at # "none" => i.count >= 0 /\ (i.waiting \/ i.done))

\* A state: it is ready only with enough partitions found.
Grounded(s) ==
    s \in StateRecord /\ (s.ready => Cardinality(s.readyPartitions) >= s.num)

StateInv == \A t \in States :
    /\ Grounded(state[t])
    /\ \A d \in Pods : Sane(item[t][d]) /\ (Active(item[t][d]) => state[t].uid # Nil)

\* What the map and the goroutines refer to belongs to their subscription.
MapInv == \A u \in UIDs : targetStates[u] # Nil => state[targetStates[u]].uid = u
ProcOK(p) ==
    /\ proc[p].pc \in {"lookup", "eject", "probe", "store"} => proc[p].uid # Nil
    /\ proc[p].pc = "store" => proc[p].new # Nil
    /\ proc[p].new # Nil => proc[p].pc = "store" /\ state[proc[p].new].uid = proc[p].uid
RefInv == MapInv /\ \A p \in Procs : ProcOK(p)

IInv == TypeOK /\ StateInv /\ RefInv

USE ProberAssumption

--------------------------------------------------------------------------------
(* States and items *)

\* A set of partitions that grows has no fewer members.
LEMMA PartitionsGrow ==
    ASSUME NEW S \in SUBSET Partitions, NEW T \in SUBSET Partitions, S \subseteq T
    PROVE  Cardinality(S) \in Nat /\ Cardinality(T) \in Nat /\ Cardinality(S) <= Cardinality(T)
  <1>1. IsFiniteSet(T) BY FS_Subset
  <1> QED BY <1>1, FS_Subset, FS_CardinalityType

\* What a step may make of an item that it has not created: it does not come back to a worker,
\* its goroutine does not come back, and a context that is done stays done.
Follows(j, i) ==
    /\ Sane(j)
    /\ j.at # "none" => i.at # "none" /\ (i.done => j.done)
    /\ Active(j) => Active(i)

\* ... and of a state.
Advances(n, s) == Grounded(n) /\ n.uid = s.uid /\ n.gen = s.gen /\ n.num = s.num

Evolves ==
    /\ state' \in [States -> StateRecord] /\ item' \in [States -> [Pods -> ItemRecord]]
    /\ \A t \in States : /\ Advances(state'[t], state[t])
                         /\ \A d \in Pods : Follows(item'[t][d], item[t][d])

\* An item that has ended and one that is new are sane.
LEMMA NewItems == Sane(NoItem) /\ Sane(NewItem)
BY DEF Sane, NoItem, NewItem, ItemRecord

\* Left puts a finished item aside, and leaves others alone.
LEMMA LeftFollows ==
    ASSUME NEW i, Sane(i)
    PROVE  /\ Follows(Left(i), i) /\ Left(i).at = i.at
           /\ Left(i).at # "none" => Left(i) = i
BY NewItems DEF Left, Follows, Active, NoItem, Sane

\* Follows is transitive.
LEMMA FollowsOn ==
    ASSUME NEW i, NEW j, NEW k, Follows(k, j), Follows(j, i)
    PROVE  Follows(k, i)
BY DEF Follows

\* The end of an item's context.
LEMMA DoneFollows ==
    ASSUME NEW i, Sane(i)
    PROVE  LET j == [i EXCEPT !.done = @ \/ i.waiting] IN
           /\ Follows(j, i) /\ j.at = i.at /\ j.count = i.count /\ j.waiting = i.waiting
           /\ j.at # "none" => j.done
  <1>0. i \in ItemRecord BY DEF Sane
  <1>1. PICK j : j = [i EXCEPT !.done = @ \/ i.waiting] OBVIOUS
  <1>2. /\ j \in ItemRecord /\ j.at = i.at /\ j.count = i.count /\ j.waiting = i.waiting
        /\ j.done <=> (i.done \/ i.waiting)
      BY <1>0, <1>1 DEF ItemRecord
  <1>3. Follows(j, i) BY <1>2 DEF Follows, Sane, Active
  <1> QED BY <1>1, <1>2, <1>3 DEF Sane

\* state.cancel(): every item that a worker has is done.
LEMMA CancelFollows ==
    ASSUME NEW items \in [Pods -> ItemRecord], \A d \in Pods : Sane(items[d])
    PROVE  /\ CancelItems(items) \in [Pods -> ItemRecord]
           /\ \A d \in Pods : /\ Follows(CancelItems(items)[d], items[d])
                              /\ CancelItems(items)[d].at = items[d].at
                              /\ CancelItems(items)[d].at # "none" => CancelItems(items)[d].done
  <1>1. ASSUME NEW d \in Pods
        PROVE  /\ Follows(CancelItems(items)[d], items[d])
               /\ CancelItems(items)[d].at = items[d].at
               /\ CancelItems(items)[d].at # "none" => CancelItems(items)[d].done
    <2>1. CancelItems(items)[d] = [items[d] EXCEPT !.done = @ \/ items[d].waiting]
        BY DEF CancelItems
    <2> QED BY <2>1, DoneFollows
  <1>2. \A d \in Pods : CancelItems(items)[d] \in ItemRecord BY <1>1 DEF Follows, Sane
  <1> QED BY <1>1, <1>2 DEF CancelItems

--------------------------------------------------------------------------------
(* Steps of probe workers and of waiting goroutines *)

\* What the invariant says of one state and one item.
LEMMA OneItem ==
    ASSUME IInv, NEW t \in States, NEW d \in Pods
    PROVE  /\ state[t] \in StateRecord /\ Grounded(state[t]) /\ Advances(state[t], state[t])
           /\ item[t] \in [Pods -> ItemRecord]
           /\ item[t][d] \in ItemRecord /\ Sane(item[t][d]) /\ Follows(item[t][d], item[t][d])
           /\ Active(item[t][d]) => state[t].uid \in UIDs
BY DEF IInv, TypeOK, StateInv, Advances, Follows, Grounded, Sane, StateRecord

\* A step that replaces the items of one state, and that state.
LEMMA EvolvesOne ==
    ASSUME IInv, NEW t \in States, NEW items \in [Pods -> ItemRecord], NEW s,
           \A d \in Pods : Follows(items[d], item[t][d]), Advances(s, state[t]),
           item' = [item EXCEPT ![t] = items], state' = [state EXCEPT ![t] = s]
    PROVE  Evolves
  <1>1. item' \in [States -> [Pods -> ItemRecord]] BY DEF IInv, TypeOK
  <1>2. state' \in [States -> StateRecord] BY DEF IInv, TypeOK, Advances, Grounded
  <1>3. ASSUME NEW x \in States
        PROVE  /\ Advances(state'[x], state[x])
               /\ \A d \in Pods : Follows(item'[x][d], item[x][d])
    <2>1. CASE x = t BY <2>1 DEF IInv, TypeOK
    <2>2. CASE x # t
      <3>1. state'[x] = state[x] /\ item'[x] = item[x] BY <2>2 DEF IInv, TypeOK
      <3>2. Advances(state[x], state[x]) BY DEF IInv, StateInv, Advances
      <3> QED BY <3>1, <3>2, OneItem
    <2> QED BY <2>1, <2>2
  <1> QED BY <1>1, <1>2, <1>3 DEF Evolves

\* The same for one item.
LEMMA EvolvesItem ==
    ASSUME IInv, NEW t \in States, NEW d \in Pods, NEW j, NEW s,
           Follows(j, item[t][d]), Advances(s, state[t]),
           item' = [item EXCEPT ![t][d] = j], state' = [state EXCEPT ![t] = s]
    PROVE  Evolves
  <1>1. PICK items : items = [item[t] EXCEPT ![d] = j] OBVIOUS
  <1>2. item' = [item EXCEPT ![t] = items] BY <1>1
  <1>3. items \in [Pods -> ItemRecord] BY <1>1, OneItem DEF Follows, Sane
  <1>4. \A e \in Pods : Follows(items[e], item[t][e])
    <2> TAKE e \in Pods
    <2>1. items[e] = IF e = d THEN j ELSE item[t][e] BY <1>1, OneItem
    <2> QED BY <2>1, OneItem
  <1> QED BY <1>2, <1>3, <1>4, EvolvesOne

\* A step that changes no item and no state.
LEMMA EvolvesNot ==
    ASSUME IInv, UNCHANGED <<state, item>>
    PROVE  Evolves
  <1>1. \A t \in States : Advances(state[t], state[t]) BY DEF IInv, StateInv, Advances
  <1>2. \A t \in States, d \in Pods : Follows(item[t][d], item[t][d]) BY OneItem
  <1> QED BY <1>1, <1>2 DEF Evolves, IInv, TypeOK

\* prober.Do with probeVerifier.
LEMMA ProbeEvolves ==
    ASSUME IInv, NEW t \in States, NEW d \in Pods, NEW a \in {"body", "error", "abandon"}, Probe(t, d, a)
    PROVE  Evolves
  <1>0. item[t][d] \in ItemRecord /\ Sane(item[t][d]) /\ item[t][d].at = "queued" /\ state[t].uid \in UIDs
        /\ state[t] \in StateRecord
      BY OneItem DEF Probe, Active
  <1>1. PICK parts : parts = serving[d][state[t].uid] OBVIOUS
  <1>2. parts \subseteq Partitions BY <1>0, <1>1 DEF IInv, TypeOK
  <1>3. PICK ok \in BOOLEAN : ok = (a = "abandon" \/ (a = "body" /\ parts # {})) OBVIOUS
  <1>4. PICK j : j = [item[t][d] EXCEPT !.at = "answered", !.ok = ok] OBVIOUS
  <1>5. Follows(j, item[t][d]) BY <1>0, <1>4 DEF Follows, Sane, Active, ItemRecord
  <1>6. item' = [item EXCEPT ![t][d] = j] BY <1>1, <1>3, <1>4 DEF Probe
  <1>7. PICK s : s = [state[t] EXCEPT !.readyPartitions = @ \cup parts] OBVIOUS
  <1>8. Advances(s, state[t])
    <2>1. /\ s \in StateRecord /\ s.uid = state[t].uid /\ s.gen = state[t].gen /\ s.num = state[t].num
          /\ s.num \in Nat
          /\ s.ready = state[t].ready /\ s.readyPartitions = state[t].readyPartitions \cup parts
        BY <1>0, <1>2, <1>7 DEF StateRecord
    <2>2. state[t].readyPartitions \subseteq Partitions BY <1>0 DEF StateRecord
    <2>3. /\ Cardinality(state[t].readyPartitions) <= Cardinality(s.readyPartitions)
          /\ Cardinality(state[t].readyPartitions) \in Nat /\ Cardinality(s.readyPartitions) \in Nat
        BY <1>2, <2>1, <2>2, PartitionsGrow
    <2>4. Grounded(state[t]) BY OneItem
    <2> QED BY <2>1, <2>3, <2>4 DEF Advances, Grounded
  <1>9. CASE a = "body"
    <2>1. state' = [state EXCEPT ![t] = s] BY <1>1, <1>7, <1>9 DEF Probe
    <2> QED BY <1>5, <1>6, <1>8, <2>1, EvolvesItem
  <1>10. CASE a # "body"
    <2>1. state' = [state EXCEPT ![t] = state[t]] BY <1>10 DEF Probe, IInv, TypeOK
    <2> QED BY <1>5, <1>6, <2>1, OneItem, EvolvesItem
  <1> QED BY <1>9, <1>10

\* The rest of processWorkItem.
LEMMA ProcessAnswerEvolves ==
    ASSUME IInv, NEW t \in States, NEW d \in Pods, ProcessAnswer(t, d)
    PROVE  Evolves
  <1>0. PICK i : i = item[t][d] OBVIOUS
  <1>1. i \in ItemRecord /\ Sane(i) /\ i.at = "answered" BY <1>0, OneItem DEF ProcessAnswer
  <1>2. PICK at : at = (IF i.done THEN "none" ELSE IF i.ok THEN "success" ELSE "queued") OBVIOUS
  <1>3. PICK j : j = [i EXCEPT !.ok = FALSE, !.at = at] OBVIOUS
  <1>4. Follows(j, i) /\ Sane(j)
    <2>1. /\ j \in ItemRecord /\ j.at = at /\ j.count = i.count /\ j.done = i.done /\ j.waiting = i.waiting
        BY <1>1, <1>2, <1>3 DEF ItemRecord
    <2> QED BY <1>1, <2>1 DEF Follows, Sane, Active
  <1>5. Follows(Left(j), i) BY <1>4, LeftFollows, FollowsOn
  <1>6. item' = [item EXCEPT ![t][d] = Left(j)] BY <1>0, <1>2, <1>3 DEF ProcessAnswer
  <1>7. state' = [state EXCEPT ![t] = state[t]] BY DEF ProcessAnswer, IInv, TypeOK
  <1> QED BY <1>0, <1>5, <1>6, <1>7, OneItem, EvolvesItem

\* checkReadiness stores ready only with enough partitions.
LEMMA ReadinessAdvances ==
    ASSUME IInv, NEW t \in States, NEW r \in BOOLEAN, r => checkReadiness(state[t])
    PROVE  /\ Advances([state[t] EXCEPT !.ready = r], state[t])
           /\ [state[t] EXCEPT !.ready = r].ready = r
  <1>1. Grounded(state[t]) /\ state[t] \in StateRecord BY DEF IInv, StateInv, Grounded
  <1>2. PICK s : s = [state[t] EXCEPT !.ready = r] OBVIOUS
  <1>3. /\ s \in StateRecord /\ s.uid = state[t].uid /\ s.gen = state[t].gen /\ s.ready = r
        /\ s.num = state[t].num /\ s.num \in Nat
        /\ s.readyPartitions = state[t].readyPartitions /\ state[t].readyPartitions \subseteq Partitions
      BY <1>1, <1>2 DEF StateRecord
  <1>4. Cardinality(s.readyPartitions) \in Nat BY <1>3, PartitionsGrow
  <1>5. r => Cardinality(s.readyPartitions) >= s.num
      BY <1>1, <1>3, <1>4 DEF checkReadiness, Grounded
  <1> QED BY <1>2, <1>3, <1>5 DEF Advances, Grounded

\* onProbingSuccess: the item leaves the worker; when all partitions have been found, all items
\* of the state are cancelled.
LEMMA SuccessEvolves ==
    ASSUME IInv, NEW t \in States, NEW d \in Pods, onProbingSuccess(t, d)
    PROVE  Evolves /\ queue' \subseteq UIDs
  <1>0. PICK i : i = item[t][d] OBVIOUS
  <1>1. /\ i \in ItemRecord /\ Sane(i) /\ i.at = "success" /\ state[t].uid \in UIDs
        /\ item[t] \in [Pods -> ItemRecord] /\ state[t] \in StateRecord
      BY <1>0, OneItem DEF onProbingSuccess, Succeed, Active
  <1>2. PICK last \in BOOLEAN : last = (i.count = 1) OBVIOUS
  <1>3. PICK ready \in BOOLEAN : ready = (last /\ checkReadiness(state[t])) OBVIOUS
  <1>4. PICK j : j = [i EXCEPT !.count = @ - 1, !.at = "none", !.done = @ \/ last] OBVIOUS
  <1>5. PICK items : items = [item[t] EXCEPT ![d] = Left(j)] OBVIOUS
  <1>6. /\ item' = [item EXCEPT ![t] = IF ready THEN CancelItems(items) ELSE items]
        /\ state' = [state EXCEPT ![t].ready = @ \/ ready]
        /\ queue' = IF ready THEN queue \cup {state[t].uid} ELSE queue
      BY <1>0, <1>2, <1>3, <1>4, <1>5 DEF onProbingSuccess, Succeed
  <1>7. Sane(j) /\ Follows(j, i)
    <2>1. j \in ItemRecord /\ j.at = "none" /\ j.waiting = i.waiting
      <3>1. i.count - 1 \in -1..1 BY <1>1 DEF Sane, ItemRecord
      <3>2. (i.done \/ last) \in BOOLEAN OBVIOUS
      <3> QED BY <1>1, <1>4, <3>1, <3>2 DEF ItemRecord
    <2> QED BY <1>1, <2>1 DEF Sane, Follows, Active
  <1>8. Follows(Left(j), i) BY <1>7, LeftFollows, FollowsOn
  <1>9. /\ items \in [Pods -> ItemRecord]
        /\ \A e \in Pods : Follows(items[e], item[t][e]) /\ Sane(items[e])
    <2>1. items \in [Pods -> ItemRecord] BY <1>1, <1>5, <1>8 DEF Follows, Sane
    <2>2. ASSUME NEW e \in Pods PROVE Follows(items[e], item[t][e]) /\ Sane(items[e])
      <3>1. items[e] = IF e = d THEN Left(j) ELSE item[t][e] BY <1>1, <1>5
      <3>2. Follows(items[e], item[t][e]) BY <1>0, <1>8, <3>1, OneItem
      <3> QED BY <3>2 DEF Follows
    <2> QED BY <2>1, <2>2
  <1>10. PICK all : all = IF ready THEN CancelItems(items) ELSE items OBVIOUS
  <1>11. all \in [Pods -> ItemRecord] /\ \A e \in Pods : Follows(all[e], item[t][e])
    <2>1. CASE ready
      <3>1. all = CancelItems(items) BY <1>10, <2>1
      <3>2. /\ CancelItems(items) \in [Pods -> ItemRecord]
            /\ \A e \in Pods : Follows(CancelItems(items)[e], items[e])
          BY <1>9, CancelFollows
      <3> QED BY <1>9, <3>1, <3>2, FollowsOn
    <2>2. CASE ~ready BY <1>9, <1>10, <2>2
    <2> QED BY <2>1, <2>2
  <1>12. PICK r \in BOOLEAN : r = (state[t].ready \/ ready) OBVIOUS
  <1>13. r => checkReadiness(state[t]) BY <1>3, <1>12 DEF checkReadiness
  <1>14. state' = [state EXCEPT ![t] = [state[t] EXCEPT !.ready = r]] BY <1>6, <1>12
  <1>15. item' = [item EXCEPT ![t] = all] BY <1>6, <1>10
  <1>16. Advances([state[t] EXCEPT !.ready = r], state[t]) BY <1>13, ReadinessAdvances
  <1>17. Evolves BY <1>11, <1>14, <1>15, <1>16, EvolvesOne
  <1>18. queue' \subseteq UIDs BY <1>1, <1>6 DEF IInv, TypeOK
  <1> QED BY <1>17, <1>18

\* onProbingCancellation: the goroutine ends, and counts the pod down if no success did.
LEMMA CancellationEvolves ==
    ASSUME IInv, NEW t \in States, NEW d \in Pods, onProbingCancellation(t, d)
    PROVE  Evolves /\ queue' \subseteq UIDs
  <1>0. PICK i : i = item[t][d] OBVIOUS
  <1>1. /\ i \in ItemRecord /\ Sane(i) /\ i.waiting /\ i.done /\ state[t].uid \in UIDs
        /\ state[t] \in StateRecord
      BY <1>0, OneItem DEF onProbingCancellation, Active
  <1>2. PICK pending \in BOOLEAN : pending = (i.count > 0)
    <2>1. (i.count > 0) \in BOOLEAN BY <1>1, Z3 DEF ItemRecord
    <2> QED BY <2>1, Zenon
  <1>3. PICK left : left = state[t].pendingCount - 1 OBVIOUS
  <1>4. PICK ready \in BOOLEAN : ready = (pending /\ left = 0 /\ checkReadiness(state[t])) OBVIOUS
  <1>5. PICK j : j = [i EXCEPT !.waiting = FALSE, !.count = IF pending THEN 0 ELSE @] OBVIOUS
  <1>6. /\ item' = [item EXCEPT ![t][d] = Left(j)]
        /\ state' = IF pending THEN [state EXCEPT ![t].pendingCount = left, ![t].ready = @ \/ ready]
                    ELSE state
        /\ queue' = IF ready THEN queue \cup {state[t].uid} ELSE queue
      BY <1>0, <1>2, <1>3, <1>4, <1>5 DEF onProbingCancellation
  <1>7. Sane(j) /\ Follows(j, i)
    <2>1. /\ j \in ItemRecord /\ j.at = i.at /\ j.done = i.done /\ (j.count = i.count \/ j.count = 0)
      <3>1. PICK n : n = IF pending THEN 0 ELSE i.count OBVIOUS
      <3>2. n \in -1..1 /\ (n = i.count \/ n = 0) BY <1>1, <3>1 DEF ItemRecord
      <3>3. j = [i EXCEPT !.waiting = FALSE, !.count = n] BY <1>5, <3>1
      <3> QED BY <1>1, <3>2, <3>3 DEF ItemRecord
    <2> QED BY <1>1, <2>1 DEF Sane, Follows, Active
  <1>8. Follows(Left(j), i) BY <1>7, LeftFollows, FollowsOn
  <1>9. queue' \subseteq UIDs BY <1>1, <1>6 DEF IInv, TypeOK
  <1>10. CASE pending
    <2>1. PICK r \in BOOLEAN : r = (state[t].ready \/ ready) OBVIOUS
    <2>2. r => checkReadiness(state[t]) BY <1>4, <2>1 DEF checkReadiness
    <2>3. PICK s : s = [state[t] EXCEPT !.ready = r] OBVIOUS
    <2>4. Advances(s, state[t]) BY <2>2, <2>3, ReadinessAdvances
    <2>5. PICK q : q = [s EXCEPT !.pendingCount = left] OBVIOUS
    <2>6. Advances(q, state[t])
      <3>1. s \in StateRecord /\ left \in Int BY <1>1, <1>3, <2>4 DEF Advances, Grounded, StateRecord
      <3>2. /\ q \in StateRecord /\ q.uid = s.uid /\ q.gen = s.gen /\ q.num = s.num /\ q.ready = s.ready
            /\ q.readyPartitions = s.readyPartitions
          BY <2>5, <3>1 DEF StateRecord
      <3> QED BY <2>4, <3>2 DEF Advances, Grounded
    <2>7. state' = [state EXCEPT ![t] = q]
      <3>1. q = [state[t] EXCEPT !.pendingCount = left, !.ready = r] BY <1>1, <2>3, <2>5 DEF StateRecord
      <3> QED BY <1>6, <1>10, <2>1, <3>1
    <2> QED BY <1>0, <1>6, <1>8, <1>9, <2>6, <2>7, EvolvesItem
  <1>11. CASE ~pending
    <2>1. state' = [state EXCEPT ![t] = state[t]] BY <1>6, <1>11 DEF IInv, TypeOK
    <2> QED BY <1>0, <1>6, <1>8, <1>9, <2>1, OneItem, EvolvesItem
  <1> QED BY <1>10, <1>11

\* CancelPodProbing.
LEMMA CancelPodEvolves ==
    ASSUME IInv, NEW d \in Pods, CancelPodProbing(d)
    PROVE  Evolves
  <1>1. ASSUME NEW t \in States, NEW e \in Pods
        PROVE  Follows(item'[t][e], item[t][e]) /\ item'[t] \in [Pods -> ItemRecord]
    <2>1. item[t] \in [Pods -> ItemRecord] BY OneItem
    <2>2. PICK j : j = [item[t][d] EXCEPT !.done = @ \/ item[t][d].waiting] OBVIOUS
    <2>3. Follows(j, item[t][d]) BY <2>2, OneItem, DoneFollows
    <2>4. item'[t] = [item[t] EXCEPT ![d] = j] BY <2>2 DEF CancelPodProbing
    <2>5. item'[t][e] = IF e = d THEN j ELSE item[t][e] BY <2>1, <2>4
    <2>6. Follows(item'[t][e], item[t][e]) BY <2>3, <2>5, OneItem
    <2> QED BY <2>1, <2>3, <2>4, <2>6 DEF Follows, Sane
  <1>2. item' \in [States -> [Pods -> ItemRecord]]
    <2>1. item' = [t \in States |-> [item[t] EXCEPT ![d].done = @ \/ item[t][d].waiting]]
        BY DEF CancelPodProbing
    <2>2. \A t \in States : item'[t] \in [Pods -> ItemRecord] BY <1>1
    <2> QED BY <2>1, <2>2
  <1>3. \A t \in States : Advances(state[t], state[t]) BY DEF IInv, StateInv, Advances
  <1> QED BY <1>1, <1>2, <1>3 DEF Evolves, CancelPodProbing, IInv, TypeOK

\* ejectStateUnsafe.
LEMMA EjectEvolves ==
    ASSUME IInv, NEW u \in UIDs, EjectState(u)
    PROVE  /\ UNCHANGED state => Evolves
           /\ targetStates' = [targetStates EXCEPT ![u] = Nil]
           /\ item' \in [States -> [Pods -> ItemRecord]]
           /\ \A x \in States, d \in Pods : Follows(item'[x][d], item[x][d])
           /\ targetStates[u] # Nil => \A d \in Pods :
                 item'[targetStates[u]][d].at # "none" => item'[targetStates[u]][d].done
  <1>1. targetStates' = [targetStates EXCEPT ![u] = Nil] BY DEF EjectState
  <1>2. CASE targetStates[u] = Nil
    <2>1. item' = item BY <1>2 DEF EjectState
    <2> QED BY <1>1, <1>2, <2>1, EvolvesNot, OneItem DEF IInv, TypeOK
  <1>3. CASE targetStates[u] # Nil
    <2>1. PICK t \in States : t = targetStates[u] BY <1>3 DEF IInv, TypeOK
    <2>2. PICK items : items = CancelItems(item[t]) OBVIOUS
    <2>3. item' = [item EXCEPT ![t] = items] BY <1>3, <2>1, <2>2 DEF EjectState
    <2>4. item[t] \in [Pods -> ItemRecord] /\ \A d \in Pods : Sane(item[t][d])
        BY DEF IInv, TypeOK, StateInv
    <2>5. /\ items \in [Pods -> ItemRecord]
          /\ \A d \in Pods : Follows(items[d], item[t][d]) /\ (items[d].at # "none" => items[d].done)
        BY <2>2, <2>4, CancelFollows
    <2>6. item' \in [States -> [Pods -> ItemRecord]] BY <2>3, <2>5 DEF IInv, TypeOK
    <2>7. item'[t] = items BY <2>3 DEF IInv, TypeOK
    <2>8. \A x \in States, d \in Pods : Follows(item'[x][d], item[x][d])
      <3> TAKE x \in States, d \in Pods
      <3>1. item'[x] = IF x = t THEN items ELSE item[x] BY <2>3 DEF IInv, TypeOK
      <3> QED BY <2>5, <3>1, OneItem
    <2>9. UNCHANGED state => Evolves
      <3>1. \A x \in States : Advances(state[x], state[x]) BY DEF IInv, StateInv, Advances
      <3> QED BY <2>6, <2>8, <3>1 DEF Evolves, IInv, TypeOK
    <2> QED BY <1>1, <2>1, <2>5, <2>6, <2>7, <2>8, <2>9
  <1> QED BY <1>2, <1>3

--------------------------------------------------------------------------------
(* The invariant *)

\* Where items and states only evolve, what is known of them and of who refers to them stays.
LEMMA Frame ==
    ASSUME IInv, Evolves
    PROVE  /\ StateInv'
           /\ (\A u \in UIDs : targetStates'[u] \in {targetStates[u], Nil}) => MapInv'
           /\ \A p \in Procs : proc'[p] = proc[p] => ProcOK(p)'
  <1>1. StateInv'
    <2>1. \A t \in States : /\ Grounded(state'[t]) /\ state'[t].uid = state[t].uid
                            /\ \A d \in Pods : Sane(item'[t][d]) /\ (Active(item'[t][d]) => Active(item[t][d]))
        BY DEF Evolves, Advances, Follows
    <2> QED BY <2>1 DEF IInv, StateInv
  <1>2. \A t \in States : state'[t].uid = state[t].uid BY DEF Evolves, Advances
  <1>3. (\A u \in UIDs : targetStates'[u] \in {targetStates[u], Nil}) => MapInv'
      BY <1>2 DEF MapInv, IInv, RefInv, TypeOK
  <1>4. ASSUME NEW p \in Procs, proc'[p] = proc[p] PROVE ProcOK(p)'
    <2>1. ProcOK(p) /\ proc[p] \in ProcRecord BY DEF IInv, RefInv, TypeOK
    <2>2. proc[p].new \in States \cup {Nil} BY <2>1 DEF ProcRecord
    <2> QED BY <1>2, <1>4, <2>1, <2>2 DEF ProcOK
  <1> QED BY <1>1, <1>3, <1>4

\* Steps of the environment: nothing of the prober changes.
LEMMA EnvironmentKeeps ==
    ASSUME IInv, UNCHANGED <<targetStates, state, item, proc>>
    PROVE  StateInv' /\ RefInv'
  <1>1. \A u \in UIDs : targetStates'[u] \in {targetStates[u], Nil} OBVIOUS
  <1>2. Evolves BY EvolvesNot
  <1> QED BY <1>1, <1>2, Frame DEF RefInv

\* Specs, channels, pods and claims change, or everything is enqueued again.
LEMMA EnvironmentStep ==
    ASSUME IInv,
           \/ \E u \in UIDs : ChangeSpec(u) \/ DeleteChannel(u)
           \/ \E u \in UIDs, n \in NumPartitions : ChangePartitions(u, n)
           \/ \E ips \in SUBSET Pods : ChangePods(ips)
           \/ \E d \in Pods, u \in UIDs, p \in Partitions : Unclaim(d, u, p) \/ Claim(d, u, p)
           \/ Resync
    PROVE  IInv' /\ UNCHANGED <<reported, targetStates, state, item, proc>>
  <1>0. UNCHANGED <<reported, targetStates, state, item, proc, missed>>
      BY DEF ChangeSpec, ChangePartitions, DeleteChannel, ChangePods, Unclaim, Claim, Resync, EnvEdit
  <1>1. /\ gen' \in [UIDs -> 0..MaxGen] /\ finalizing' \subseteq UIDs /\ queue' \subseteq UIDs
        /\ endpoints' \subseteq Pods /\ num' \in [UIDs -> NumPartitions]
    <2>0. /\ gen \in [UIDs -> 0..MaxGen] /\ finalizing \subseteq UIDs /\ queue \subseteq UIDs
          /\ endpoints \subseteq Pods /\ num \in [UIDs -> NumPartitions]
        BY DEF IInv, TypeOK
    <2>1. CASE \E u \in UIDs : ChangeSpec(u) BY <2>0, <2>1 DEF ChangeSpec
    <2>2. CASE \E u \in UIDs : DeleteChannel(u) BY <2>0, <2>2 DEF DeleteChannel
    <2>3. CASE \E ips \in SUBSET Pods : ChangePods(ips) BY <2>0, <2>3 DEF ChangePods
    <2>4. CASE \E d \in Pods, u \in UIDs, p \in Partitions : Unclaim(d, u, p) \/ Claim(d, u, p)
        BY <2>0, <2>4 DEF Unclaim, Claim
    <2>5. CASE Resync BY <2>0, <2>5 DEF Resync, env
    <2>6. CASE \E u \in UIDs, n \in NumPartitions : ChangePartitions(u, n)
        BY <2>0, <2>6 DEF ChangePartitions
    <2> QED BY <2>1, <2>2, <2>3, <2>4, <2>5, <2>6
  <1>2. serving' \in [Pods -> [UIDs -> SUBSET Partitions]]
    <2>0. serving \in [Pods -> [UIDs -> SUBSET Partitions]] BY DEF IInv, TypeOK
    <2>1. CASE \E d \in Pods, u \in UIDs, p \in Partitions : Unclaim(d, u, p) \/ Claim(d, u, p)
      <3>1. PICK d \in Pods, u \in UIDs, p \in Partitions : Unclaim(d, u, p) \/ Claim(d, u, p) BY <2>1
      <3>2. PICK s \in SUBSET Partitions : serving' = [serving EXCEPT ![d][u] = s]
        <4>1. serving[d][u] \cup {p} \in SUBSET Partitions /\ serving[d][u] \ {p} \in SUBSET Partitions
            BY <2>0
        <4> QED BY <3>1, <4>1 DEF Unclaim, Claim
      <3> QED BY <2>0, <3>2
    <2>2. CASE UNCHANGED serving BY <2>0, <2>2
    <2> QED BY <2>1, <2>2 DEF ChangeSpec, ChangePartitions, DeleteChannel, ChangePods, Resync, env
  <1>3. edits' \in 0..MaxEdits
    <2>1. edits' = edits \/ (edits < MaxEdits /\ edits' = edits + 1)
        BY DEF ChangeSpec, ChangePartitions, DeleteChannel, ChangePods, Unclaim, Claim, Resync, EnvEdit, Bounded, env
    <2> QED BY <2>1 DEF IInv, TypeOK
  <1>4. TypeOK' BY <1>0, <1>1, <1>2, <1>3 DEF IInv, TypeOK
  <1> QED BY <1>0, <1>4, EnvironmentKeeps DEF IInv

\* Steps of probe workers, of waiting goroutines and of CancelPodProbing.
LEMMA ItemsStep ==
    ASSUME IInv,
           \/ \E t \in States, d \in Pods, a \in {"body", "error", "abandon"} : Probe(t, d, a)
           \/ \E t \in States, d \in Pods : ItemStep(t, d)
           \/ \E d \in Pods : CancelPodProbing(d)
    PROVE  IInv' /\ Evolves /\ UNCHANGED <<reported, targetStates, proc>>
  <1>0. UNCHANGED <<gen, num, missed, finalizing, endpoints, serving, reported, targetStates, proc>>
      BY DEF Probe, ItemStep, ProcessAnswer, onProbingSuccess, Succeed, onProbingCancellation,
             CancelPodProbing, env
  <1>1. Evolves
      BY ProbeEvolves, ProcessAnswerEvolves, SuccessEvolves, CancellationEvolves, CancelPodEvolves
      DEF ItemStep
  <1>2. queue' \subseteq UIDs
    <2>1. CASE UNCHANGED queue BY <2>1 DEF IInv, TypeOK
    <2> QED BY <2>1, SuccessEvolves, CancellationEvolves
        DEF ItemStep, Probe, ProcessAnswer, CancelPodProbing
  <1>3. edits' \in 0..MaxEdits
    <2>1. edits' = edits \/ (edits < MaxEdits /\ edits' = edits + 1)
        BY DEF Probe, ItemStep, ProcessAnswer, onProbingSuccess, Succeed, onProbingCancellation,
             CancelPodProbing, Bounded, env
    <2> QED BY <2>1 DEF IInv, TypeOK
  <1>4. TypeOK' BY <1>0, <1>1, <1>2, <1>3 DEF IInv, TypeOK, Evolves
  <1>5. \A u \in UIDs : targetStates'[u] \in {targetStates[u], Nil} BY <1>0
  <1>6. \A p \in Procs : proc'[p] = proc[p] BY <1>0
  <1>7. StateInv' /\ MapInv' /\ \A p \in Procs : ProcOK(p)' BY <1>1, <1>5, <1>6, Frame
  <1> QED BY <1>0, <1>1, <1>4, <1>7 DEF IInv, RefInv

--------------------------------------------------------------------------------
(* Steps of callers and refreshers *)

\* IdleProc and the locals of a goroutine have their types.
LEMMA Locals ==
    ASSUME IInv
    PROVE  /\ IdleProc \in ProcRecord /\ IdleProc.pc = "idle" /\ IdleProc.new = Nil /\ IdleProc.uid = Nil
           /\ \A p \in Procs : /\ proc[p] \in ProcRecord /\ ProcOK(p)
                               /\ proc[p].uid \in UIDs \cup {Nil} /\ proc[p].gen \in 0..MaxGen
                               /\ proc[p].num \in NumPartitions \cup {0}
                               /\ proc[p].target \in SUBSET Pods /\ proc[p].new \in States \cup {Nil}
                               /\ proc[p].todo \in SUBSET States
BY DEF IInv, TypeOK, RefInv, ProcRecord, IdleProc

\* A goroutine goes on without a new state.
LEMMA OneProc ==
    ASSUME IInv, Evolves, NEW p \in Procs, NEW l \in ProcRecord, proc' = [proc EXCEPT ![p] = l],
           l.pc # "store", l.new = Nil, l.pc \in {"lookup", "eject", "probe"} => l.uid # Nil
    PROVE  proc' \in [Procs -> ProcRecord] /\ \A q \in Procs : ProcOK(q)'
  <1>1. proc' \in [Procs -> ProcRecord] BY DEF IInv, TypeOK
  <1>2. ASSUME NEW q \in Procs PROVE ProcOK(q)'
    <2>1. CASE q = p
      <3>1. proc'[q] = l BY <2>1 DEF IInv, TypeOK
      <3> QED BY <3>1 DEF ProcOK
    <2>2. CASE q # p
      <3>1. proc'[q] = proc[q] BY <2>2 DEF IInv, TypeOK
      <3> QED BY <3>1, Frame
    <2> QED BY <2>1, <2>2
  <1> QED BY <1>1, <1>2

\* reconcileSubscribers reads the spec and the targets.
LEMMA ReconcileStep ==
    ASSUME IInv, NEW c \in Callers, NEW u \in UIDs, Reconcile(c, u)
    PROVE  IInv' /\ UNCHANGED <<targetStates, state, item>>
  <1>0. UNCHANGED <<gen, num, finalizing, endpoints, serving, edits>> /\ UNCHANGED <<targetStates, state, item>>
        /\ queue' \subseteq UIDs
      BY DEF Reconcile, Dequeue, env, IInv, TypeOK
  <1>1. c \in Procs BY DEF Procs
  <1>2. CASE ListProbeTargetsFails
    <2>1. reported' = [reported EXCEPT ![u] = 0] /\ UNCHANGED proc /\ missed' = missed \cup {u} BY <1>2 DEF Reconcile
    <2>2. TypeOK' BY <1>0, <2>1 DEF IInv, TypeOK
    <2> QED BY <1>0, <2>1, <2>2, EnvironmentKeeps DEF IInv
  <1>3. CASE ~ListProbeTargetsFails
    <2>1. PICK l : l = [IdleProc EXCEPT !.pc = "lookup", !.uid = u, !.gen = gen[u], !.num = num[u],
                                 !.target = endpoints]
        OBVIOUS
    <2>2. proc' = [proc EXCEPT ![c] = l] /\ UNCHANGED reported /\ missed' = missed \ {u} BY <1>3, <2>1 DEF Reconcile
    <2>3. l \in ProcRecord /\ l.pc = "lookup" /\ l.new = Nil /\ l.uid # Nil
        BY <2>1 DEF IdleProc, ProcRecord, IInv, TypeOK
    <2>4. Evolves BY <1>0, EvolvesNot
    <2>5. proc' \in [Procs -> ProcRecord] /\ \A q \in Procs : ProcOK(q)'
        BY <1>1, <2>2, <2>3, <2>4, OneProc
    <2>6. TypeOK' BY <1>0, <2>2, <2>5 DEF IInv, TypeOK
    <2>7. StateInv' /\ MapInv'
      <3>1. \A x \in UIDs : targetStates'[x] \in {targetStates[x], Nil} BY <1>0
      <3> QED BY <2>4, <3>1, Frame
    <2> QED BY <1>0, <2>5, <2>6, <2>7 DEF IInv, RefInv
  <1> QED BY <1>2, <1>3

\* FinalizeKind: CancelProbing.
LEMMA FinalizeStep ==
    ASSUME IInv, NEW c \in Callers, NEW u \in UIDs, FinalizeKind(c, u)
    PROVE  IInv' /\ Evolves
  <1>0. UNCHANGED <<gen, num, missed, finalizing, endpoints, serving, edits>> /\ UNCHANGED <<reported, state, proc>>
        /\ queue' \subseteq UIDs /\ EjectState(u)
      BY DEF FinalizeKind, Dequeue, env, IInv, TypeOK
  <1>1. Evolves /\ targetStates' = [targetStates EXCEPT ![u] = Nil] BY <1>0, EjectEvolves
  <1>2. TypeOK' BY <1>0, <1>1 DEF IInv, TypeOK, Evolves
  <1>3. \A x \in UIDs : targetStates'[x] \in {targetStates[x], Nil} BY <1>1 DEF IInv, TypeOK
  <1>4. \A p \in Procs : proc'[p] = proc[p] BY <1>0
  <1>5. StateInv' /\ MapInv' /\ \A p \in Procs : ProcOK(p)' BY <1>1, <1>3, <1>4, Frame
  <1> QED BY <1>1, <1>2, <1>5 DEF IInv, RefInv

\* Lookup: whoever gets an answer gets it from the state of its subscription and generation.
LEMMA LookupStep ==
    ASSUME IInv, NEW c \in Callers, Lookup(c)
    PROVE  /\ IInv' /\ Evolves /\ UNCHANGED <<targetStates, item>>
           /\ \A u \in UIDs : reported'[u] \notin {0, reported[u]} =>
                 \E t \in States : /\ state[t].uid = u /\ state[t].gen = reported'[u]
                                   /\ Cardinality(state[t].readyPartitions) >= state[t].num
  <1>0. UNCHANGED <<gen, num, missed, finalizing, endpoints, serving, edits>> /\ UNCHANGED <<queue, targetStates, item>>
        /\ c \in Procs /\ proc[c].pc = "lookup"
      BY DEF Lookup, env, Procs
  <1>1. PICK v \in UIDs : v = proc[c].uid BY <1>0, Locals DEF ProcOK
  <1>2. PICK t : t = targetStates[v] OBVIOUS
  <1>3. \A x \in UIDs : targetStates'[x] \in {targetStates[x], Nil} BY <1>0
  <1>4. CASE t # Nil /\ ~isOutdatedTargetState(state[t], proc[c].gen, proc[c].target)
    <2>1. t \in States BY <1>2, <1>4 DEF IInv, TypeOK
    <2>2. PICK r \in BOOLEAN : r = checkReadiness(state[t])
        BY DEF checkReadiness
    <2>3. /\ state' = [state EXCEPT ![t] = [state[t] EXCEPT !.ready = r]]
          /\ reported' = [reported EXCEPT ![v] = IF r THEN proc[c].gen ELSE 0]
          /\ proc' = [proc EXCEPT ![c] = IdleProc]
        BY <1>1, <1>2, <1>4, <2>2 DEF Lookup
    <2>4. Evolves
      <3>1. Advances([state[t] EXCEPT !.ready = r], state[t]) BY <2>1, <2>2, ReadinessAdvances
      <3>2. item' = [item EXCEPT ![t] = item[t]] BY <1>0, <2>1 DEF IInv, TypeOK
      <3>3. item[t] \in [Pods -> ItemRecord] BY <2>1 DEF IInv, TypeOK
      <3>4. \A d \in Pods : Follows(item[t][d], item[t][d]) BY <2>1, OneItem
      <3> QED BY <2>1, <2>3, <3>1, <3>2, <3>3, <3>4, EvolvesOne
    <2>5. proc' \in [Procs -> ProcRecord] /\ \A q \in Procs : ProcOK(q)'
        BY <1>0, <2>3, <2>4, OneProc, Locals
    <2>6. reported' \in [UIDs -> 0..MaxGen]
        BY <1>0, <2>3, Locals DEF IInv, TypeOK
    <2>7. TypeOK' BY <1>0, <2>4, <2>5, <2>6 DEF IInv, TypeOK, Evolves
    <2>8. StateInv' /\ MapInv' BY <1>3, <2>4, Frame
    <2>9. ASSUME NEW u \in UIDs, reported'[u] \notin {0, reported[u]}
          PROVE  /\ state[t].uid = u /\ state[t].gen = reported'[u]
                 /\ Cardinality(state[t].readyPartitions) >= state[t].num
      <3>1. u = v /\ r /\ reported'[u] = proc[c].gen BY <2>3, <2>9 DEF IInv, TypeOK
      <3>2. state[t].gen = proc[c].gen BY <1>4 DEF isOutdatedTargetState
      <3>3. state[t].uid = v BY <1>2, <1>4 DEF IInv, RefInv, MapInv
      <3>4. Cardinality(state[t].readyPartitions) >= state[t].num
        <4>1. Advances([state[t] EXCEPT !.ready = r], state[t]) /\ [state[t] EXCEPT !.ready = r].ready = r
            BY <2>1, <2>2, ReadinessAdvances
        <4>2. [state[t] EXCEPT !.ready = r].readyPartitions = state[t].readyPartitions
            BY <2>1 DEF IInv, TypeOK, StateRecord
        <4> QED BY <3>1, <4>1, <4>2 DEF Advances, Grounded
      <3> QED BY <3>1, <3>2, <3>3, <3>4
    <2> QED BY <1>0, <2>1, <2>4, <2>5, <2>7, <2>8, <2>9 DEF IInv, RefInv
  <1>5. CASE ~(t # Nil /\ ~isOutdatedTargetState(state[t], proc[c].gen, proc[c].target))
    <2>1. PICK pc \in {"probe", "eject"} : proc' = [proc EXCEPT ![c].pc = pc]
        BY <1>1, <1>2, <1>5 DEF Lookup
    <2>2. UNCHANGED <<state, reported>> BY <1>1, <1>2, <1>5 DEF Lookup
    <2>3. Evolves BY <1>0, <2>2, EvolvesNot
    <2>4. PICK l : l = [proc[c] EXCEPT !.pc = pc] OBVIOUS
    <2>5. l \in ProcRecord /\ l.pc = pc /\ l.new = Nil /\ l.uid # Nil
        BY <1>0, <1>1, <2>4, Locals DEF ProcRecord, ProcOK
    <2>6. proc' \in [Procs -> ProcRecord] /\ \A q \in Procs : ProcOK(q)'
        BY <1>0, <2>1, <2>3, <2>4, <2>5, OneProc
    <2>7. TypeOK' BY <1>0, <2>2, <2>6 DEF IInv, TypeOK
    <2>8. StateInv' /\ MapInv' BY <1>3, <2>3, Frame
    <2> QED BY <1>0, <2>2, <2>3, <2>6, <2>7, <2>8 DEF IInv, RefInv
  <1> QED BY <1>4, <1>5

\* The ejection in IsReady.
LEMMA EjectStep ==
    ASSUME IInv, NEW c \in Callers, Eject(c)
    PROVE  IInv' /\ Evolves
  <1>0. UNCHANGED <<gen, num, missed, finalizing, endpoints, serving, edits>> /\ UNCHANGED <<queue, reported, state>>
        /\ c \in Procs /\ proc[c].pc = "eject" /\ EjectState(proc[c].uid)
      BY DEF Eject, env, Procs
  <1>1. PICK u \in UIDs : u = proc[c].uid BY <1>0, Locals DEF ProcOK
  <1>2. Evolves /\ targetStates' = [targetStates EXCEPT ![u] = Nil] BY <1>0, <1>1, EjectEvolves
  <1>3. PICK l : l = [proc[c] EXCEPT !.pc = "probe"] OBVIOUS
  <1>4. l \in ProcRecord /\ l.pc = "probe" /\ l.new = Nil /\ l.uid # Nil
      BY <1>0, <1>1, <1>3, Locals DEF ProcRecord, ProcOK
  <1>5. proc' \in [Procs -> ProcRecord] /\ \A q \in Procs : ProcOK(q)'
      BY <1>0, <1>2, <1>3, <1>4, OneProc DEF Eject
  <1>6. TypeOK' BY <1>0, <1>2, <1>5 DEF IInv, TypeOK, Evolves
  <1>7. \A x \in UIDs : targetStates'[x] \in {targetStates[x], Nil} BY <1>2 DEF IInv, TypeOK
  <1>8. StateInv' /\ MapInv' BY <1>2, <1>7, Frame
  <1> QED BY <1>2, <1>5, <1>6, <1>8 DEF IInv, RefInv

\* probeTarget uses a state that nobody refers to.
LEMMA ProbeTargetStep ==
    ASSUME IInv, NEW p \in Procs, NEW t \in States, ProbeTarget(p, t)
    PROVE  IInv'
  <1>0. UNCHANGED <<gen, num, missed, finalizing, endpoints, serving, edits>> /\ UNCHANGED <<queue, reported, targetStates>>
        /\ proc[p].pc = "probe" /\ Unreferenced(t)
      BY DEF ProbeTarget, env
  <1>1. PICK u \in UIDs : u = proc[p].uid BY <1>0, Locals DEF ProcOK
  <1>2. PICK n : n = Cardinality(proc[p].target) OBVIOUS
  <1>3. n \in Int
    <2>1. IsFiniteSet(proc[p].target) BY Locals, FS_Subset
    <2> QED BY <1>2, <2>1, FS_CardinalityType
  <1>4. PICK s : s = [NoState EXCEPT !.uid = u, !.gen = proc[p].gen, !.num = proc[p].num, !.probedPods = proc[p].target,
                                     !.pendingCount = n]
      OBVIOUS
  <1>5. s \in StateRecord /\ s.uid = u /\ s.ready = FALSE
      BY <1>3, <1>4, Locals DEF NoState, StateRecord
  <1>6. PICK items : items = [d \in Pods |-> IF d \in proc[p].target THEN NewItem ELSE NoItem] OBVIOUS
  <1>7. items \in [Pods -> ItemRecord] /\ \A d \in Pods : Sane(items[d])
      BY <1>6, NewItems DEF Sane
  <1>8. PICK l : l = [proc[p] EXCEPT !.pc = "store", !.new = t] OBVIOUS
  <1>9. l \in ProcRecord /\ l.pc = "store" /\ l.new = t /\ l.uid = u
      BY <1>1, <1>8, Locals DEF ProcRecord
  <1>10. state' = [state EXCEPT ![t] = s] /\ item' = [item EXCEPT ![t] = items] /\ proc' = [proc EXCEPT ![p] = l]
      BY <1>1, <1>2, <1>4, <1>6, <1>8 DEF ProbeTarget
  <1>11. /\ state' \in [States -> StateRecord] /\ item' \in [States -> [Pods -> ItemRecord]]
         /\ proc' \in [Procs -> ProcRecord] /\ state'[t] = s /\ item'[t] = items /\ proc'[p] = l
         /\ \A x \in States : x # t => state'[x] = state[x] /\ item'[x] = item[x]
         /\ \A q \in Procs : q # p => proc'[q] = proc[q]
      BY <1>5, <1>7, <1>9, <1>10 DEF IInv, TypeOK
  <1>12. TypeOK' BY <1>0, <1>11 DEF IInv, TypeOK
  <1>13. StateInv'
    <2>1. ASSUME NEW x \in States
          PROVE  /\ Grounded(state'[x])
                 /\ \A d \in Pods : Sane(item'[x][d]) /\ (Active(item'[x][d]) => state'[x].uid # Nil)
      <3>1. CASE x = t BY <1>5, <1>7, <1>11, <3>1 DEF Grounded
      <3>2. CASE x # t BY <1>11, <3>2 DEF IInv, StateInv
      <3> QED BY <3>1, <3>2
    <2> QED BY <2>1 DEF StateInv
  <1>14. MapInv'
    <2>1. \A v \in UIDs : targetStates[v] \in States \cup {Nil} /\ targetStates[v] # t
        BY <1>0 DEF IInv, TypeOK, Unreferenced
    <2> QED BY <1>0, <1>11, <2>1 DEF IInv, RefInv, MapInv
  <1>15. ASSUME NEW q \in Procs PROVE ProcOK(q)'
    <2>1. CASE q = p BY <1>5, <1>9, <1>11, <2>1 DEF ProcOK
    <2>2. CASE q # p
      <3>1. proc[q].new # t /\ proc[q].new \in States \cup {Nil} BY <1>0, Locals DEF Unreferenced
      <3>2. ProcOK(q) BY Locals
      <3> QED BY <1>11, <2>2, <3>1, <3>2 DEF ProcOK
    <2> QED BY <2>1, <2>2
  <1> QED BY <1>12, <1>13, <1>14, <1>15 DEF IInv, RefInv

\* ... and stores it for its subscription.
LEMMA StoreStep ==
    ASSUME IInv, NEW p \in Procs, StoreState(p)
    PROVE  IInv' /\ \A u \in UIDs : reported'[u] \in {0, reported[u]}
  <1>0. UNCHANGED <<gen, num, missed, finalizing, endpoints, serving, edits>> /\ UNCHANGED <<queue, state, item>>
        /\ proc[p].pc = "store"
      BY DEF StoreState, env
  <1>1. PICK u \in UIDs : u = proc[p].uid BY <1>0, Locals DEF ProcOK
  <1>2. PICK t \in States : t = proc[p].new BY <1>0, Locals DEF ProcOK
  <1>3. state[t].uid = u BY <1>1, <1>2, Locals DEF ProcOK
  <1>4. targetStates' = [targetStates EXCEPT ![u] = t] BY <1>1, <1>2 DEF StoreState
  <1>5. PICK l : l = IF p \in Callers THEN IdleProc
                     ELSE [IdleProc EXCEPT !.pc = "relock", !.todo = proc[p].todo]
      OBVIOUS
  <1>6. proc' = [proc EXCEPT ![p] = l] /\ (reported' = reported \/ reported' = [reported EXCEPT ![u] = 0])
      BY <1>1, <1>5 DEF StoreState
  <1>7. l \in ProcRecord /\ l.pc \in {"idle", "relock"} /\ l.new = Nil
    <2>1. PICK rest \in SUBSET States : rest = proc[p].todo BY Locals
    <2>2. CASE p \in Callers BY <1>5, <2>2, Locals
    <2>3. CASE p \notin Callers
      <3>1. l = [IdleProc EXCEPT !.pc = "relock", !.todo = rest] BY <1>5, <2>1, <2>3
      <3>2. l = [pc |-> "relock", uid |-> Nil, gen |-> 0, num |-> 0, target |-> {}, new |-> Nil,
                 todo |-> rest]
          BY <3>1 DEF IdleProc
      <3>3. 0 \in 0..MaxGen BY ProberAssumption
      <3> QED BY <3>2, <3>3 DEF ProcRecord
    <2> QED BY <2>2, <2>3
  <1>8. Evolves BY <1>0, EvolvesNot
  <1>9. proc' \in [Procs -> ProcRecord] /\ \A q \in Procs : ProcOK(q)' BY <1>6, <1>7, <1>8, OneProc
  <1>10. reported' \in [UIDs -> 0..MaxGen] /\ \A v \in UIDs : reported'[v] \in {0, reported[v]}
      BY <1>6 DEF IInv, TypeOK
  <1>11. TypeOK' BY <1>0, <1>4, <1>9, <1>10 DEF IInv, TypeOK
  <1>12. MapInv'
    <2>1. \A v \in UIDs : targetStates'[v] = IF v = u THEN t ELSE targetStates[v]
        BY <1>4 DEF IInv, TypeOK
    <2> QED BY <1>0, <1>3, <2>1 DEF IInv, RefInv, MapInv
  <1>13. StateInv' BY <1>8, Frame
  <1> QED BY <1>9, <1>10, <1>11, <1>12, <1>13 DEF IInv, RefInv

\* RefreshPodProbing begins, takes mu again, and ends.
LEMMA RefreshControlStep ==
    ASSUME IInv, NEW r \in Refreshers, RefreshStart(r) \/ RefreshRelock(r) \/ RefreshReturn(r)
    PROVE  IInv' /\ UNCHANGED reported
  <1>0. UNCHANGED <<gen, num, missed, finalizing, endpoints, serving>>
        /\ UNCHANGED <<queue, reported, targetStates, state, item>>
        /\ r \in Procs /\ proc[r].pc # "store"
      BY DEF RefreshStart, RefreshRelock, RefreshReturn, env, Procs
  <1>1. edits' \in 0..MaxEdits
    <2>1. edits' = edits \/ (edits < MaxEdits /\ edits' = edits + 1)
        BY DEF RefreshStart, RefreshRelock, RefreshReturn, Bounded, env
    <2> QED BY <2>1 DEF IInv, TypeOK
  <1>2. proc[r].new = Nil BY <1>0, Locals DEF ProcOK
  <1>3. PICK l \in ProcRecord : /\ proc' = [proc EXCEPT ![r] = l]
                                /\ l.pc \in {"idle", "loop"} /\ l.new = Nil
    <2>1. CASE RefreshStart(r)
      <3>1. PICK todo : todo = {targetStates[u] : u \in UIDs} \ {Nil} OBVIOUS
      <3>2. todo \in SUBSET States BY <3>1 DEF IInv, TypeOK
      <3>3. PICK l : l = [proc[r] EXCEPT !.pc = "loop", !.todo = todo] OBVIOUS
      <3>4. l \in ProcRecord /\ l.pc = "loop" /\ l.new = Nil
          BY <1>0, <1>2, <3>2, <3>3, Locals DEF ProcRecord
      <3>5. proc' = [proc EXCEPT ![r] = l] BY <2>1, <3>1, <3>3 DEF RefreshStart
      <3> QED BY <3>4, <3>5
    <2>2. CASE RefreshRelock(r)
      <3>1. PICK l : l = [proc[r] EXCEPT !.pc = "loop"] OBVIOUS
      <3>2. l \in ProcRecord /\ l.pc = "loop" /\ l.new = Nil
          BY <1>0, <1>2, <3>1, Locals DEF ProcRecord
      <3>3. proc' = [proc EXCEPT ![r] = l] BY <2>2, <3>1 DEF RefreshRelock
      <3> QED BY <3>2, <3>3
    <2>3. CASE RefreshReturn(r)
      <3>1. proc' = [proc EXCEPT ![r] = IdleProc] BY <2>3 DEF RefreshReturn
      <3> QED BY <3>1, Locals
    <2> QED BY <2>1, <2>2, <2>3
  <1>4. Evolves BY <1>0, EvolvesNot
  <1>5. proc' \in [Procs -> ProcRecord] /\ \A q \in Procs : ProcOK(q)' BY <1>0, <1>3, <1>4, OneProc
  <1>6. TypeOK' BY <1>0, <1>1, <1>5 DEF IInv, TypeOK
  <1>7. \A x \in UIDs : targetStates'[x] \in {targetStates[x], Nil} BY <1>0
  <1>8. StateInv' /\ MapInv' BY <1>4, <1>7, Frame
  <1> QED BY <1>0, <1>5, <1>6, <1>8 DEF IInv, RefInv

\* One state of RefreshPodProbing's range.
LEMMA RefreshOneStep ==
    ASSUME IInv, NEW r \in Refreshers, NEW u \in UIDs, RefreshOne(r, u)
    PROVE  IInv' /\ UNCHANGED reported
  <1>0. UNCHANGED <<gen, num, missed, finalizing, endpoints, serving, edits>> /\ UNCHANGED <<queue, reported>>
        /\ r \in Procs /\ proc[r].pc = "loop"
      BY DEF RefreshOne, env, Procs
  <1>1. PICK t \in States : t = targetStates[u] BY DEF RefreshOne, IInv, TypeOK
  <1>2. PICK ready \in BOOLEAN : ready = checkReadiness(state[t]) BY DEF checkReadiness
  <1>3. PICK s : s = [state[t] EXCEPT !.ready = ready] OBVIOUS
  <1>4. state' = [state EXCEPT ![t] = s] BY <1>1, <1>2, <1>3 DEF RefreshOne
  <1>5. Advances(s, state[t]) BY <1>2, <1>3, ReadinessAdvances
  <1>6. state' \in [States -> StateRecord] /\ \A x \in States : Advances(state'[x], state[x])
    <2>1. \A x \in States : Advances(state[x], state[x]) BY DEF IInv, StateInv, Advances
    <2>2. s \in StateRecord /\ state \in [States -> StateRecord]
        BY <1>5 DEF Advances, Grounded, IInv, TypeOK
    <2> QED BY <1>4, <1>5, <2>1, <2>2
  <1>7. PICK rest : rest = proc[r].todo \ {t} OBVIOUS
  <1>8. proc[r].new = Nil /\ rest \in SUBSET States BY <1>0, <1>7, Locals DEF ProcOK
  <1>9. CASE UNCHANGED <<targetStates, item>> /\ (\/ proc' = [proc EXCEPT ![r].todo = rest]
                                                 \/ proc' = [proc EXCEPT ![r] = IdleProc])
    <2>1. \A x \in States, d \in Pods : Follows(item'[x][d], item[x][d]) BY <1>9, OneItem
    <2>2. Evolves BY <1>6, <1>9, <2>1 DEF Evolves, IInv, TypeOK
    <2>3. PICK l \in ProcRecord : /\ proc' = [proc EXCEPT ![r] = l]
                                  /\ l.pc \in {"idle", "loop"} /\ l.new = Nil
      <3>1. CASE proc' = [proc EXCEPT ![r].todo = rest]
        <4>1. PICK l : l = [proc[r] EXCEPT !.todo = rest] OBVIOUS
        <4>2. l \in ProcRecord /\ l.pc = "loop" /\ l.new = Nil
            BY <1>0, <1>8, <4>1, Locals DEF ProcRecord
        <4> QED BY <3>1, <4>1, <4>2
      <3>2. CASE proc' = [proc EXCEPT ![r] = IdleProc] BY <3>2, Locals
      <3> QED BY <1>9, <3>1, <3>2
    <2>4. proc' \in [Procs -> ProcRecord] /\ \A q \in Procs : ProcOK(q)' BY <1>0, <2>2, <2>3, OneProc
    <2>5. TypeOK' BY <1>0, <1>6, <1>9, <2>4 DEF IInv, TypeOK
    <2>6. \A x \in UIDs : targetStates'[x] \in {targetStates[x], Nil} BY <1>9
    <2>7. StateInv' /\ MapInv' BY <2>2, <2>6, Frame
    <2> QED BY <1>0, <2>4, <2>5, <2>7 DEF IInv, RefInv
  <1>10. CASE /\ EjectState(u)
              /\ proc' = [proc EXCEPT ![r] = [pc |-> "probe", uid |-> u, gen |-> state[t].gen, num |-> state[t].num,
                                              target |-> endpoints, new |-> Nil, todo |-> rest]]
    <2>1. /\ item' \in [States -> [Pods -> ItemRecord]]
          /\ \A x \in States, d \in Pods : Follows(item'[x][d], item[x][d])
          /\ targetStates' = [targetStates EXCEPT ![u] = Nil]
        BY <1>10, EjectEvolves
    <2>2. Evolves BY <1>6, <2>1 DEF Evolves
    <2>3. PICK l : l = [pc |-> "probe", uid |-> u, gen |-> state[t].gen, num |-> state[t].num,
                        target |-> endpoints, new |-> Nil, todo |-> rest]
        OBVIOUS
    <2>4. l \in ProcRecord /\ l.pc = "probe" /\ l.new = Nil /\ l.uid # Nil
      <3>1. state[t].gen \in 0..MaxGen /\ state[t].num \in NumPartitions \cup {0} /\ endpoints \in SUBSET Pods BY DEF IInv, TypeOK, StateRecord
      <3> QED BY <1>8, <2>3, <3>1 DEF ProcRecord
    <2>5. proc' \in [Procs -> ProcRecord] /\ \A q \in Procs : ProcOK(q)'
        BY <1>0, <1>10, <2>2, <2>3, <2>4, OneProc
    <2>6. TypeOK' BY <1>0, <1>6, <2>1, <2>5 DEF IInv, TypeOK
    <2>7. \A x \in UIDs : targetStates'[x] \in {targetStates[x], Nil} BY <2>1 DEF IInv, TypeOK
    <2>8. StateInv' /\ MapInv' BY <2>2, <2>7, Frame
    <2> QED BY <1>0, <2>5, <2>6, <2>8 DEF IInv, RefInv
  <1> QED BY <1>1, <1>2, <1>7, <1>9, <1>10 DEF RefreshOne

--------------------------------------------------------------------------------
(* Types and reports *)

\* The prober knows nothing at first.
LEMMA InitIInv == Init => IInv
  <1> SUFFICES ASSUME Init PROVE IInv OBVIOUS
  <1>1. NoState \in StateRecord /\ NoState.ready = FALSE /\ Grounded(NoState)
      BY DEF NoState, StateRecord, Grounded
  <1>2. NoItem \in ItemRecord /\ Sane(NoItem) /\ ~Active(NoItem)
      BY NewItems DEF Sane, Active, NoItem
  <1>3. IdleProc \in ProcRecord /\ IdleProc.pc = "idle" /\ IdleProc.new = Nil
      BY DEF IdleProc, ProcRecord
  <1>4. TypeOK BY <1>1, <1>2, <1>3 DEF Init, TypeOK
  <1>5. StateInv BY <1>1, <1>2 DEF Init, StateInv
  <1>6. RefInv BY <1>3 DEF Init, RefInv, MapInv, ProcOK
  <1> QED BY <1>4, <1>5, <1>6 DEF IInv

\* Every step preserves the invariant, and a new report comes from Lookup, with what the state
\* knows.
LEMMA NextIInv ==
    ASSUME IInv, [Next]_vars
    PROVE  /\ IInv'
           /\ \A u \in UIDs : reported'[u] \notin {0, reported[u]} =>
                 \E t \in States : /\ state[t].uid = u /\ state[t].gen = reported'[u]
                                   /\ Cardinality(state[t].readyPartitions) >= state[t].num
  <1> DEFINE Reports == \A u \in UIDs : reported'[u] \notin {0, reported[u]} =>
                 \E t \in States : /\ state[t].uid = u /\ state[t].gen = reported'[u]
                                   /\ Cardinality(state[t].readyPartitions) >= state[t].num
  <1>0. (\A u \in UIDs : reported'[u] \in {0, reported[u]}) => Reports OBVIOUS
  <1>1. ASSUME UNCHANGED vars PROVE IInv' /\ Reports
    <2>1. UNCHANGED <<gen, num, missed, finalizing, endpoints, serving, edits>>
          /\ UNCHANGED <<queue, reported, targetStates, state, item, proc>>
        BY <1>1 DEF vars, env
    <2>2. TypeOK' BY <2>1 DEF IInv, TypeOK
    <2>3. \A u \in UIDs : reported'[u] \in {0, reported[u]} BY <2>1
    <2> QED BY <1>0, <2>1, <2>2, <2>3, EnvironmentKeeps DEF IInv
  <1>2. ASSUME NEW c \in Callers, CallerStep(c) PROVE IInv' /\ Reports
    <2> HIDE DEF Reports
    <2>0. c \in Procs BY DEF Procs
    <2>1. CASE \E u \in UIDs : Reconcile(c, u)
      <3>1. \A u \in UIDs : reported'[u] \in {0, reported[u]} BY <2>1 DEF Reconcile, IInv, TypeOK
      <3> QED BY <1>0, <2>1, <3>1, ReconcileStep
    <2>2. CASE \E u \in UIDs : FinalizeKind(c, u)
      <3>1. \A u \in UIDs : reported'[u] \in {0, reported[u]} BY <2>2 DEF FinalizeKind
      <3> QED BY <1>0, <2>2, <3>1, FinalizeStep
    <2>3. CASE Lookup(c) BY <2>3, LookupStep DEF Reports
    <2>4. CASE Eject(c)
      <3>1. \A u \in UIDs : reported'[u] \in {0, reported[u]} BY <2>4 DEF Eject
      <3> QED BY <1>0, <2>4, <3>1, EjectStep
    <2>5. CASE ProcStep(c)
      <3>1. CASE StoreState(c) BY <1>0, <2>0, <3>1, StoreStep
      <3>2. CASE \E t \in States : ProbeTarget(c, t)
        <4>1. \A u \in UIDs : reported'[u] \in {0, reported[u]} BY <3>2 DEF ProbeTarget
        <4> QED BY <1>0, <2>0, <3>2, <4>1, ProbeTargetStep
      <3> QED BY <2>5, <3>1, <3>2 DEF ProcStep
    <2> QED BY <1>2, <2>1, <2>2, <2>3, <2>4, <2>5 DEF CallerStep
  <1>3. ASSUME NEW r \in Refreshers, RefreshStart(r) \/ RefreshStep(r) PROVE IInv' /\ Reports
    <2> HIDE DEF Reports
    <2>0. r \in Procs BY DEF Procs
    <2>1. CASE StoreState(r) BY <1>0, <2>0, <2>1, StoreStep
    <2>2. CASE \E t \in States : ProbeTarget(r, t)
      <3>1. \A u \in UIDs : reported'[u] \in {0, reported[u]} BY <2>2 DEF ProbeTarget
      <3> QED BY <1>0, <2>0, <2>2, <3>1, ProbeTargetStep
    <2>3. CASE RefreshStart(r) \/ RefreshRelock(r) \/ RefreshReturn(r) \/ \E u \in UIDs : RefreshOne(r, u)
      <3>1. IInv' /\ UNCHANGED reported BY <2>3, RefreshControlStep, RefreshOneStep
      <3>2. \A u \in UIDs : reported'[u] \in {0, reported[u]} BY <3>1
      <3> QED BY <1>0, <3>1, <3>2
    <2> QED BY <1>3, <2>1, <2>2, <2>3 DEF RefreshStep, ProcStep
  <1>4. ASSUME \/ \E u \in UIDs : ChangeSpec(u) \/ DeleteChannel(u)
               \/ \E u \in UIDs, n \in NumPartitions : ChangePartitions(u, n)
               \/ \E ips \in SUBSET Pods : ChangePods(ips)
               \/ \E d \in Pods, u \in UIDs, p \in Partitions : Unclaim(d, u, p) \/ Claim(d, u, p)
               \/ Resync
        PROVE  IInv' /\ Reports
    <2>1. IInv' /\ UNCHANGED reported BY <1>4, EnvironmentStep
    <2>2. \A u \in UIDs : reported'[u] \in {0, reported[u]} BY <2>1
    <2> QED BY <1>0, <2>1, <2>2
  <1>5. ASSUME \/ \E t \in States, d \in Pods, a \in {"body", "error", "abandon"} : Probe(t, d, a)
               \/ \E t \in States, d \in Pods : ItemStep(t, d)
               \/ \E d \in Pods : CancelPodProbing(d)
        PROVE  IInv' /\ Reports
    <2>1. IInv' /\ UNCHANGED reported BY <1>5, ItemsStep
    <2>2. \A u \in UIDs : reported'[u] \in {0, reported[u]} BY <2>1
    <2> QED BY <1>0, <2>1, <2>2
  <1> HIDE DEF Reports
  <1>6. IInv' /\ Reports
    <2>1. CASE Environment \/ DispatcherStep BY <2>1, <1>4, <1>5 DEF Environment, DispatcherStep
    <2>2. CASE \E c \in Callers : CallerStep(c) BY <2>2, <1>2
    <2>3. CASE \E r \in Refreshers : RefreshStart(r) \/ RefreshStep(r) BY <2>3, <1>3
    <2>4. CASE \E t \in States, d \in Pods, a \in {"body", "error", "abandon"} : Probe(t, d, a)
        BY <2>4, <1>5
    <2>5. CASE \E t \in States, d \in Pods : ItemStep(t, d) BY <2>5, <1>5
    <2> QED BY <1>1, <2>1, <2>2, <2>3, <2>4, <2>5 DEF Next
  <1> QED BY <1>6 DEF Reports

\* The invariant holds throughout.
LEMMA Invariance == Spec => []IInv
  <1>1. IInv /\ [Next]_vars => IInv' BY NextIInv
  <1> QED BY <1>1, InitIInv, PTL DEF Spec

\* Types, and with them the bounds of podState.pendingCount: neither a success nor a cancellation
\* is counted twice, in whatever order workers, callbacks and cancellations run.
THEOREM ProberTypes == Spec => []TypeOK
BY Invariance, PTL DEF IInv

\* ReportsWhatWasProbed, with any number of callers, refreshers and states: a subscription becomes
\* reported only from a state of its own generation whose probes have found enough partitions,
\* although RefreshPodProbing, late answers and ejections race with the lookup.
THEOREM ReportsAreProbed == Spec => ReportsWhatWasProbed
  <1>1. IInv /\ [Next]_vars =>
          [\A u \in UIDs : reported'[u] \notin {0, reported[u]} =>
             \E t \in States : /\ state[t].uid = u /\ state[t].gen = reported'[u]
                               /\ Cardinality(state[t].readyPartitions) >= state[t].num]_vars
      BY NextIInv
  <1> QED BY <1>1, Invariance, PTL DEF Spec, ReportsWhatWasProbed

--------------------------------------------------------------------------------
(* Orphaned probes, without RefreshPodProbing *)

\* An item of t may still be probed; t is where CancelProbing finds it, or about to be.
Live(t) == \E d \in Pods : item[t][d].at # "none" /\ ~item[t][d].done
Held(t) == targetStates[state[t].uid] = t \/ \E p \in Procs : proc[p].new = t

\* The callers: the work queue gives a subscription to one of them, and it creates a state only
\* while there is none.
CallerInv ==
    /\ \A c \in Callers : proc[c].pc = "idle" => proc[c].uid = Nil
    /\ \A c, w \in Callers : c # w /\ proc[c].uid # Nil => proc[c].uid # proc[w].uid
    /\ \A c \in Callers : proc[c].pc \in {"probe", "store"} => targetStates[proc[c].uid] = Nil

HeldInv == \A t \in States : Live(t) => Held(t)

OInv == IInv /\ CallerInv /\ HeldInv

\* A step that creates no state makes none live.
LEMMA LiveEvolves ==
    ASSUME IInv, Evolves, NEW t \in States
    PROVE  /\ state'[t].uid = state[t].uid /\ (Live(t)' => Live(t))
           /\ Live(t) => state[t].uid \in UIDs
  <1>1. state'[t].uid = state[t].uid BY DEF Evolves, Advances
  <1>2. \A d \in Pods : item'[t][d].at # "none" => item[t][d].at # "none" /\ (item[t][d].done => item'[t][d].done)
      BY DEF Evolves, Follows
  <1>3. \A d \in Pods : item[t][d].at # "none" => state[t].uid \in UIDs BY OneItem DEF Active
  <1> QED BY <1>1, <1>2, <1>3 DEF Live

\* HeldInv is kept when live states stay where they are ...
LEMMA HeldFrame ==
    ASSUME IInv, HeldInv, Evolves, UNCHANGED targetStates,
           \A p \in Procs : proc[p].new # Nil => proc'[p].new = proc[p].new
    PROVE  HeldInv'
  <1> SUFFICES ASSUME NEW t \in States, Live(t)' PROVE Held(t)' BY DEF HeldInv
  <1>1. Live(t) /\ state'[t].uid = state[t].uid BY LiveEvolves
  <1>2. Held(t) BY <1>1 DEF HeldInv
  <1>3. CASE targetStates[state[t].uid] = t BY <1>1, <1>3 DEF Held
  <1>4. CASE \E p \in Procs : proc[p].new = t BY <1>4 DEF Held
  <1> QED BY <1>2, <1>3, <1>4 DEF Held

\* ... and when a state is ejected, since that cancels it.
LEMMA HeldEject ==
    ASSUME IInv, HeldInv, NEW u \in UIDs, EjectState(u), UNCHANGED state,
           \A p \in Procs : proc[p].new # Nil => proc'[p].new = proc[p].new
    PROVE  HeldInv'
  <1> SUFFICES ASSUME NEW t \in States, Live(t)' PROVE Held(t)' BY DEF HeldInv
  <1>0. /\ Evolves /\ targetStates' = [targetStates EXCEPT ![u] = Nil]
        /\ targetStates[u] # Nil => \A d \in Pods :
              item'[targetStates[u]][d].at # "none" => item'[targetStates[u]][d].done
      BY EjectEvolves
  <1>1. Live(t) /\ state'[t].uid = state[t].uid /\ state[t].uid \in UIDs BY <1>0, LiveEvolves
  <1>2. Held(t) BY <1>1 DEF HeldInv
  <1>3. CASE targetStates[state[t].uid] = t
    <2>1. targetStates[u] # t BY <1>0 DEF Live
    <2>2. targetStates'[state[t].uid] = t BY <1>0, <1>1, <1>3, <2>1 DEF IInv, TypeOK
    <2> QED BY <1>1, <2>2 DEF Held
  <1>4. CASE \E p \in Procs : proc[p].new = t BY <1>4 DEF Held
  <1> QED BY <1>2, <1>3, <1>4 DEF Held

\* A caller goes on: it keeps its subscription, drops it, or takes one that no other has.
LEMMA OneCaller ==
    ASSUME IInv, CallerInv, NEW c \in Callers, NEW l \in ProcRecord, proc' = [proc EXCEPT ![c] = l],
           \A v \in UIDs : targetStates'[v] \in {targetStates[v], Nil},
           l.pc = "idle" => l.uid = Nil,
           l.uid # Nil => l.uid = proc[c].uid \/ \A w \in Callers : proc[w].uid # l.uid,
           l.pc \in {"probe", "store"} => targetStates'[l.uid] = Nil
    PROVE  CallerInv'
  <1>1. proc'[c] = l /\ \A w \in Callers : w # c => proc'[w] = proc[w] BY DEF IInv, TypeOK, Procs
  <1>2. ASSUME NEW w \in Callers, w # c, proc[w].pc \in {"probe", "store"}
        PROVE  targetStates'[proc[w].uid] = Nil
    <2>1. proc[w].uid \in UIDs BY <1>2, Locals DEF ProcOK, Procs
    <2> QED BY <1>2, <2>1 DEF CallerInv
  <1> QED BY <1>1, <1>2 DEF CallerInv

\* Nothing of the callers changes.
LEMMA CallersIdle ==
    ASSUME IInv, CallerInv, UNCHANGED proc, \A v \in UIDs : targetStates'[v] \in {targetStates[v], Nil}
    PROVE  CallerInv'
  <1>1. ASSUME NEW c \in Callers, proc[c].pc \in {"probe", "store"}
        PROVE  targetStates'[proc[c].uid] = Nil
    <2>1. proc[c].uid \in UIDs BY <1>1, Locals DEF ProcOK, Procs
    <2> QED BY <1>1, <2>1 DEF CallerInv
  <1> QED BY <1>1 DEF CallerInv

\* reconcileSubscribers takes a subscription that no other worker has.
LEMMA ReconcileHolds ==
    ASSUME Refreshers = {}, OInv, NEW c \in Callers, NEW u \in UIDs, Reconcile(c, u)
    PROVE  CallerInv' /\ HeldInv'
  <1>0. IInv /\ CallerInv /\ HeldInv BY DEF OInv
  <1>1. UNCHANGED <<targetStates, state, item>> /\ c \in Procs /\ proc[c].pc = "idle"
      BY DEF Reconcile, Dequeue, Procs
  <1>2. Evolves BY <1>0, <1>1, EvolvesNot
  <1>3. \A v \in UIDs : targetStates'[v] \in {targetStates[v], Nil} BY <1>1
  <1>4. CASE ListProbeTargetsFails
    <2>1. UNCHANGED proc BY <1>4 DEF Reconcile
    <2> QED BY <1>0, <1>1, <1>2, <1>3, <2>1, CallersIdle, HeldFrame
  <1>5. CASE ~ListProbeTargetsFails
    <2>1. PICK l : l = [IdleProc EXCEPT !.pc = "lookup", !.uid = u, !.gen = gen[u], !.num = num[u],
                                 !.target = endpoints]
        OBVIOUS
    <2>2. proc' = [proc EXCEPT ![c] = l] BY <1>5, <2>1 DEF Reconcile
    <2>3. l \in ProcRecord /\ l.pc = "lookup" /\ l.new = Nil /\ l.uid = u
        BY <1>0, <2>1 DEF IdleProc, ProcRecord, IInv, TypeOK
    <2>4. \A w \in Callers : proc[w].uid # u BY DEF Reconcile, Dequeue
    <2>5. CallerInv' BY <1>0, <1>3, <2>2, <2>3, <2>4, OneCaller
    <2>6. \A p \in Procs : proc[p].new # Nil => proc'[p].new = proc[p].new
      <3>1. proc[c].new = Nil BY <1>0, <1>1, Locals DEF ProcOK
      <3> QED BY <1>0, <2>2, <3>1 DEF IInv, TypeOK
    <2> QED BY <1>0, <1>1, <1>2, <2>5, <2>6, HeldFrame
  <1> QED BY <1>4, <1>5

\* Lookup lets a caller create a state only where there is none.
LEMMA LookupHolds ==
    ASSUME Refreshers = {}, OInv, NEW c \in Callers, Lookup(c)
    PROVE  CallerInv' /\ HeldInv'
  <1>0. IInv /\ CallerInv /\ HeldInv BY DEF OInv
  <1>1. Evolves /\ UNCHANGED <<targetStates, item>> BY <1>0, LookupStep
  <1>2. c \in Procs /\ proc[c].pc = "lookup" BY DEF Lookup, Procs
  <1>3. PICK u \in UIDs : u = proc[c].uid BY <1>0, <1>2, Locals DEF ProcOK
  <1>4. proc[c].new = Nil /\ proc[c] \in ProcRecord BY <1>0, <1>2, Locals DEF ProcOK
  <1>5. PICK l \in ProcRecord : /\ proc' = [proc EXCEPT ![c] = l]
                                /\ l.uid \in {Nil, proc[c].uid}
                                /\ \/ l.pc = "idle" /\ l.uid = Nil
                                   \/ l.pc = "eject"
                                   \/ l.pc = "probe" /\ l.uid = u /\ targetStates[u] = Nil
    <2>1. PICK pc : pc = IF targetStates[u] = Nil THEN "probe" ELSE "eject" OBVIOUS
    <2>2. proc' = [proc EXCEPT ![c] = IdleProc] \/ proc' = [proc EXCEPT ![c] = [proc[c] EXCEPT !.pc = pc]]
        BY <1>3, <2>1 DEF Lookup
    <2>3. CASE proc' = [proc EXCEPT ![c] = IdleProc] BY <1>0, <2>3, Locals
    <2>4. CASE proc' = [proc EXCEPT ![c] = [proc[c] EXCEPT !.pc = pc]]
      <3>1. PICK l : l = [proc[c] EXCEPT !.pc = pc] OBVIOUS
      <3>2. l \in ProcRecord /\ l.pc = pc /\ l.uid = u BY <1>3, <1>4, <2>1, <3>1 DEF ProcRecord
      <3> QED BY <1>3, <2>1, <2>4, <3>1, <3>2
    <2> QED BY <2>2, <2>3, <2>4
  <1>6. \A v \in UIDs : targetStates'[v] \in {targetStates[v], Nil} BY <1>1
  <1>7. CallerInv' BY <1>0, <1>1, <1>5, <1>6, OneCaller
  <1>8. \A p \in Procs : proc[p].new # Nil => proc'[p].new = proc[p].new
      BY <1>0, <1>4, <1>5 DEF IInv, TypeOK
  <1> QED BY <1>0, <1>1, <1>7, <1>8, HeldFrame

\* An ejection cancels what it removes, in FinalizeKind and in IsReady.
LEMMA EjectHolds ==
    ASSUME Refreshers = {}, OInv, NEW c \in Callers, Eject(c) \/ \E u \in UIDs : FinalizeKind(c, u)
    PROVE  CallerInv' /\ HeldInv'
  <1>0. IInv /\ CallerInv /\ HeldInv BY DEF OInv
  <1>1. CASE Eject(c)
    <2>0. c \in Procs /\ proc[c].pc = "eject" /\ EjectState(proc[c].uid) /\ UNCHANGED state
        BY <1>1 DEF Eject, Procs
    <2>1. PICK u \in UIDs : u = proc[c].uid BY <1>0, <2>0, Locals DEF ProcOK
    <2>2. targetStates' = [targetStates EXCEPT ![u] = Nil] BY <2>0, <2>1 DEF EjectState
    <2>3. \A v \in UIDs : targetStates'[v] \in {targetStates[v], Nil} BY <1>0, <2>2 DEF IInv, TypeOK
    <2>4. PICK l : l = [proc[c] EXCEPT !.pc = "probe"] OBVIOUS
    <2>5. l \in ProcRecord /\ l.pc = "probe" /\ l.uid = u /\ l.new = proc[c].new
        BY <1>0, <2>0, <2>1, <2>4, Locals DEF ProcRecord
    <2>6. proc' = [proc EXCEPT ![c] = l] BY <1>1, <2>4 DEF Eject
    <2>7. targetStates'[u] = Nil BY <1>0, <2>2 DEF IInv, TypeOK
    <2>8. CallerInv' BY <1>0, <2>1, <2>3, <2>5, <2>6, <2>7, OneCaller
    <2>9. \A p \in Procs : proc[p].new # Nil => proc'[p].new = proc[p].new
        BY <1>0, <2>5, <2>6 DEF IInv, TypeOK
    <2> QED BY <1>0, <2>0, <2>1, <2>8, <2>9, HeldEject
  <1>2. ASSUME NEW u \in UIDs, FinalizeKind(c, u) PROVE CallerInv' /\ HeldInv'
    <2>0. EjectState(u) /\ UNCHANGED <<state, proc>> BY <1>2 DEF FinalizeKind
    <2>1. \A v \in UIDs : targetStates'[v] \in {targetStates[v], Nil}
        BY <1>0, <2>0 DEF IInv, TypeOK, EjectState
    <2> QED BY <1>0, <2>0, <2>1, CallersIdle, HeldEject
  <1> QED BY <1>1, <1>2

\* probeTarget: the new state is held by its creator.
LEMMA ProbeTargetHolds ==
    ASSUME Refreshers = {}, OInv, NEW c \in Callers, NEW t \in States, ProbeTarget(c, t)
    PROVE  CallerInv' /\ HeldInv'
  <1>0. IInv /\ CallerInv /\ HeldInv BY DEF OInv
  <1>1. UNCHANGED targetStates /\ c \in Procs /\ proc[c].pc = "probe" BY DEF ProbeTarget, Procs
  <1>2. PICK u \in UIDs : u = proc[c].uid BY <1>0, <1>1, Locals DEF ProcOK
  <1>3. PICK l : l = [proc[c] EXCEPT !.pc = "store", !.new = t] OBVIOUS
  <1>4. l \in ProcRecord /\ l.pc = "store" /\ l.uid = u /\ l.new = t
      BY <1>0, <1>1, <1>2, <1>3, Locals DEF ProcRecord
  <1>5. proc' = [proc EXCEPT ![c] = l] BY <1>3 DEF ProbeTarget
  <1>6. targetStates[u] = Nil BY <1>0, <1>1, <1>2 DEF CallerInv
  <1>7. \A v \in UIDs : targetStates'[v] \in {targetStates[v], Nil} BY <1>1
  <1>8. CallerInv' BY <1>0, <1>1, <1>2, <1>4, <1>5, <1>6, <1>7, OneCaller
  <1>9. /\ proc'[c].new = t
        /\ \A p \in Procs : proc[p].new # Nil => proc'[p].new = proc[p].new
    <2>1. proc[c].new = Nil BY <1>0, <1>1, Locals DEF ProcOK
    <2> QED BY <1>0, <1>1, <1>4, <1>5, <2>1 DEF IInv, TypeOK
  <1>10. ASSUME NEW x \in States, Live(x)' PROVE Held(x)'
    <2>1. CASE x = t BY <1>1, <1>9, <2>1 DEF Held
    <2>2. CASE x # t
      <3>1. state'[x] = state[x] /\ item'[x] = item[x] BY <1>0, <2>2 DEF ProbeTarget, IInv, TypeOK
      <3>2. Held(x) BY <1>0, <1>10, <3>1 DEF HeldInv, Live
      <3> QED BY <1>1, <1>9, <3>1, <3>2 DEF Held
    <2> QED BY <2>1, <2>2
  <1> QED BY <1>8, <1>10 DEF HeldInv

\* ... and stored where nothing else was.
LEMMA StoreHolds ==
    ASSUME Refreshers = {}, OInv, NEW c \in Callers, StoreState(c)
    PROVE  CallerInv' /\ HeldInv'
  <1>0. IInv /\ CallerInv /\ HeldInv BY DEF OInv
  <1>1. UNCHANGED <<state, item>> /\ c \in Procs /\ proc[c].pc = "store" BY DEF StoreState, Procs
  <1>2. PICK u \in UIDs : u = proc[c].uid BY <1>0, <1>1, Locals DEF ProcOK
  <1>3. PICK t \in States : t = proc[c].new BY <1>0, <1>1, Locals DEF ProcOK
  <1>4. state[t].uid = u BY <1>0, <1>1, <1>2, <1>3, Locals DEF ProcOK
  <1>5. targetStates' = [targetStates EXCEPT ![u] = t] /\ proc' = [proc EXCEPT ![c] = IdleProc]
      BY <1>2, <1>3 DEF StoreState
  <1>6. /\ proc'[c] = IdleProc /\ \A w \in Procs : w # c => proc'[w] = proc[w]
        /\ \A v \in UIDs : targetStates'[v] = IF v = u THEN t ELSE targetStates[v]
      BY <1>0, <1>1, <1>5 DEF IInv, TypeOK
  <1>7. CallerInv'
    <2>1. ASSUME NEW w \in Callers, w # c, proc[w].pc \in {"probe", "store"}
          PROVE  targetStates'[proc[w].uid] = Nil
      <3>1. w \in Procs BY DEF Procs
      <3>2. proc[w].uid \in UIDs BY <1>0, <2>1, <3>1, Locals DEF ProcOK
      <3>3. proc[w].uid # u BY <1>0, <1>2, <2>1 DEF CallerInv
      <3> QED BY <1>0, <1>6, <2>1, <3>2, <3>3 DEF CallerInv
    <2>2. IdleProc.pc = "idle" /\ IdleProc.uid = Nil BY <1>0, Locals
    <2>3. \A w \in Callers : w \in Procs BY DEF Procs
    <2> QED BY <1>0, <1>6, <2>1, <2>2, <2>3 DEF CallerInv
  <1>8. targetStates[u] = Nil BY <1>0, <1>1, <1>2 DEF CallerInv
  <1>9. ASSUME NEW x \in States, Live(x)' PROVE Held(x)'
    <2>1. Evolves BY <1>0, <1>1, EvolvesNot
    <2>2. Live(x) /\ state'[x].uid = state[x].uid /\ state[x].uid \in UIDs BY <1>0, <1>9, <2>1, LiveEvolves
    <2>3. Held(x) BY <1>0, <2>2 DEF HeldInv
    <2>4. CASE x = t BY <1>4, <1>6, <2>2, <2>4 DEF Held
    <2>5. CASE x # t
      <3>1. CASE targetStates[state[x].uid] = x
        <4>1. state[x].uid # u BY <1>8, <3>1
        <4> QED BY <1>6, <2>2, <3>1, <4>1 DEF Held
      <3>2. CASE \E p \in Procs : proc[p].new = x
        <4>1. PICK p \in Procs : proc[p].new = x BY <3>2
        <4>2. p # c BY <1>3, <2>5, <4>1
        <4> QED BY <1>6, <4>1, <4>2 DEF Held
      <3> QED BY <2>3, <3>1, <3>2 DEF Held
    <2> QED BY <2>4, <2>5
  <1> QED BY <1>7, <1>9 DEF HeldInv

\* Every step of a system without refreshers keeps OInv.
LEMMA NextOInv ==
    ASSUME Refreshers = {}, OInv, [Next]_vars
    PROVE  OInv'
  <1>0. IInv /\ CallerInv /\ HeldInv BY DEF OInv
  <1>1. IInv' BY <1>0, NextIInv
  <1>2. ASSUME Evolves, UNCHANGED <<targetStates, proc>> PROVE OInv'
    <2>1. \A v \in UIDs : targetStates'[v] \in {targetStates[v], Nil} BY <1>2
    <2> QED BY <1>0, <1>1, <1>2, <2>1, CallersIdle, HeldFrame DEF OInv
  <1>3. CASE UNCHANGED vars
    <2>1. UNCHANGED <<targetStates, proc, state, item>> BY <1>3 DEF vars
    <2> QED BY <1>0, <1>2, <2>1, EvolvesNot
  <1>4. CASE Environment \/ DispatcherStep
    <2>1. CASE \E d \in Pods : CancelPodProbing(d) BY <1>0, <1>2, <2>1, ItemsStep
    <2>2. CASE \/ \E u \in UIDs : ChangeSpec(u) \/ DeleteChannel(u)
               \/ \E u \in UIDs, n \in NumPartitions : ChangePartitions(u, n)
               \/ \E ips \in SUBSET Pods : ChangePods(ips)
               \/ \E d \in Pods, u \in UIDs, p \in Partitions : Unclaim(d, u, p) \/ Claim(d, u, p)
               \/ Resync
      <3>1. UNCHANGED <<targetStates, state, item, proc>> BY <1>0, <2>2, EnvironmentStep
      <3> QED BY <1>0, <1>2, <3>1, EvolvesNot
    <2> QED BY <1>4, <2>1, <2>2 DEF Environment, DispatcherStep
  <1>5. CASE \E c \in Callers : CallerStep(c)
    <2>1. PICK c \in Callers : CallerStep(c) BY <1>5
    <2>2. CallerInv' /\ HeldInv'
        BY <2>1, ReconcileHolds, LookupHolds, EjectHolds, ProbeTargetHolds, StoreHolds
        DEF CallerStep, ProcStep
    <2> QED BY <1>1, <2>2 DEF OInv
  <1>6. CASE \E t \in States, d \in Pods, a \in {"body", "error", "abandon"} : Probe(t, d, a)
      BY <1>0, <1>2, <1>6, ItemsStep
  <1>7. CASE \E t \in States, d \in Pods : ItemStep(t, d) BY <1>0, <1>2, <1>7, ItemsStep
  <1> QED BY <1>3, <1>4, <1>5, <1>6, <1>7 DEF Next

\* Nothing is probed and nobody works at first.
LEMMA InitOInv == Init => OInv
  <1> SUFFICES ASSUME Init PROVE OInv OBVIOUS
  <1>1. \A c \in Callers : proc[c].pc = "idle" /\ proc[c].uid = Nil BY DEF Init, IdleProc, Procs
  <1>2. CallerInv BY <1>1 DEF CallerInv
  <1>3. HeldInv BY DEF Init, HeldInv, Live, NoItem
  <1> QED BY <1>2, <1>3, InitIInv DEF OInv

\* NoOrphanedProbes, for any number of subscriptions, pods and workers: where RefreshPodProbing
\* does not run, an ejection without mu and a state stored after its probes have begun leave no
\* state that is probed and that neither targetStates nor its creator refers to.
THEOREM NoOrphans ==
    ASSUME Refreshers = {}
    PROVE  Spec => []NoOrphanedProbes
  <1>1. OInv /\ [Next]_vars => OInv' BY NextOInv
  <1>2. OInv => NoOrphanedProbes
    <2>1. \A t \in States : Probed(t) => Live(t) BY DEF Probed, Live
    <2> QED BY <2>1 DEF OInv, HeldInv, Held, NoOrphanedProbes
  <1> QED BY <1>1, <1>2, InitOInv, PTL DEF Spec
================================================================================
