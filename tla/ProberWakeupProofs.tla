--------------------------- MODULE ProberWakeupProofs ---------------------------
(***************************************************************************)
(* The proof that no wake-up of Prober is lost, for any number of           *)
(* subscriptions, pods, partitions and workers, where neither               *)
(* RefreshPodProbing nor CancelPodProbing runs.                             *)
(***************************************************************************)
EXTENDS ProberProofs

\* A new state belongs to its creator alone until it is stored, and has pods to probe.
OwnInv ==
    /\ \A c, w \in Procs : c # w /\ proc[c].new # Nil => proc[c].new # proc[w].new
    /\ \A c \in Procs, u \in UIDs : proc[c].new # Nil => targetStates[u] # proc[c].new
    /\ \A c \in Procs : proc[c].pc \in {"lookup", "eject", "probe"} => proc[c].target # {}

\* A state in use that is not ready: its items are pending, and when all of them have been
\* probed, partitions are missing.
Pending(t) ==
    /\ \A d \in Pods : item[t][d].at # "none" => item[t][d].count = 1 /\ ~item[t][d].done
    /\ (\A d \in Pods : item[t][d].at = "none") => Cardinality(state[t].readyPartitions) # state[t].num
PendingInv == \A t \in States : state[t].uid # Nil /\ Held(t) => state[t].ready \/ Pending(t)

\* A ready state in the map has been reported, or a reconcile is to come, or the last one found
\* no pod.
Answered(u) ==
    targetStates[u] # Nil /\ state[targetStates[u]].ready /\ u \notin finalizing
        => reported[u] = state[targetStates[u]].gen \/ Pursued(u) \/ u \in missed
\* A state that is ready before it is stored has its subscription queued.
Queued(c) == proc[c].new # Nil /\ state[proc[c].new].ready => proc[c].uid \in queue
ReadyInv == (\A u \in UIDs : Answered(u)) /\ \A c \in Procs : Queued(c)

WInv == OInv /\ OwnInv /\ PendingInv /\ ReadyInv

USE ProberAssumption

--------------------------------------------------------------------------------
(* Steps of probe workers and of waiting goroutines *)

\* What such a step does to states, items and queue.
Wakes ==
    /\ queue \subseteq queue' /\ \A u \in queue' : u \in queue \/ \E t \in States : state[t].uid = u
    /\ \A t \in States : state'[t].ready => state[t].ready \/ state[t].uid \in queue'
    /\ \A t \in States : state[t].ready \/ Pending(t) => state'[t].ready \/ Pending(t)'

\* One state is concerned.
LEMMA WakesOne ==
    ASSUME NEW t \in States,
           \A x \in States : x # t => state'[x] = state[x] /\ item'[x] = item[x],
           queue' = queue \/ queue' = queue \cup {state[t].uid},
           state'[t].ready => state[t].ready \/ state[t].uid \in queue',
           state[t].ready \/ Pending(t) => state'[t].ready \/ Pending(t)'
    PROVE  Wakes
  <1>1. ASSUME NEW x \in States, x # t, state[x].ready \/ Pending(x)
        PROVE  state'[x].ready \/ Pending(x)'
      BY <1>1 DEF Pending
  <1> QED BY <1>1 DEF Wakes

\* A probe adds partitions while it leaves its item with the worker.
LEMMA ProbeWakes ==
    ASSUME IInv, NEW t \in States, NEW d \in Pods, NEW a \in {"body", "error", "abandon"}, Probe(t, d, a)
    PROVE  Wakes
  <1>0. /\ item[t] \in [Pods -> ItemRecord] /\ item[t][d] \in ItemRecord /\ state[t] \in StateRecord
        /\ item[t][d].at = "queued"
      BY OneItem DEF Probe
  <1>1. PICK ok : item' = [item EXCEPT ![t][d] = [item[t][d] EXCEPT !.at = "answered", !.ok = ok]]
      BY DEF Probe
  <1>2. PICK j : j = [item[t][d] EXCEPT !.at = "answered", !.ok = ok] OBVIOUS
  <1>3. j.at = "answered" /\ j.count = item[t][d].count /\ j.done = item[t][d].done
      BY <1>0, <1>2 DEF ItemRecord
  <1>4. \A e \in Pods : item'[t][e] = IF e = d THEN j ELSE item[t][e] BY <1>0, <1>1, <1>2 DEF IInv, TypeOK
  <1>5. \A x \in States : x # t => state'[x] = state[x] /\ item'[x] = item[x]
      BY <1>1 DEF Probe, IInv, TypeOK
  <1>6. state'[t].ready = state[t].ready
    <2>1. PICK parts : \/ state' = [state EXCEPT ![t].readyPartitions = @ \cup parts]
                       \/ state' = state
        BY DEF Probe
    <2> QED BY <1>0, <2>1 DEF IInv, TypeOK, StateRecord
  <1>7. Pending(t) => Pending(t)' BY <1>0, <1>3, <1>4 DEF Pending
  <1>8. queue' = queue BY DEF Probe
  <1> QED BY <1>5, <1>6, <1>7, <1>8, WakesOne

\* The rest of processWorkItem keeps a pending item.
LEMMA ProcessAnswerWakes ==
    ASSUME IInv, NEW t \in States, NEW d \in Pods, ProcessAnswer(t, d)
    PROVE  Wakes
  <1>0. PICK i : i = item[t][d] OBVIOUS
  <1>1. /\ i \in ItemRecord /\ i.at = "answered" /\ item[t] \in [Pods -> ItemRecord]
      BY <1>0, OneItem DEF ProcessAnswer
  <1>2. PICK at : at = (IF i.done THEN "none" ELSE IF i.ok THEN "success" ELSE "queued") OBVIOUS
  <1>3. PICK j : j = [i EXCEPT !.ok = FALSE, !.at = at] OBVIOUS
  <1>4. j.at = at /\ j.count = i.count /\ j.done = i.done BY <1>1, <1>2, <1>3 DEF ItemRecord
  <1>5. item' = [item EXCEPT ![t][d] = Left(j)] BY <1>0, <1>2, <1>3 DEF ProcessAnswer
  <1>6. \A e \in Pods : item'[t][e] = IF e = d THEN Left(j) ELSE item[t][e] BY <1>1, <1>5 DEF IInv, TypeOK
  <1>7. \A x \in States : x # t => state'[x] = state[x] /\ item'[x] = item[x]
      BY <1>5 DEF ProcessAnswer, IInv, TypeOK
  <1>8. state' = state /\ queue' = queue BY DEF ProcessAnswer
  <1>9. Pending(t) => Pending(t)'
    <2> SUFFICES ASSUME Pending(t) PROVE Pending(t)' OBVIOUS
    <2>1. ~i.done /\ i.count = 1 BY <1>0, <1>1 DEF Pending
    <2>2. at # "none" BY <1>2, <2>1
    <2>3. Left(j) = j BY <1>4, <2>2 DEF Left
    <2>4. item'[t][d].at # "none" /\ item'[t][d].count = 1 /\ ~item'[t][d].done
        BY <1>4, <1>6, <2>1, <2>2, <2>3
    <2> QED BY <1>6, <2>4 DEF Pending
  <1> QED BY <1>7, <1>8, <1>9, WakesOne

\* onProbingSuccess: the last success finds all partitions, and enqueues the channel, or leaves
\* partitions missing.
LEMMA SuccessWakes ==
    ASSUME IInv, NEW t \in States, NEW d \in Pods, onProbingSuccess(t, d)
    PROVE  Wakes
  <1>0. PICK i : i = item[t][d] OBVIOUS
  <1>1. /\ i \in ItemRecord /\ i.at = "success" /\ item[t] \in [Pods -> ItemRecord] /\ state[t] \in StateRecord
      BY <1>0, OneItem DEF onProbingSuccess, Succeed
  <1>2. PICK last \in BOOLEAN : last = (i.count = 1) OBVIOUS
  <1>3. PICK ready \in BOOLEAN : ready = (last /\ checkReadiness(state[t])) OBVIOUS
  <1>4. PICK j : j = [i EXCEPT !.count = @ - 1, !.at = "none", !.done = @ \/ last] OBVIOUS
  <1>5. PICK items : items = [item[t] EXCEPT ![d] = Left(j)] OBVIOUS
  <1>6. /\ item' = [item EXCEPT ![t] = IF ready THEN CancelItems(items) ELSE items]
        /\ state' = [state EXCEPT ![t].ready = @ \/ ready]
        /\ queue' = IF ready THEN queue \cup {state[t].uid} ELSE queue
      BY <1>0, <1>2, <1>3, <1>4, <1>5 DEF onProbingSuccess, Succeed
  <1>7. PICK r \in BOOLEAN : r = (state[t].ready \/ ready) OBVIOUS
  <1>8. state' = [state EXCEPT ![t] = [state[t] EXCEPT !.ready = r]] BY <1>6, <1>7
  <1>9. /\ state'[t].ready = r /\ state'[t].readyPartitions = state[t].readyPartitions
        /\ state'[t].num = state[t].num
      BY <1>1, <1>8 DEF IInv, TypeOK, StateRecord
  <1>10. \A x \in States : x # t => state'[x] = state[x] /\ item'[x] = item[x]
      BY <1>6 DEF IInv, TypeOK
  <1>11. CASE ready
    <2>1. state'[t].ready /\ state[t].uid \in queue' /\ queue' = queue \cup {state[t].uid}
        BY <1>6, <1>7, <1>9, <1>11
    <2> QED BY <1>10, <2>1, WakesOne
  <1>12. CASE ~ready
    <2>1. queue' = queue /\ (state'[t].ready <=> state[t].ready) BY <1>6, <1>7, <1>9, <1>12
    <2>2. item'[t] = items BY <1>6, <1>12 DEF IInv, TypeOK
    <2>3. \A e \in Pods : item'[t][e] = IF e = d THEN Left(j) ELSE item[t][e] BY <1>1, <1>5, <2>2
    <2>4. Left(j).at = "none"
      <3>1. j.at = "none" BY <1>1, <1>4 DEF ItemRecord
      <3> QED BY <3>1 DEF Left, NoItem
    <2>5. Pending(t) => Pending(t)'
      <3> SUFFICES ASSUME Pending(t) PROVE Pending(t)' OBVIOUS
      <3>1. last BY <1>0, <1>1, <1>2 DEF Pending
      <3>2. Cardinality(state[t].readyPartitions) # state[t].num
          BY <1>3, <1>12, <3>1 DEF checkReadiness
      <3> QED BY <1>9, <2>3, <2>4, <3>2 DEF Pending
    <2> QED BY <1>10, <2>1, <2>5, WakesOne
  <1> QED BY <1>11, <1>12

\* onProbingCancellation concerns an item that no worker has, unless its state is ready or no
\* longer in use.
LEMMA CancellationWakes ==
    ASSUME IInv, NEW t \in States, NEW d \in Pods, onProbingCancellation(t, d)
    PROVE  Wakes
  <1>0. PICK i : i = item[t][d] OBVIOUS
  <1>1. /\ i \in ItemRecord /\ i.waiting /\ i.done /\ item[t] \in [Pods -> ItemRecord]
        /\ state[t] \in StateRecord
      BY <1>0, OneItem DEF onProbingCancellation
  <1>2. PICK pending \in BOOLEAN : pending = (i.count > 0)
    <2>1. (i.count > 0) \in BOOLEAN BY <1>1, Z3 DEF ItemRecord
    <2> QED BY <2>1, Zenon
  <1>3. PICK left : left = state[t].pendingCount - 1 OBVIOUS
  <1>4. PICK ready \in BOOLEAN : ready = (pending /\ left = 0 /\ checkReadiness(state[t])) OBVIOUS
  <1>5. PICK n : n = IF pending THEN 0 ELSE i.count OBVIOUS
  <1>6. PICK j : j = [i EXCEPT !.waiting = FALSE, !.count = n] OBVIOUS
  <1>7. /\ item' = [item EXCEPT ![t][d] = Left(j)]
        /\ state' = IF pending THEN [state EXCEPT ![t].pendingCount = left, ![t].ready = @ \/ ready]
                    ELSE state
        /\ queue' = IF ready THEN queue \cup {state[t].uid} ELSE queue
      BY <1>0, <1>2, <1>3, <1>4, <1>5, <1>6 DEF onProbingCancellation
  <1>8. \A x \in States : x # t => state'[x] = state[x] /\ item'[x] = item[x]
      BY <1>7 DEF IInv, TypeOK
  <1>9. /\ state'[t].readyPartitions = state[t].readyPartitions /\ state'[t].num = state[t].num
        /\ state'[t].ready <=> state[t].ready \/ ready
    <2>1. CASE pending
      <3>1. PICK r \in BOOLEAN : r = (state[t].ready \/ ready) OBVIOUS
      <3>2. PICK s : s = [state[t] EXCEPT !.pendingCount = left, !.ready = r] OBVIOUS
      <3>3. state' = [state EXCEPT ![t] = s] BY <1>7, <2>1, <3>1, <3>2
      <3>4. s.ready = r /\ s.readyPartitions = state[t].readyPartitions /\ s.num = state[t].num
          BY <1>1, <3>2 DEF StateRecord
      <3>5. state'[t] = s BY <3>3 DEF IInv, TypeOK
      <3> QED BY <3>1, <3>4, <3>5
    <2>2. CASE ~pending BY <1>4, <1>7, <2>2
    <2> QED BY <2>1, <2>2
  <1>10. CASE ready BY <1>7, <1>8, <1>9, <1>10, WakesOne
  <1>11. CASE ~ready
    <2>1. queue' = queue /\ (state'[t].ready <=> state[t].ready) BY <1>7, <1>9, <1>11
    <2>2. \A e \in Pods : item'[t][e] = IF e = d THEN Left(j) ELSE item[t][e] BY <1>1, <1>7 DEF IInv, TypeOK
    <2>3. Pending(t) => Pending(t)'
      <3> SUFFICES ASSUME Pending(t) PROVE Pending(t)' OBVIOUS
      <3>1. i.at = "none" BY <1>0, <1>1 DEF Pending
      <3>2. j.at = "none" BY <1>1, <1>6, <3>1 DEF ItemRecord
      <3>3. Left(j).at = "none" BY <3>2 DEF Left, NoItem
      <3> QED BY <1>0, <1>9, <2>2, <3>1, <3>3 DEF Pending
    <2> QED BY <1>8, <2>1, <2>3, WakesOne
  <1> QED BY <1>10, <1>11

\* Such a step keeps the rest of the invariant.
LEMMA ItemsWake ==
    ASSUME Refreshers = {}, WInv,
           \/ \E t \in States, d \in Pods, a \in {"body", "error", "abandon"} : Probe(t, d, a)
           \/ \E t \in States, d \in Pods : ItemStep(t, d)
    PROVE  OwnInv' /\ PendingInv' /\ ReadyInv'
  <1>0. IInv BY DEF WInv, OInv
  <1>1. Evolves /\ UNCHANGED <<reported, targetStates, proc>> BY <1>0, ItemsStep
  <1>2. Wakes BY <1>0, ProbeWakes, ProcessAnswerWakes, SuccessWakes, CancellationWakes DEF ItemStep
  <1>3. UNCHANGED <<finalizing, missed>>
      BY DEF Probe, ItemStep, ProcessAnswer, onProbingSuccess, Succeed, onProbingCancellation, env
  <1>4. \A t \in States : state'[t].uid = state[t].uid /\ state'[t].gen = state[t].gen
      BY <1>1 DEF Evolves, Advances
  <1>5. OwnInv' BY <1>1 DEF WInv, OwnInv
  <1>6. PendingInv'
    <2> SUFFICES ASSUME NEW t \in States, state'[t].uid # Nil, Held(t)' PROVE state'[t].ready \/ Pending(t)'
        BY DEF PendingInv
    <2>1. state[t].uid # Nil /\ Held(t) BY <1>1, <1>4 DEF Held
    <2>2. state[t].ready \/ Pending(t) BY <2>1 DEF WInv, PendingInv
    <2> QED BY <1>2, <2>2 DEF Wakes
  <1>7. ASSUME NEW u \in UIDs PROVE Answered(u)'
    <2> SUFFICES ASSUME targetStates[u] # Nil, state'[targetStates[u]].ready, u \notin finalizing
                 PROVE  reported[u] = state'[targetStates[u]].gen \/ Pursued(u)' \/ u \in missed
        BY <1>1, <1>3 DEF Answered
    <2>1. PICK t \in States : t = targetStates[u] BY <1>0 DEF IInv, TypeOK
    <2>2. state[t].uid = u BY <1>0, <2>1 DEF IInv, RefInv, MapInv
    <2>3. CASE state[t].ready
      <3>1. reported[u] = state[t].gen \/ Pursued(u) \/ u \in missed BY <2>1, <2>3 DEF WInv, ReadyInv, Answered
      <3>2. Pursued(u) => Pursued(u)' BY <1>1, <1>2 DEF Wakes, Pursued
      <3> QED BY <1>4, <2>1, <3>1, <3>2
    <2>4. CASE ~state[t].ready
      <3>1. u \in queue' BY <1>2, <2>1, <2>2, <2>4 DEF Wakes
      <3> QED BY <3>1 DEF Pursued
    <2> QED BY <2>3, <2>4
  <1>8. ASSUME NEW c \in Procs PROVE Queued(c)'
    <2> SUFFICES ASSUME proc[c].new # Nil, state'[proc[c].new].ready PROVE proc[c].uid \in queue'
        BY <1>1 DEF Queued
    <2>1. PICK t \in States : t = proc[c].new BY <1>0, Locals
    <2>2. state[t].uid = proc[c].uid BY <1>0, <2>1, Locals DEF ProcOK
    <2>3. CASE state[t].ready BY <1>2, <2>1, <2>3 DEF WInv, ReadyInv, Queued, Wakes
    <2>4. CASE ~state[t].ready BY <1>2, <2>1, <2>2, <2>4 DEF Wakes
    <2> QED BY <2>3, <2>4
  <1> QED BY <1>5, <1>6, <1>7, <1>8 DEF ReadyInv

--------------------------------------------------------------------------------
(* Steps of the environment *)

\* Nothing is dequeued, and pods that change enqueue every subscription.
LEMMA EnvironmentWakes ==
    ASSUME Refreshers = {}, WInv,
           \/ UNCHANGED vars
           \/ \E u \in UIDs : ChangeSpec(u) \/ DeleteChannel(u)
           \/ \E u \in UIDs, n \in NumPartitions : ChangePartitions(u, n)
           \/ \E ips \in SUBSET Pods : ChangePods(ips)
           \/ \E d \in Pods, u \in UIDs, p \in Partitions : Unclaim(d, u, p) \/ Claim(d, u, p)
           \/ Resync
    PROVE  OwnInv' /\ PendingInv' /\ ReadyInv'
  <1>0. IInv BY DEF WInv, OInv
  <1>1. UNCHANGED <<reported, targetStates, state, item, proc, missed>>
      BY DEF ChangeSpec, ChangePartitions, DeleteChannel, ChangePods, Unclaim, Claim, Resync, EnvEdit, vars
  <1>2. queue \subseteq queue' /\ finalizing \subseteq finalizing'
    <2>1. CASE \E u \in UIDs : ChangeSpec(u) BY <2>1 DEF ChangeSpec
    <2>2. CASE \E u \in UIDs, n \in NumPartitions : ChangePartitions(u, n) BY <2>2 DEF ChangePartitions
    <2>3. CASE \E u \in UIDs : DeleteChannel(u) BY <2>3 DEF DeleteChannel
    <2>4. CASE \E ips \in SUBSET Pods : ChangePods(ips) BY <2>4 DEF ChangePods
    <2>5. CASE \E d \in Pods, u \in UIDs, p \in Partitions : Unclaim(d, u, p) \/ Claim(d, u, p)
        BY <2>5 DEF Unclaim, Claim
    <2>6. CASE Resync BY <2>6 DEF Resync, env
    <2>7. CASE UNCHANGED vars BY <2>7 DEF vars, env
    <2> QED BY <2>1, <2>2, <2>3, <2>4, <2>5, <2>6, <2>7
  <1>3. OwnInv' BY <1>1 DEF WInv, OwnInv
  <1>4. PendingInv' BY <1>1 DEF WInv, PendingInv, Pending, Held
  <1>5. ASSUME NEW u \in UIDs PROVE Answered(u)'
    <2>1. Answered(u) BY DEF WInv, ReadyInv
    <2>2. Pursued(u) => Pursued(u)' BY <1>1, <1>2 DEF Pursued
    <2> QED BY <1>1, <1>2, <2>1, <2>2 DEF Answered
  <1>6. \A c \in Procs : Queued(c)' BY <1>1, <1>2 DEF WInv, ReadyInv, Queued
  <1> QED BY <1>3, <1>4, <1>5, <1>6 DEF ReadyInv

--------------------------------------------------------------------------------
(* Steps of the callers *)

\* An ejected state is no longer in use; the others are not concerned.
LEMMA EjectPending ==
    ASSUME WInv, NEW u \in UIDs, EjectState(u), UNCHANGED state,
           \A p \in Procs : proc'[p].new = proc[p].new
    PROVE  PendingInv'
  <1>0. IInv BY DEF WInv, OInv
  <1>1. \A v \in UIDs : targetStates'[v] = IF v = u THEN Nil ELSE targetStates[v]
      BY <1>0 DEF EjectState, IInv, TypeOK
  <1> SUFFICES ASSUME NEW t \in States, state[t].uid # Nil, Held(t)' PROVE state[t].ready \/ Pending(t)'
      BY DEF PendingInv
  <1>2. state[t].uid \in UIDs BY <1>0 DEF IInv, TypeOK, StateRecord
  <1>3. Held(t) /\ targetStates[u] # t
    <2>1. CASE targetStates'[state[t].uid] = t
      <3>1. state[t].uid # u BY <1>1, <2>1
      <3>2. targetStates[u] # t BY <1>0, <3>1 DEF IInv, RefInv, MapInv
      <3> QED BY <1>1, <1>2, <2>1, <3>1, <3>2 DEF Held
    <2>2. CASE \E p \in Procs : proc[p].new = t
      <3>1. targetStates[u] # t BY <2>2 DEF WInv, OwnInv
      <3> QED BY <2>2, <3>1 DEF Held
    <2> QED BY <2>1, <2>2 DEF Held
  <1>4. item'[t] = item[t]
    <2>1. CASE targetStates[u] = Nil BY <2>1 DEF EjectState
    <2>2. CASE targetStates[u] # Nil
      <3>1. item' = [item EXCEPT ![targetStates[u]] = CancelItems(item[targetStates[u]])]
          BY <2>2 DEF EjectState
      <3> QED BY <1>0, <1>3, <3>1 DEF IInv, TypeOK
    <2> QED BY <2>1, <2>2
  <1> QED BY <1>3, <1>4 DEF WInv, PendingInv, Pending

\* A caller takes a subscription off the queue: nobody else works on it.
LEMMA DequeueQueued ==
    ASSUME Refreshers = {}, WInv, NEW c \in Callers, NEW u \in UIDs, Dequeue(c, u), UNCHANGED state,
           NEW p \in Procs, proc'[p] = proc[p]
    PROVE  Queued(p)'
  <1>1. proc[p].uid # u BY DEF Dequeue, Procs
  <1>2. Queued(p) BY DEF WInv, ReadyInv
  <1> QED BY <1>1, <1>2 DEF Queued, Dequeue

\* FinalizeKind.
LEMMA FinalizeWakes ==
    ASSUME Refreshers = {}, WInv, NEW c \in Callers, NEW u \in UIDs, FinalizeKind(c, u)
    PROVE  OwnInv' /\ PendingInv' /\ ReadyInv'
  <1>0. IInv BY DEF WInv, OInv
  <1>1. /\ EjectState(u) /\ UNCHANGED <<finalizing, missed, reported, state, proc>>
        /\ Dequeue(c, u) /\ queue' = queue \ {u} /\ u \in finalizing
      BY DEF FinalizeKind, Dequeue, env
  <1>2. \A v \in UIDs : targetStates'[v] = IF v = u THEN Nil ELSE targetStates[v]
      BY <1>0, <1>1 DEF EjectState, IInv, TypeOK
  <1>3. OwnInv' BY <1>1, <1>2 DEF WInv, OwnInv
  <1>4. PendingInv' BY <1>1, EjectPending
  <1>5. ASSUME NEW v \in UIDs PROVE Answered(v)'
    <2>1. CASE v = u BY <1>1, <2>1 DEF Answered
    <2>2. CASE v # u
      <3>1. Answered(v) BY DEF WInv, ReadyInv
      <3>2. Pursued(v) => Pursued(v)' BY <1>1, <2>2 DEF Pursued
      <3>3. targetStates'[v] = targetStates[v] BY <1>2, <2>2
      <3> QED BY <1>1, <3>1, <3>2, <3>3 DEF Answered
    <2> QED BY <2>1, <2>2
  <1>6. \A p \in Procs : Queued(p)' BY <1>1, DequeueQueued
  <1> QED BY <1>3, <1>4, <1>5, <1>6 DEF ReadyInv

\* reconcileSubscribers: without targets the reconcile is missed; with them, the caller is under
\* way.
LEMMA ReconcileWakes ==
    ASSUME Refreshers = {}, WInv, NEW c \in Callers, NEW u \in UIDs, Reconcile(c, u)
    PROVE  OwnInv' /\ PendingInv' /\ ReadyInv'
  <1>0. IInv /\ CallerInv BY DEF WInv, OInv
  <1>1. /\ UNCHANGED finalizing /\ UNCHANGED <<targetStates, state, item>>
        /\ Dequeue(c, u) /\ queue' = queue \ {u} /\ u \in queue /\ c \in Procs /\ proc[c].pc = "idle"
      BY DEF Reconcile, Dequeue, env, Procs
  <1>2. CASE ListProbeTargetsFails
    <2>1. UNCHANGED proc /\ missed' = missed \cup {u} /\ reported' = [reported EXCEPT ![u] = 0]
        BY <1>2 DEF Reconcile
    <2>2. OwnInv' BY <1>1, <2>1 DEF WInv, OwnInv
    <2>3. PendingInv' BY <1>1, <2>1 DEF WInv, PendingInv, Pending, Held
    <2>4. ASSUME NEW v \in UIDs PROVE Answered(v)'
      <3>1. CASE v = u BY <2>1, <3>1 DEF Answered
      <3>2. CASE v # u
        <4>1. Answered(v) BY DEF WInv, ReadyInv
        <4>2. reported'[v] = reported[v] BY <1>0, <2>1, <3>2 DEF IInv, TypeOK
        <4>3. Pursued(v) => Pursued(v)' BY <1>1, <2>1, <3>2 DEF Pursued
        <4> QED BY <1>1, <2>1, <4>1, <4>2, <4>3 DEF Answered
      <3> QED BY <3>1, <3>2
    <2>5. \A p \in Procs : Queued(p)' BY <1>1, <2>1, DequeueQueued
    <2> QED BY <2>2, <2>3, <2>4, <2>5 DEF ReadyInv
  <1>3. CASE ~ListProbeTargetsFails
    <2>1. PICK l : l = [IdleProc EXCEPT !.pc = "lookup", !.uid = u, !.gen = gen[u], !.num = num[u],
                                 !.target = endpoints]
        OBVIOUS
    <2>2. proc' = [proc EXCEPT ![c] = l] /\ UNCHANGED reported /\ missed' = missed \ {u} BY <1>3, <2>1 DEF Reconcile
    <2>3. l.uid = u /\ l.target = endpoints /\ l.new = Nil /\ l.target # {}
        BY <1>3, <2>1 DEF IdleProc, ListProbeTargetsFails
    <2>4. proc'[c] = l /\ \A p \in Procs : p # c => proc'[p] = proc[p]
        BY <1>0, <1>1, <2>2 DEF IInv, TypeOK
    <2>5. proc[c].new = Nil /\ proc[c].uid = Nil BY <1>0, <1>1, Locals DEF ProcOK, CallerInv
    <2>6. \A p \in Procs : proc'[p].new = proc[p].new BY <2>3, <2>4, <2>5
    <2>7. \A w \in Callers : w \in Procs BY DEF Procs
    <2>8. OwnInv' BY <1>1, <2>3, <2>4, <2>6 DEF WInv, OwnInv
    <2>9. PendingInv' BY <1>1, <2>6 DEF WInv, PendingInv, Pending, Held
    <2>10. ASSUME NEW v \in UIDs PROVE Answered(v)'
      <3>1. CASE v = u BY <2>3, <2>4, <3>1 DEF Answered, Pursued
      <3>2. CASE v # u
        <4>1. Answered(v) BY DEF WInv, ReadyInv
        <4>2. Pursued(v) => Pursued(v)' BY <1>1, <2>4, <2>5, <2>7, <3>2 DEF Pursued
        <4> QED BY <1>1, <2>2, <3>2, <4>1, <4>2 DEF Answered
      <3> QED BY <3>1, <3>2
    <2>11. ASSUME NEW p \in Procs PROVE Queued(p)'
      <3>1. CASE p = c BY <2>3, <2>4, <3>1 DEF Queued
      <3>2. CASE p # c BY <1>1, <2>4, <3>2, DequeueQueued
      <3> QED BY <3>1, <3>2
    <2> QED BY <2>8, <2>9, <2>10, <2>11 DEF ReadyInv
  <1> QED BY <1>2, <1>3

\* IsReady ejects the state of its subscription, and is still under way.
LEMMA EjectWakes ==
    ASSUME Refreshers = {}, WInv, NEW c \in Callers, Eject(c)
    PROVE  OwnInv' /\ PendingInv' /\ ReadyInv'
  <1>0. IInv BY DEF WInv, OInv
  <1>1. /\ UNCHANGED <<finalizing, missed>> /\ UNCHANGED <<queue, reported, state>>
        /\ c \in Procs /\ proc[c].pc = "eject" /\ EjectState(proc[c].uid)
      BY DEF Eject, env, Procs
  <1>2. PICK u \in UIDs : u = proc[c].uid BY <1>0, <1>1, Locals DEF ProcOK
  <1>3. \A v \in UIDs : targetStates'[v] = IF v = u THEN Nil ELSE targetStates[v]
      BY <1>0, <1>1, <1>2 DEF EjectState, IInv, TypeOK
  <1>4. PICK l : l = [proc[c] EXCEPT !.pc = "probe"] OBVIOUS
  <1>5. l.uid = u /\ l.new = proc[c].new /\ l.target = proc[c].target
      BY <1>0, <1>1, <1>2, <1>4, Locals DEF ProcRecord
  <1>6. proc'[c] = l /\ \A p \in Procs : p # c => proc'[p] = proc[p]
    <2>1. proc' = [proc EXCEPT ![c] = l] BY <1>4 DEF Eject
    <2> QED BY <1>0, <1>1, <2>1 DEF IInv, TypeOK
  <1>7. \A p \in Procs : proc'[p].new = proc[p].new /\ proc'[p].uid = proc[p].uid /\ proc'[p].target = proc[p].target
      BY <1>2, <1>5, <1>6
  <1>8. \A w \in Callers : w \in Procs BY DEF Procs
  <1>9. OwnInv'
    <2>1. \A p \in Procs : proc'[p].pc \in {"lookup", "eject", "probe"} => proc[p].pc \in {"lookup", "eject", "probe"}
        BY <1>1, <1>6
    <2> QED BY <1>3, <1>7, <2>1 DEF WInv, OwnInv
  <1>10. PendingInv' BY <1>1, <1>2, <1>7, EjectPending
  <1>11. ASSUME NEW v \in UIDs PROVE Answered(v)'
    <2>1. CASE v = u BY <1>3, <2>1 DEF Answered
    <2>2. CASE v # u
      <3>1. Answered(v) BY DEF WInv, ReadyInv
      <3>2. Pursued(v) => Pursued(v)' BY <1>1, <1>7, <1>8 DEF Pursued
      <3>3. targetStates'[v] = targetStates[v] BY <1>3, <2>2
      <3> QED BY <1>1, <3>1, <3>2, <3>3 DEF Answered
    <2> QED BY <2>1, <2>2
  <1>12. \A p \in Procs : Queued(p)' BY <1>1, <1>7 DEF WInv, ReadyInv, Queued
  <1> QED BY <1>9, <1>10, <1>11, <1>12 DEF ReadyInv

\* IsReady answers from a state that is not outdated: a ready state is reported.
LEMMA LookupWakes ==
    ASSUME Refreshers = {}, WInv, NEW c \in Callers, Lookup(c)
    PROVE  OwnInv' /\ PendingInv' /\ ReadyInv'
  <1>0. IInv BY DEF WInv, OInv
  <1>1. /\ UNCHANGED <<finalizing, missed>> /\ UNCHANGED <<queue, targetStates, item>>
        /\ c \in Procs /\ proc[c].pc = "lookup"
      BY DEF Lookup, env, Procs
  <1>2. PICK u \in UIDs : u = proc[c].uid BY <1>0, <1>1, Locals DEF ProcOK
  <1>3. proc[c].new = Nil /\ proc[c] \in ProcRecord BY <1>0, <1>1, Locals DEF ProcOK
  <1>4. PICK t : t = targetStates[u] OBVIOUS
  <1>5. \A w \in Callers : w \in Procs BY DEF Procs
  <1>6. CASE t # Nil /\ ~isOutdatedTargetState(state[t], proc[c].gen, proc[c].target)
    <2>1. t \in States /\ state[t] \in StateRecord BY <1>0, <1>4, <1>6 DEF IInv, TypeOK
    <2>2. PICK r \in BOOLEAN : r = checkReadiness(state[t]) BY DEF checkReadiness
    <2>3. /\ state' = [state EXCEPT ![t] = [state[t] EXCEPT !.ready = r]]
          /\ reported' = [reported EXCEPT ![u] = IF r THEN proc[c].gen ELSE 0]
          /\ proc' = [proc EXCEPT ![c] = IdleProc]
        BY <1>2, <1>4, <1>6, <2>2 DEF Lookup
    <2>4. PICK s : s = [state[t] EXCEPT !.ready = r] OBVIOUS
    <2>5. /\ s.uid = state[t].uid /\ s.gen = state[t].gen /\ s.ready = r
          /\ s.readyPartitions = state[t].readyPartitions /\ s.num = state[t].num
        BY <2>1, <2>4 DEF StateRecord
    <2>6. state'[t] = s /\ \A x \in States : x # t => state'[x] = state[x]
        BY <1>0, <2>1, <2>3, <2>4 DEF IInv, TypeOK
    <2>7. proc'[c] = IdleProc /\ \A p \in Procs : p # c => proc'[p] = proc[p]
        BY <1>0, <1>1, <2>3 DEF IInv, TypeOK
    <2>8. IdleProc.pc = "idle" /\ IdleProc.new = Nil /\ IdleProc.uid = Nil BY <1>0, Locals
    <2>9. \A p \in Procs : proc'[p].new = proc[p].new BY <1>3, <2>7, <2>8
    <2>10. OwnInv' BY <1>1, <2>7, <2>8, <2>9 DEF WInv, OwnInv
    <2>11. PendingInv'
      <3> SUFFICES ASSUME NEW x \in States, state'[x].uid # Nil, Held(x)' PROVE state'[x].ready \/ Pending(x)'
          BY DEF PendingInv
      <3>1. /\ state'[x].uid = state[x].uid /\ state'[x].readyPartitions = state[x].readyPartitions
            /\ state'[x].num = state[x].num /\ (state[x].ready => state'[x].ready)
          BY <2>2, <2>5, <2>6 DEF checkReadiness
      <3>2. Held(x) BY <1>1, <2>9, <3>1 DEF Held
      <3>3. state[x].ready \/ Pending(x) BY <3>1, <3>2 DEF WInv, PendingInv
      <3> QED BY <1>1, <3>1, <3>3 DEF Pending
    <2>12. ASSUME NEW v \in UIDs PROVE Answered(v)'
      <3>1. CASE v = u
        <4>1. r => reported'[u] = state'[t].gen
          <5>1. state[t].gen = proc[c].gen BY <1>6 DEF isOutdatedTargetState
          <5> QED BY <1>0, <2>3, <2>5, <2>6, <5>1 DEF IInv, TypeOK
        <4>2. state'[t].ready => r BY <2>5, <2>6
        <4> QED BY <1>1, <1>4, <3>1, <4>1, <4>2 DEF Answered
      <3>2. CASE v # u
        <4>1. targetStates[v] # t BY <1>0, <1>4, <1>6, <3>2 DEF IInv, RefInv, MapInv
        <4>2. targetStates[v] # Nil => state'[targetStates[v]] = state[targetStates[v]]
            BY <1>0, <2>6, <4>1 DEF IInv, TypeOK
        <4>3. reported'[v] = reported[v] BY <1>0, <2>3, <3>2 DEF IInv, TypeOK
        <4>4. Pursued(v) => Pursued(v)' BY <1>1, <1>2, <1>5, <2>7, <3>2 DEF Pursued
        <4>5. Answered(v) BY DEF WInv, ReadyInv
        <4> QED BY <1>1, <4>2, <4>3, <4>4, <4>5 DEF Answered
      <3> QED BY <3>1, <3>2
    <2>13. ASSUME NEW p \in Procs PROVE Queued(p)'
      <3>1. CASE p = c BY <2>7, <2>8, <3>1 DEF Queued
      <3>2. CASE p # c
        <4>1. proc[p].new # t \/ proc[p].new = Nil BY <1>4 DEF WInv, OwnInv
        <4>2. proc[p].new # Nil => state'[proc[p].new] = state[proc[p].new]
            BY <1>0, <2>6, <4>1, Locals
        <4>3. Queued(p) BY DEF WInv, ReadyInv
        <4> QED BY <1>1, <2>7, <3>2, <4>2, <4>3 DEF Queued
      <3> QED BY <3>1, <3>2
    <2> QED BY <2>10, <2>11, <2>12, <2>13 DEF ReadyInv
  <1>7. CASE ~(t # Nil /\ ~isOutdatedTargetState(state[t], proc[c].gen, proc[c].target))
    <2>1. PICK pc \in {"probe", "eject"} : proc' = [proc EXCEPT ![c].pc = pc]
        BY <1>2, <1>4, <1>7 DEF Lookup
    <2>2. UNCHANGED <<state, reported>> BY <1>2, <1>4, <1>7 DEF Lookup
    <2>3. PICK l : l = [proc[c] EXCEPT !.pc = pc] OBVIOUS
    <2>4. l.new = Nil /\ l.uid = proc[c].uid /\ l.target = proc[c].target
        BY <1>3, <2>3 DEF ProcRecord
    <2>5. proc'[c] = l /\ \A p \in Procs : p # c => proc'[p] = proc[p]
        BY <1>0, <1>1, <2>1, <2>3 DEF IInv, TypeOK
    <2>6. \A p \in Procs : proc'[p].new = proc[p].new /\ proc'[p].uid = proc[p].uid /\ proc'[p].target = proc[p].target
        BY <1>3, <2>4, <2>5
    <2>7. \A p \in Procs : proc'[p].pc \in {"lookup", "eject", "probe"} => proc[p].pc \in {"lookup", "eject", "probe"}
        BY <1>1, <2>5
    <2>8. OwnInv' BY <1>1, <2>6, <2>7 DEF WInv, OwnInv
    <2>9. PendingInv' BY <1>1, <2>2, <2>6 DEF WInv, PendingInv, Pending, Held
    <2>10. \A v \in UIDs : Answered(v)' BY <1>1, <1>5, <2>2, <2>6 DEF WInv, ReadyInv, Answered, Pursued
    <2>11. \A p \in Procs : Queued(p)' BY <1>1, <2>2, <2>6 DEF WInv, ReadyInv, Queued
    <2> QED BY <2>8, <2>9, <2>10, <2>11 DEF ReadyInv
  <1> QED BY <1>6, <1>7

\* probeTarget: a new state is pending, since there are pods to probe.
LEMMA ProbeTargetWakes ==
    ASSUME Refreshers = {}, WInv, NEW c \in Callers, NEW t \in States, ProbeTarget(c, t)
    PROVE  OwnInv' /\ PendingInv' /\ ReadyInv'
  <1>0. IInv BY DEF WInv, OInv
  <1>1. /\ UNCHANGED <<finalizing, missed>> /\ UNCHANGED <<queue, reported, targetStates>>
        /\ c \in Procs /\ proc[c].pc = "probe" /\ Unreferenced(t)
      BY DEF ProbeTarget, env, Procs
  <1>2. PICK u \in UIDs : u = proc[c].uid BY <1>0, <1>1, Locals DEF ProcOK
  <1>3. proc[c].new = Nil /\ proc[c] \in ProcRecord /\ proc[c].target # {} /\ proc[c].target \subseteq Pods
      BY <1>0, <1>1, Locals DEF ProcOK, WInv, OwnInv
  <1>4. PICK l : l = [proc[c] EXCEPT !.pc = "store", !.new = t] OBVIOUS
  <1>5. l.pc = "store" /\ l.new = t /\ l.uid = u BY <1>2, <1>3, <1>4 DEF ProcRecord
  <1>6. proc'[c] = l /\ \A p \in Procs : p # c => proc'[p] = proc[p]
    <2>1. proc' = [proc EXCEPT ![c] = l] BY <1>4 DEF ProbeTarget
    <2> QED BY <1>0, <1>1, <2>1 DEF IInv, TypeOK
  <1>7. PICK s : s = [NoState EXCEPT !.uid = proc[c].uid, !.gen = proc[c].gen, !.num = proc[c].num,
                                     !.probedPods = proc[c].target,
                                     !.pendingCount = Cardinality(proc[c].target)]
      OBVIOUS
  <1>8. s.uid = u /\ s.ready = FALSE BY <1>2, <1>7 DEF NoState
  <1>9. /\ state'[t] = s /\ item'[t] = [d \in Pods |-> IF d \in proc[c].target THEN NewItem ELSE NoItem]
        /\ \A x \in States : x # t => state'[x] = state[x] /\ item'[x] = item[x]
      BY <1>0, <1>7 DEF ProbeTarget, IInv, TypeOK
  <1>10. \A w \in Callers : w \in Procs BY DEF Procs
  <1>11. /\ \A v \in UIDs : targetStates[v] # t
         /\ \A p \in Procs : proc[p].new # t
      BY <1>1 DEF Unreferenced
  <1>12. OwnInv' BY <1>1, <1>5, <1>6, <1>11 DEF WInv, OwnInv
  <1>13. PendingInv'
    <2> SUFFICES ASSUME NEW x \in States, state'[x].uid # Nil, Held(x)' PROVE state'[x].ready \/ Pending(x)'
        BY DEF PendingInv
    <2>1. CASE x = t
      <3>1. \A d \in Pods : item'[x][d] = IF d \in proc[c].target THEN NewItem ELSE NoItem BY <1>9, <2>1
      <3>2. PICK d \in Pods : d \in proc[c].target BY <1>3
      <3>3. item'[x][d].at # "none" BY <3>1, <3>2 DEF NewItem
      <3>4. \A e \in Pods : item'[x][e].at # "none" => item'[x][e].count = 1 /\ ~item'[x][e].done
          BY <3>1 DEF NewItem, NoItem
      <3> QED BY <3>3, <3>4 DEF Pending
    <2>2. CASE x # t
      <3>1. state'[x] = state[x] /\ item'[x] = item[x] BY <1>9, <2>2
      <3>2. Held(x) BY <1>1, <1>5, <1>6, <2>2, <3>1 DEF Held
      <3> QED BY <3>1, <3>2 DEF WInv, PendingInv, Pending
    <2> QED BY <2>1, <2>2
  <1>14. ASSUME NEW v \in UIDs PROVE Answered(v)'
    <2>1. targetStates[v] # Nil => state'[targetStates[v]] = state[targetStates[v]]
        BY <1>0, <1>9, <1>11 DEF IInv, TypeOK
    <2>2. Pursued(v) => Pursued(v)' BY <1>1, <1>2, <1>5, <1>6, <1>10 DEF Pursued
    <2>3. Answered(v) BY DEF WInv, ReadyInv
    <2> QED BY <1>1, <2>1, <2>2, <2>3 DEF Answered
  <1>15. ASSUME NEW p \in Procs PROVE Queued(p)'
    <2>1. CASE p = c BY <1>5, <1>6, <1>8, <1>9, <2>1 DEF Queued
    <2>2. CASE p # c
      <3>1. proc[p].new # Nil => state'[proc[p].new] = state[proc[p].new] BY <1>0, <1>9, <1>11, Locals
      <3>2. Queued(p) BY DEF WInv, ReadyInv
      <3> QED BY <1>1, <1>6, <2>2, <3>1, <3>2 DEF Queued
    <2> QED BY <2>1, <2>2
  <1> QED BY <1>12, <1>13, <1>14, <1>15 DEF ReadyInv

\* The state is stored: if its probes have ended meanwhile, its subscription is queued.
LEMMA StoreWakes ==
    ASSUME Refreshers = {}, WInv, NEW c \in Callers, StoreState(c)
    PROVE  OwnInv' /\ PendingInv' /\ ReadyInv'
  <1>0. IInv BY DEF WInv, OInv
  <1>1. /\ UNCHANGED <<finalizing, missed>> /\ UNCHANGED <<queue, state, item>>
        /\ c \in Procs /\ proc[c].pc = "store"
      BY DEF StoreState, env, Procs
  <1>2. PICK u \in UIDs : u = proc[c].uid BY <1>0, <1>1, Locals DEF ProcOK
  <1>3. PICK t \in States : t = proc[c].new BY <1>0, <1>1, Locals DEF ProcOK
  <1>4. state[t].uid = u BY <1>0, <1>1, <1>2, <1>3, Locals DEF ProcOK
  <1>5. /\ targetStates' = [targetStates EXCEPT ![u] = t] /\ proc' = [proc EXCEPT ![c] = IdleProc]
        /\ reported' = [reported EXCEPT ![u] = 0]
      BY <1>2, <1>3 DEF StoreState
  <1>6. /\ proc'[c] = IdleProc /\ \A w \in Procs : w # c => proc'[w] = proc[w]
        /\ \A v \in UIDs : targetStates'[v] = IF v = u THEN t ELSE targetStates[v]
      BY <1>0, <1>1, <1>5 DEF IInv, TypeOK
  <1>7. IdleProc.pc = "idle" /\ IdleProc.new = Nil /\ IdleProc.uid = Nil BY <1>0, Locals
  <1>8. \A w \in Callers : w \in Procs BY DEF Procs
  <1>9. OwnInv'
    <2>1. \A p \in Procs : p # c /\ proc[p].new # Nil => proc[p].new # t BY <1>1, <1>3 DEF WInv, OwnInv
    <2>2. \A p \in Procs, v \in UIDs : proc'[p].new # Nil => targetStates'[v] # proc'[p].new
        BY <1>6, <1>7, <2>1 DEF WInv, OwnInv
    <2> QED BY <1>6, <1>7, <2>2 DEF WInv, OwnInv
  <1>10. PendingInv'
    <2> SUFFICES ASSUME NEW x \in States, state[x].uid # Nil, Held(x)' PROVE state[x].ready \/ Pending(x)
        BY <1>1 DEF PendingInv, Pending
    <2>1. Held(x)
      <3>1. CASE x = t BY <1>1, <1>3, <3>1 DEF Held
      <3>2. CASE x # t
        <4>1. state[x].uid \in UIDs BY <1>0 DEF IInv, TypeOK, StateRecord
        <4>2. CASE targetStates'[state[x].uid] = x BY <1>6, <3>2, <4>1, <4>2 DEF Held
        <4>3. CASE \E p \in Procs : proc'[p].new = x
          <5>1. PICK p \in Procs : proc'[p].new = x BY <4>3
          <5> QED BY <1>6, <1>7, <5>1 DEF Held
        <4> QED BY <1>1, <4>2, <4>3 DEF Held
      <3> QED BY <3>1, <3>2
    <2> QED BY <2>1 DEF WInv, PendingInv
  <1>11. ASSUME NEW v \in UIDs PROVE Answered(v)'
    <2>1. CASE v = u
      <3>1. state[t].ready => u \in queue BY <1>1, <1>2, <1>3 DEF WInv, ReadyInv, Queued
      <3> QED BY <1>1, <1>6, <2>1, <3>1 DEF Answered, Pursued
    <2>2. CASE v # u
      <3>1. targetStates'[v] = targetStates[v] BY <1>6, <2>2
      <3>2. reported'[v] = reported[v] BY <1>0, <1>5, <2>2 DEF IInv, TypeOK
      <3>3. Pursued(v) => Pursued(v)' BY <1>1, <1>2, <1>6, <1>8, <2>2 DEF Pursued
      <3>4. Answered(v) BY DEF WInv, ReadyInv
      <3> QED BY <1>1, <3>1, <3>2, <3>3, <3>4 DEF Answered
    <2> QED BY <2>1, <2>2
  <1>12. \A p \in Procs : Queued(p)' BY <1>1, <1>6, <1>7 DEF WInv, ReadyInv, Queued
  <1> QED BY <1>9, <1>10, <1>11, <1>12 DEF ReadyInv

--------------------------------------------------------------------------------
(* No wake-up is lost *)

\* Nothing is known at first.
LEMMA InitWInv == ASSUME Init PROVE WInv
  <1>1. OInv BY InitOInv
  <1>2. \A t \in States : state[t].uid = Nil /\ state[t].ready = FALSE BY DEF Init, NoState
  <1>3. \A p \in Procs : proc[p].pc = "idle" /\ proc[p].uid = Nil /\ proc[p].new = Nil BY DEF Init, IdleProc
  <1>4. \A c \in Callers : c \in Procs BY DEF Procs
  <1>5. OwnInv BY <1>3 DEF OwnInv
  <1>6. PendingInv BY <1>2 DEF PendingInv
  <1>7. ReadyInv BY <1>3 DEF ReadyInv, Answered, Queued, Init
  <1> QED BY <1>1, <1>5, <1>6, <1>7 DEF WInv

\* Every step keeps WInv.
LEMMA NextWInv ==
    ASSUME Refreshers = {}, "cancelPod" \notin Faults, WInv, [Next]_vars
    PROVE  WInv'
  <1>0. OInv' BY NextOInv DEF WInv
  <1> DEFINE Rest == OwnInv /\ PendingInv /\ ReadyInv
  <1>1. \A d \in Pods : ~CancelPodProbing(d) BY DEF CancelPodProbing
  <1>2. CASE UNCHANGED vars \/ Environment \/ DispatcherStep
    <2>1. Rest' BY <1>1, <1>2, EnvironmentWakes DEF Environment, DispatcherStep
    <2> QED BY <1>0, <2>1 DEF WInv
  <1>3. CASE \E c \in Callers : CallerStep(c)
    <2>1. PICK c \in Callers : CallerStep(c) BY <1>3
    <2>2. Rest'
      <3>1. CASE \E u \in UIDs : Reconcile(c, u) BY <3>1, ReconcileWakes
      <3>2. CASE \E u \in UIDs : FinalizeKind(c, u) BY <3>2, FinalizeWakes
      <3>3. CASE Lookup(c) \/ Eject(c) BY <3>3, LookupWakes, EjectWakes
      <3>4. CASE ProcStep(c) BY <3>4, StoreWakes, ProbeTargetWakes DEF ProcStep
      <3> QED BY <2>1, <3>1, <3>2, <3>3, <3>4 DEF CallerStep
    <2> QED BY <1>0, <2>2 DEF WInv
  <1>4. CASE \/ \E t \in States, d \in Pods, a \in {"body", "error", "abandon"} : Probe(t, d, a)
             \/ \E t \in States, d \in Pods : ItemStep(t, d)
    <2>1. Rest' BY <1>4, ItemsWake
    <2> QED BY <1>0, <2>1 DEF WInv
  <1> QED BY <1>2, <1>3, <1>4 DEF Next

\* NoLostReadiness: whatever the order of probes, callbacks, lookups, ejections and stores, and
\* whatever probes fail, a state whose probing has ended with all partitions found has been
\* reported, or the controller will look at it once more, unless its last look found no pod.
\* The controller never calls CancelPodProbing, and its filter for pods, which would lead to
\* RefreshPodProbing, matches none of the dispatcher's.
THEOREM NoLostWakeup ==
    ASSUME Refreshers = {}, "cancelPod" \notin Faults
    PROVE  Spec => []NoLostReadiness
  <1>1. WInv => NoLostReadiness
    <2> SUFFICES ASSUME WInv, NEW u \in UIDs, targetStates[u] # Nil, ~Probing(targetStates[u]),
                        u \notin finalizing,
                        Cardinality(state[targetStates[u]].readyPartitions) = state[targetStates[u]].num
                 PROVE  reported[u] = state[targetStates[u]].gen \/ Pursued(u) \/ u \in missed
        BY DEF NoLostReadiness
    <2>1. PICK t \in States : t = targetStates[u] BY DEF WInv, OInv, IInv, TypeOK
    <2>2. state[t].uid = u BY <2>1 DEF WInv, OInv, IInv, RefInv, MapInv
    <2>3. state[t].ready \/ Pending(t) BY <2>1, <2>2 DEF WInv, PendingInv, Held
    <2>4. ~Pending(t) BY <2>1 DEF Pending, Probing
    <2> QED BY <2>1, <2>3, <2>4 DEF WInv, ReadyInv, Answered
  <1>2. Init => WInv BY InitWInv
  <1>3. WInv /\ [Next]_vars => WInv' BY NextWInv
  <1> QED BY <1>1, <1>2, <1>3, PTL DEF Spec
================================================================================
