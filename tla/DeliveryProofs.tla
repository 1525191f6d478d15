----------------------------- MODULE DeliveryProofs -----------------------------
(***************************************************************************)
(* Proofs about Delivery for any number of pods, channels, subscriptions    *)
(* and partitions, any sinks, and any number of events and faults.          *)
(***************************************************************************)
EXTENDS Delivery, TLAPS

\* Sinks that never make DispatchMessageWithRetries return an error.
Reliable(u) ==
    \/ spec[u]["deadLetter"] = "up"
    \/ \A sink \in Sinks : spec[u][sink] \in {"none", "up"}

\* Where the loop of a claim stands: within its log, at a sink that is set, and with the
\* outcome of Handle justified by what the sinks have answered.
PosOK(d, u, p) ==
    LET cl == claim[d][u][p] IN
    /\ cl.pos <= Len(log[p]) /\ cl.marked <= cl.pos
    /\ cl.stage # "idle" => cl.open /\ cl.pos < Len(log[p])
    /\ cl.stage \in Sinks => spec[u][cl.stage] # "none"
    /\ cl.stage = "delivered" => Settled(u, p, cl.pos)
    /\ (cl.stage = "failed" /\ Reliable(u)) => log[p][cl.pos + 1] = Foreign

\* What a claim has marked follows a delivery, and all since then was handled.
MarkedOK(d, u, p) ==
    LET cl == claim[d][u][p] IN
    /\ cl.marked > 0 => Settled(u, p, cl.marked - 1)
    /\ cl.marked # NoOffset => \A i \in cl.marked..(cl.pos - 1) : i \in handled[u][p]

\* The current owner commits forward, over handled messages.
OwnerOK(d, u, p) ==
    LET cl == claim[d][u][p] IN
    (owner[u][p] = d /\ cl.open) =>
        /\ committed[u][p] <= cl.marked
        /\ committed[u][p] # NoOffset =>
              \A i \in committed[u][p]..(cl.pos - 1) : i \in handled[u][p]

ClaimInv == \A d \in Pods, u \in UIDs, p \in Partitions :
                PosOK(d, u, p) /\ MarkedOK(d, u, p) /\ OwnerOK(d, u, p)

\* Offsets lie within the log.
LogInv == \A u \in UIDs, p \in Partitions :
    /\ committed[u][p] <= Len(log[p])
    /\ \A i \in handled[u][p] : i < Len(log[p])

IInv == TypeOK /\ LogInv /\ ClaimInv /\ ResumesAfterDelivery /\ ReliableSinksLoseNothing

\* A step replaces one claim.
Replaced(d, u, p, new) == claim' = [claim EXCEPT ![d][u][p] = new]

USE DeliveryAssumption DEF Offsets, NoOffset

--------------------------------------------------------------------------------
(* Types *)

\* The claims that Init, SessionStart and SessionEnd store.
LEMMA ClaimTypes ==
    /\ NoClaim \in ClaimRecord
    /\ \A u \in UIDs, p \in Partitions : TypeOK /\ LogInv => NextOffset(u, p) \in Offsets
BY DEF NoClaim, ClaimRecord, Stages, TypeOK, LogInv, NextOffset

\* One claim is replaced.
LEMMA ClaimUpdate ==
    ASSUME TypeOK, NEW d \in Pods, NEW u \in UIDs, NEW p \in Partitions,
           NEW new \in ClaimRecord, Replaced(d, u, p, new)
    PROVE  /\ claim' \in [Pods -> [UIDs -> [Partitions -> ClaimRecord]]]
           /\ claim'[d][u][p] = new
           /\ \A e \in Pods, v \in UIDs, q \in Partitions :
                 <<e, v, q>> # <<d, u, p>> => claim'[e][v][q] = claim[e][v][q]
BY DEF TypeOK, Replaced

\* Init gives every variable its type.
LEMMA InitType == Init => TypeOK
BY ClaimTypes DEF Init, TypeOK, Answers, Sinks

--------------------------------------------------------------------------------
(* What a step leaves alone *)

\* Answers are never taken back, so a settled event stays settled.
LEMMA SettledStays ==
    ASSUME NEW u \in UIDs, NEW p \in Partitions, NEW i, spec' = spec,
           got[u][p] \subseteq got'[u][p], Settled(u, p, i)
    PROVE  Settled(u, p, i)'
BY DEF Settled

\* A claim that a step does not touch stays as good as it was.
LEMMA OtherClaim ==
    ASSUME IInv, NEW d \in Pods, NEW u \in UIDs, NEW p \in Partitions,
           spec' = spec, log' = log, claim'[d][u][p] = claim[d][u][p],
           got[u][p] \subseteq got'[u][p], handled[u][p] \subseteq handled'[u][p],
           owner'[u][p] = d => owner[u][p] = d /\ committed'[u][p] = committed[u][p]
    PROVE  PosOK(d, u, p)' /\ MarkedOK(d, u, p)' /\ OwnerOK(d, u, p)'
<1> DEFINE cl == claim[d][u][p]
<1>1. PosOK(d, u, p) /\ MarkedOK(d, u, p) /\ OwnerOK(d, u, p)
  BY DEF IInv, ClaimInv
<1>2. \A i : Settled(u, p, i) => Settled(u, p, i)'
  BY SettledStays
<1>3. Reliable(u)' <=> Reliable(u)
  BY DEF Reliable
<1>4. PosOK(d, u, p)'
  BY <1>1, <1>2, <1>3 DEF PosOK
<1>5. MarkedOK(d, u, p)'
  BY <1>1, <1>2 DEF MarkedOK
<1>6. OwnerOK(d, u, p)'
  BY <1>1 DEF OwnerOK
<1> QED BY <1>4, <1>5, <1>6

\* A step that replaces one claim, and hands out or commits nothing for another one, only
\* has to keep that claim in order.
LEMMA OneClaim ==
    ASSUME IInv, NEW d \in Pods, NEW u \in UIDs, NEW p \in Partitions, NEW new \in ClaimRecord,
           spec' = spec, log' = log, Replaced(d, u, p, new),
           \A v \in UIDs, q \in Partitions :
              got[v][q] \subseteq got'[v][q] /\ handled[v][q] \subseteq handled'[v][q],
           \A e \in Pods, v \in UIDs, q \in Partitions :
              (owner'[v][q] = e /\ <<e, v, q>> # <<d, u, p>>)
                 => owner[v][q] = e /\ committed'[v][q] = committed[v][q],
           PosOK(d, u, p)', MarkedOK(d, u, p)', OwnerOK(d, u, p)'
    PROVE  ClaimInv'
<1> SUFFICES ASSUME NEW e \in Pods, NEW v \in UIDs, NEW q \in Partitions
             PROVE  PosOK(e, v, q)' /\ MarkedOK(e, v, q)' /\ OwnerOK(e, v, q)'
  BY DEF ClaimInv
<1>1. CASE <<e, v, q>> = <<d, u, p>>
  BY <1>1
<1>2. CASE <<e, v, q>> # <<d, u, p>>
  <2>1. claim'[e][v][q] = claim[e][v][q]
    BY <1>2, ClaimUpdate DEF IInv
  <2> QED BY <1>2, <2>1, OtherClaim
<1> QED BY <1>1, <1>2

\* What is committed, and what was handled, stays justified while neither changes.
LEMMA SameOffsets ==
    ASSUME IInv, spec' = spec, log' = log, committed' = committed, handled' = handled,
           \A u \in UIDs, p \in Partitions : got[u][p] \subseteq got'[u][p]
    PROVE  LogInv' /\ ResumesAfterDelivery' /\ ReliableSinksLoseNothing'
<1>1. \A u \in UIDs, p \in Partitions : \A i : Settled(u, p, i) => Settled(u, p, i)'
  BY SettledStays
<1>2. ResumesAfterDelivery'
  BY <1>1 DEF IInv, ResumesAfterDelivery
<1>3. ReliableSinksLoseNothing'
  BY <1>1 DEF IInv, ReliableSinksLoseNothing
<1> QED BY <1>2, <1>3 DEF IInv, LogInv

--------------------------------------------------------------------------------
(* One lemma per action *)

\* A record is appended; what was there keeps its offset.
LEMMA WriteStep ==
    ASSUME IInv, NEW p \in Partitions, NEW record \in Channels \cup {Foreign}, Write(p, record)
    PROVE  IInv'
<1>1. /\ log' \in [Partitions -> Seq(Channels \cup {Foreign})]
      /\ \A q \in Partitions : Len(log'[q]) <= MaxEvents
  BY DEF Write, IInv, TypeOK
<1>2. TypeOK'
  BY <1>1 DEF Write, IInv, TypeOK, pods
<1>3. \A q \in Partitions :
        /\ Len(log[q]) <= Len(log'[q])
        /\ \A i \in Offsets : i < Len(log[q]) => log'[q][i + 1] = log[q][i + 1]
  BY DEF Write, IInv, TypeOK
<1>4. LogInv'
  BY <1>3 DEF Write, IInv, TypeOK, LogInv
<1>5. \A u \in UIDs, q \in Partitions : \A i : Settled(u, q, i)' <=> Settled(u, q, i)
  BY DEF Write, Settled
<1>6. ClaimInv'
  <2> SUFFICES ASSUME NEW d \in Pods, NEW u \in UIDs, NEW q \in Partitions
               PROVE  PosOK(d, u, q)' /\ MarkedOK(d, u, q)' /\ OwnerOK(d, u, q)'
    BY DEF ClaimInv
  <2>1. PosOK(d, u, q) /\ MarkedOK(d, u, q) /\ OwnerOK(d, u, q)
    BY DEF IInv, ClaimInv
  <2>2. claim[d][u][q] \in ClaimRecord /\ Len(log[q]) \in Nat /\ Len(log'[q]) \in Nat
    BY <1>2 DEF IInv, TypeOK
  <2>3. PosOK(d, u, q)'
    <3>1. claim' = claim /\ spec' = spec /\ (Reliable(u)' <=> Reliable(u))
      BY DEF Write, Reliable
    <3>2. claim[d][u][q].pos \in Offsets
      BY <2>2 DEF ClaimRecord
    <3>3. claim[d][u][q].pos <= Len(log'[q])
      BY <1>3, <2>1, <2>2, <3>2 DEF PosOK
    <3>4. claim[d][u][q].pos < Len(log[q]) =>
            /\ claim[d][u][q].pos < Len(log'[q])
            /\ log'[q][claim[d][u][q].pos + 1] = log[q][claim[d][u][q].pos + 1]
      <4> DEFINE i == claim[d][u][q].pos
                 before == Len(log[q])
                 after == Len(log'[q])
      <4>1. i \in Int /\ before \in Int /\ after \in Int
        BY <2>2, <3>2 DEF Offsets
      <4>2. before <= after
        BY <1>3
      <4>3. i < before => log'[q][i + 1] = log[q][i + 1]
        <5> HIDE DEF i
        <5>1. i \in Offsets
          BY <3>2 DEF i
        <5> QED BY <1>3, <5>1, Zenon
      <4>4. i < before => i < after
        <5> HIDE DEF i, before, after
        <5> QED BY <4>1, <4>2
      <4> QED BY <4>3, <4>4, Zenon
    <3> QED BY <1>5, <2>1, <3>1, <3>3, <3>4 DEF PosOK
  <2>4. MarkedOK(d, u, q)' /\ OwnerOK(d, u, q)'
    BY <1>5, <2>1 DEF Write, MarkedOK, OwnerOK
  <2> QED BY <2>3, <2>4
<1>7. ResumesAfterDelivery'
  BY <1>5 DEF Write, IInv, ResumesAfterDelivery
<1>8. ReliableSinksLoseNothing'
  <2>1. \A u \in UIDs, q \in Partitions : \A i \in handled[u][q] : i \in Offsets /\ i < Len(log[q])
    BY DEF IInv, TypeOK, LogInv
  <2> QED BY <1>3, <1>5, <2>1 DEF Write, IInv, ReliableSinksLoseNothing
<1> QED BY <1>2, <1>4, <1>6, <1>7, <1>8 DEF IInv

\* Steps of the pods' queues and of the elections.
LEMMA PodStep ==
    ASSUME IInv, NEW d \in Pods, (\E c \in Channels : Sync(d, c)) \/ Promote(d)
    PROVE  IInv'
<1>1. UNCHANGED <<spec, log, claim, owner, committed, handled, got>>
  BY DEF Sync, Promote
<1>2. TypeOK'
  <2>1. CASE \E c \in Channels : Sync(d, c)
    <3>1. PICK c \in Channels : Sync(d, c)
      BY <2>1
    <3>2. /\ queue' \in [Pods -> SUBSET Channels] /\ hosts' \in [Pods -> SUBSET Channels]
          /\ joined' \in [Pods -> SUBSET UIDs] /\ faults' = faults
      BY <3>1 DEF Sync, IInv, TypeOK
    <3> QED BY <1>1, <3>2 DEF IInv, TypeOK
  <2>2. CASE Promote(d)
    <3>1. /\ queue' \in [Pods -> SUBSET Channels] /\ hosts' = hosts /\ joined' = joined
          /\ faults' \in 0..MaxFaults
      BY <2>2 DEF Promote, Fault, IInv, TypeOK
    <3> QED BY <1>1, <3>1 DEF IInv, TypeOK
  <2> QED BY <2>1, <2>2
<1>3. ClaimInv'
  BY <1>1, OtherClaim DEF ClaimInv
<1> QED BY <1>1, <1>2, <1>3, SameOffsets DEF IInv

\* A crash forgets the claims of a pod, and nothing the broker knows.
LEMMA CrashStep == ASSUME IInv, NEW d \in Pods, Crash(d) PROVE IInv'
<1> DEFINE none == [u \in UIDs |-> [p \in Partitions |-> NoClaim]]
<1>1. none \in [UIDs -> [Partitions -> ClaimRecord]]
  BY ClaimTypes
<1>2. claim' = [claim EXCEPT ![d] = none]
  BY DEF Crash
<1>3. TypeOK'
  <2>1. claim' \in [Pods -> [UIDs -> [Partitions -> ClaimRecord]]]
    BY <1>1, <1>2 DEF IInv, TypeOK
  <2> QED BY <2>1 DEF Crash, Fault, IInv, TypeOK
<1>4. ClaimInv'
  <2> SUFFICES ASSUME NEW e \in Pods, NEW u \in UIDs, NEW p \in Partitions
               PROVE  PosOK(e, u, p)' /\ MarkedOK(e, u, p)' /\ OwnerOK(e, u, p)'
    BY DEF ClaimInv
  <2>1. CASE e = d
    <3>1. claim'[e][u][p] = NoClaim
      BY <1>2, <2>1 DEF IInv, TypeOK
    <3>2. Len(log'[p]) \in Nat
      BY <1>3 DEF TypeOK
    <3> QED BY <3>1, <3>2 DEF PosOK, MarkedOK, OwnerOK, NoClaim, Sinks
  <2>2. CASE e # d
    <3>1. claim'[e][u][p] = claim[e][u][p]
      BY <1>2, <2>2 DEF IInv, TypeOK
    <3> QED BY <3>1, OtherClaim DEF Crash
  <2> QED BY <2>1, <2>2
<1> QED BY <1>3, <1>4, SameOffsets DEF IInv, Crash

\* A claim starts at the committed offset, or behind the last record.
LEMMA SessionStartStep ==
    ASSUME IInv, NEW d \in Pods, NEW u \in UIDs, NEW p \in Partitions, SessionStart(d, u, p)
    PROVE  IInv'
<1> DEFINE new == [open |-> TRUE, pos |-> NextOffset(u, p), marked |-> committed[u][p],
                   stage |-> "idle"]
<1>1. NextOffset(u, p) \in Offsets /\ committed[u][p] \in Offsets \cup {NoOffset}
      /\ Len(log[p]) \in Nat
  <2>1. TypeOK /\ LogInv
    BY DEF IInv
  <2>2. NextOffset(u, p) \in Offsets
    BY <2>1, ClaimTypes
  <2> QED BY <2>1, <2>2 DEF TypeOK
<1>2. new \in ClaimRecord
  BY <1>1 DEF ClaimRecord, Stages
<1>3. Replaced(d, u, p, new) /\ owner' = [owner EXCEPT ![u][p] = d]
      /\ UNCHANGED <<spec, log, queue, hosts, joined, committed, handled, got, faults>>
  BY DEF SessionStart, pods, Replaced
<1>4. claim' \in [Pods -> [UIDs -> [Partitions -> ClaimRecord]]] /\ claim'[d][u][p] = new
  <2> HIDE DEF new
  <2> QED BY <1>2, <1>3, ClaimUpdate DEF IInv
<1>5. TypeOK'
  <2>1. owner' \in [UIDs -> [Partitions -> Pods \cup {Nil}]]
    BY <1>3 DEF IInv, TypeOK
  <2> QED BY <1>3, <1>4, <2>1 DEF IInv, TypeOK
<1>6. LogInv' /\ ResumesAfterDelivery' /\ ReliableSinksLoseNothing'
  BY <1>3, SameOffsets
<1>7. PosOK(d, u, p)' /\ MarkedOK(d, u, p)' /\ OwnerOK(d, u, p)'
  <2>1. committed[u][p] <= NextOffset(u, p) /\ NextOffset(u, p) <= Len(log[p])
    BY <1>1 DEF NextOffset, IInv, LogInv
  <2>2. committed[u][p] # NoOffset => NextOffset(u, p) = committed[u][p]
    BY <1>1 DEF NextOffset
  <2>3. PosOK(d, u, p)'
    BY <1>3, <1>4, <2>1 DEF PosOK, Sinks
  <2>4. committed[u][p] > 0 => Settled(u, p, committed[u][p] - 1)'
    BY <1>3 DEF IInv, ResumesAfterDelivery, Settled
  <2>5. MarkedOK(d, u, p)' /\ OwnerOK(d, u, p)'
    BY <1>1, <1>3, <1>4, <2>2, <2>4 DEF MarkedOK, OwnerOK
  <2> QED BY <2>3, <2>5
<1>8. \A e \in Pods, v \in UIDs, q \in Partitions :
        (owner'[v][q] = e /\ <<e, v, q>> # <<d, u, p>>) => owner[v][q] = e
  BY <1>3 DEF IInv, TypeOK
<1>9. ClaimInv'
  <2> HIDE DEF new
  <2> QED BY <1>2, <1>3, <1>7, <1>8, OneClaim
<1> QED BY <1>5, <1>6, <1>9 DEF IInv

\* A step of the handler changes the stage of one claim and what the sinks have answered.
LEMMA StageStep ==
    ASSUME IInv, NEW d \in Pods, NEW u \in UIDs, NEW p \in Partitions, NEW stage \in Stages,
           Replaced(d, u, p, [claim[d][u][p] EXCEPT !.stage = stage]),
           UNCHANGED <<spec, log, pods, owner, committed, handled, faults>>,
           got' \in [UIDs -> [Partitions -> SUBSET (Offsets \X Answers)]],
           \A v \in UIDs, q \in Partitions : got[v][q] \subseteq got'[v][q],
           claim[d][u][p].open, claim[d][u][p].pos < Len(log[p]),
           stage \in Sinks => spec[u][stage] # "none",
           \A i : stage = "delivered" /\ i = claim[d][u][p].pos => Settled(u, p, i)',
           (stage = "failed" /\ Reliable(u)) => log[p][claim[d][u][p].pos + 1] = Foreign
    PROVE  IInv'
<1> DEFINE cl == claim[d][u][p]
           new == [cl EXCEPT !.stage = stage]
<1>1. cl \in ClaimRecord
  BY DEF IInv, TypeOK
<1>2. /\ new \in ClaimRecord /\ new.stage = stage
      /\ new.open = cl.open /\ new.pos = cl.pos /\ new.marked = cl.marked
  BY <1>1 DEF ClaimRecord
<1>3. Replaced(d, u, p, new)
  OBVIOUS
<1>4. claim' \in [Pods -> [UIDs -> [Partitions -> ClaimRecord]]] /\ claim'[d][u][p] = new
  <2>1. TypeOK /\ new \in ClaimRecord
    BY <1>2 DEF IInv
  <2> HIDE DEF new
  <2> QED BY <1>3, <2>1, ClaimUpdate
<1>5. TypeOK'
  BY <1>4 DEF IInv, TypeOK, pods
<1>6. LogInv' /\ ResumesAfterDelivery' /\ ReliableSinksLoseNothing'
  BY SameOffsets
<1>7. PosOK(d, u, p) /\ MarkedOK(d, u, p) /\ OwnerOK(d, u, p)
  BY DEF IInv, ClaimInv
<1>8. Reliable(u)' <=> Reliable(u)
  BY DEF Reliable
<1>9. PosOK(d, u, p)'
  BY <1>2, <1>4, <1>7, <1>8 DEF PosOK
<1>10. \A i : Settled(u, p, i) => Settled(u, p, i)'
  BY SettledStays
<1>11. MarkedOK(d, u, p)' /\ OwnerOK(d, u, p)'
  BY <1>2, <1>4, <1>7, <1>10 DEF MarkedOK, OwnerOK
<1>12. ClaimInv'
  <2> HIDE DEF new
  <2> QED BY <1>2, <1>3, <1>9, <1>11, OneClaim
<1> QED BY <1>5, <1>6, <1>12 DEF IInv

\* Handle looks at the record and picks the first sink.
LEMMA HandleStep ==
    ASSUME IInv, NEW d \in Pods, NEW u \in UIDs, NEW p \in Partitions, Handle(d, u, p)
    PROVE  IInv'
<1> DEFINE cl == claim[d][u][p]
           stage == IF log[p][cl.pos + 1] = Foreign THEN "failed"
                    ELSE IF spec[u]["subscriber"] # "none" THEN "subscriber" ELSE "reply"
<1>1. Replaced(d, u, p, [claim[d][u][p] EXCEPT !.stage = stage])
      /\ UNCHANGED <<spec, log, pods, owner, committed, handled, got, faults>>
      /\ cl.open /\ cl.pos < Len(log[p])
  BY DEF Handle, Replaced, IInv, TypeOK
<1>2. stage \in Stages /\ stage # "delivered"
  BY DEF Stages, Sinks
<1>3. spec[u] \in SinkSpecs
  BY DEF IInv, TypeOK
<1>4. stage \in Sinks => spec[u][stage] # "none"
  BY <1>3 DEF SinkSpecs, Sinks
<1>5. stage = "failed" => log[p][cl.pos + 1] = Foreign
  OBVIOUS
<1>6. got' \in [UIDs -> [Partitions -> SUBSET (Offsets \X Answers)]]
  BY <1>1 DEF IInv, TypeOK
<1> HIDE DEF stage
<1> QED BY <1>1, <1>2, <1>4, <1>5, <1>6, StageStep

\* A request fails: the dead letter sink is next, or Handle fails.
LEMMA RequestFailsStep ==
    ASSUME IInv, NEW d \in Pods, NEW u \in UIDs, NEW p \in Partitions, RequestFails(d, u, p)
    PROVE  IInv'
<1> DEFINE cl == claim[d][u][p]
           stage == AfterError(u, cl.stage)
<1>1. Replaced(d, u, p, [claim[d][u][p] EXCEPT !.stage = stage])
      /\ UNCHANGED <<spec, log, pods, owner, committed, handled, got, faults>>
      /\ cl.stage \in Sinks /\ spec[u][cl.stage] # "up"
  BY DEF RequestFails, Replaced, IInv, TypeOK
<1>2. PosOK(d, u, p)
  BY DEF IInv, ClaimInv
<1>3. cl.open /\ cl.pos < Len(log[p]) /\ spec[u][cl.stage] # "none"
  BY <1>1, <1>2 DEF PosOK, Sinks
<1>4. stage \in Stages /\ stage # "delivered"
  BY DEF AfterError, Stages, Sinks
<1>5. stage \in Sinks => spec[u][stage] # "none"
  BY DEF AfterError, Sinks
<1>6. ~(stage = "failed" /\ Reliable(u))
  BY <1>1, <1>3 DEF AfterError, Reliable, Sinks
<1>7. got' \in [UIDs -> [Partitions -> SUBSET (Offsets \X Answers)]]
  BY <1>1 DEF IInv, TypeOK
<1> HIDE DEF stage
<1> QED BY <1>1, <1>3, <1>4, <1>5, <1>6, <1>7, StageStep

\* A request succeeds: the event has reached its end, or the response goes to the reply.
LEMMA RequestSucceedsStep ==
    ASSUME IInv, NEW d \in Pods, NEW u \in UIDs, NEW p \in Partitions, NEW event \in BOOLEAN,
           RequestSucceeds(d, u, p, event)
    PROVE  IInv'
<1> DEFINE cl == claim[d][u][p]
           response == event /\ cl.stage = "subscriber"
           stage == IF response /\ spec[u]["reply"] # "none" THEN "reply" ELSE "delivered"
           answer == IF response THEN "response" ELSE cl.stage
<1>1. Replaced(d, u, p, [claim[d][u][p] EXCEPT !.stage = stage])
      /\ got' = [got EXCEPT ![u][p] = @ \cup {<<cl.pos, answer>>}]
      /\ UNCHANGED <<spec, log, pods, owner, committed, handled, faults>>
      /\ cl.stage \in Sinks
  BY DEF RequestSucceeds, Replaced, IInv, TypeOK
<1>2. PosOK(d, u, p) /\ cl \in ClaimRecord
  BY DEF IInv, ClaimInv, TypeOK
<1>3. cl.open /\ cl.pos < Len(log[p]) /\ cl.pos \in Offsets
  BY <1>1, <1>2 DEF PosOK, Sinks, ClaimRecord
<1>4. stage \in Stages /\ stage # "failed" /\ answer \in Answers
  BY <1>1 DEF Stages, Sinks, Answers
<1>5. stage \in Sinks => spec[u][stage] # "none"
  BY DEF Sinks
<1>6. /\ got' \in [UIDs -> [Partitions -> SUBSET (Offsets \X Answers)]]
      /\ \A v \in UIDs, q \in Partitions : got[v][q] \subseteq got'[v][q]
      /\ <<cl.pos, answer>> \in got'[u][p]
  <2> HIDE DEF answer
  <2> QED BY <1>1, <1>3, <1>4 DEF IInv, TypeOK
<1>7. \A i : stage = "delivered" /\ i = cl.pos => Settled(u, p, i)'
  BY <1>1, <1>6 DEF Settled
<1> HIDE DEF stage, answer, response
<1> QED BY <1>1, <1>3, <1>4, <1>5, <1>6, <1>7, StageStep

\* An offset that the owner of a partition commits: nothing but the marked offset of its
\* claim, whose deliveries and handled messages the invariant knows.
LEMMA FlushStep ==
    ASSUME IInv, NEW d \in Pods, NEW u \in UIDs, NEW p \in Partitions,
           claim[d][u][p].open, Flush(d, u, p), UNCHANGED <<spec, log, handled, got>>
    PROVE  /\ committed' \in [UIDs -> [Partitions -> Offsets \cup {NoOffset}]]
           /\ \A v \in UIDs, q \in Partitions :
                 (<<v, q>> # <<u, p>> \/ owner[u][p] # d) => committed'[v][q] = committed[v][q]
           /\ owner[u][p] = d => committed'[u][p] = claim[d][u][p].marked
           /\ LogInv' /\ ResumesAfterDelivery' /\ ReliableSinksLoseNothing'
<1> DEFINE cl == claim[d][u][p]
<1>1. /\ PosOK(d, u, p) /\ MarkedOK(d, u, p) /\ cl \in ClaimRecord
      /\ committed \in [UIDs -> [Partitions -> Offsets \cup {NoOffset}]]
      /\ Len(log[p]) \in Nat
  BY DEF IInv, ClaimInv, TypeOK
<1>2. cl.marked \in Offsets \cup {NoOffset} /\ cl.pos \in Offsets
  BY <1>1 DEF ClaimRecord
<1>3. committed' \in [UIDs -> [Partitions -> Offsets \cup {NoOffset}]]
  BY <1>1, <1>2 DEF Flush
<1>4. \A v \in UIDs, q \in Partitions :
         (<<v, q>> # <<u, p>> \/ owner[u][p] # d) => committed'[v][q] = committed[v][q]
  BY <1>1 DEF Flush
<1>5. owner[u][p] = d => committed'[u][p] = cl.marked
  BY <1>1 DEF Flush
<1>6. \A v \in UIDs, q \in Partitions : \A i : Settled(v, q, i) => Settled(v, q, i)'
  BY DEF Settled
<1>7. cl.marked <= Len(log[p])
  BY <1>1, <1>2 DEF PosOK
<1>8. LogInv'
  BY <1>4, <1>5, <1>7 DEF IInv, LogInv
<1>9. ResumesAfterDelivery'
  BY <1>1, <1>4, <1>5, <1>6 DEF IInv, ResumesAfterDelivery, MarkedOK
<1>10. ReliableSinksLoseNothing'
  BY <1>6 DEF IInv, ReliableSinksLoseNothing
<1> QED BY <1>3, <1>4, <1>5, <1>8, <1>9, <1>10

\* The offset manager commits while the claim goes on.
LEMMA CommitStep ==
    ASSUME IInv, NEW d \in Pods, NEW u \in UIDs, NEW p \in Partitions, Commit(d, u, p)
    PROVE  IInv'
<1>1. /\ claim[d][u][p].open /\ Flush(d, u, p)
      /\ UNCHANGED <<spec, log, queue, hosts, joined, claim, owner, handled, got, faults>>
  BY DEF Commit, pods
<1>2. /\ committed' \in [UIDs -> [Partitions -> Offsets \cup {NoOffset}]]
      /\ \A v \in UIDs, q \in Partitions :
            (<<v, q>> # <<u, p>> \/ owner[u][p] # d) => committed'[v][q] = committed[v][q]
      /\ owner[u][p] = d => committed'[u][p] = claim[d][u][p].marked
      /\ LogInv' /\ ResumesAfterDelivery' /\ ReliableSinksLoseNothing'
  BY <1>1, FlushStep
<1>3. TypeOK'
  BY <1>1, <1>2 DEF IInv, TypeOK
<1>4. ClaimInv'
  <2> SUFFICES ASSUME NEW e \in Pods, NEW v \in UIDs, NEW q \in Partitions
               PROVE  PosOK(e, v, q)' /\ MarkedOK(e, v, q)' /\ OwnerOK(e, v, q)'
    BY DEF ClaimInv
  <2>1. CASE <<e, v, q>> = <<d, u, p>> /\ owner[u][p] = d
    <3>1. PosOK(d, u, p) /\ MarkedOK(d, u, p) /\ claim[d][u][p] \in ClaimRecord
      BY DEF IInv, ClaimInv, TypeOK
    <3>2. \A i : Settled(u, p, i)' <=> Settled(u, p, i)
      BY <1>1 DEF Settled
    <3>3. PosOK(d, u, p)' /\ MarkedOK(d, u, p)'
      BY <1>1, <3>1, <3>2 DEF PosOK, MarkedOK, Reliable
    <3>4. OwnerOK(d, u, p)'
      BY <1>1, <1>2, <2>1, <3>1 DEF OwnerOK, MarkedOK, ClaimRecord
    <3> QED BY <2>1, <3>3, <3>4
  <2>2. CASE ~(<<e, v, q>> = <<d, u, p>> /\ owner[u][p] = d)
    <3>1. owner'[v][q] = e => owner[v][q] = e /\ committed'[v][q] = committed[v][q]
      BY <1>1, <1>2, <2>2
    <3> QED BY <1>1, <3>1, OtherClaim
  <2> QED BY <2>1, <2>2
<1> QED BY <1>2, <1>3, <1>4 DEF IInv

\* A session ends with the last commit.
LEMMA SessionEndStep ==
    ASSUME IInv, NEW d \in Pods, NEW u \in UIDs, NEW p \in Partitions, SessionEnd(d, u, p),
           faults' \in 0..MaxFaults
    PROVE  IInv'
<1>1. /\ claim[d][u][p].open /\ Flush(d, u, p) /\ Replaced(d, u, p, NoClaim)
      /\ owner' = IF owner[u][p] = d THEN [owner EXCEPT ![u][p] = Nil] ELSE owner
      /\ UNCHANGED <<spec, log, queue, hosts, joined, handled, got>>
  BY DEF SessionEnd, pods, Replaced
<1>2. /\ committed' \in [UIDs -> [Partitions -> Offsets \cup {NoOffset}]]
      /\ \A v \in UIDs, q \in Partitions :
            (<<v, q>> # <<u, p>> \/ owner[u][p] # d) => committed'[v][q] = committed[v][q]
      /\ LogInv' /\ ResumesAfterDelivery' /\ ReliableSinksLoseNothing'
  BY <1>1, FlushStep
<1>3. NoClaim \in ClaimRecord
  BY ClaimTypes
<1>4. /\ claim' \in [Pods -> [UIDs -> [Partitions -> ClaimRecord]]]
      /\ claim'[d][u][p] = NoClaim
  BY <1>1, <1>3, ClaimUpdate DEF IInv
<1>5. TypeOK'
  <2>1. owner' \in [UIDs -> [Partitions -> Pods \cup {Nil}]]
    BY <1>1 DEF IInv, TypeOK
  <2> QED BY <1>1, <1>2, <1>4, <2>1 DEF IInv, TypeOK
<1>6. PosOK(d, u, p)' /\ MarkedOK(d, u, p)' /\ OwnerOK(d, u, p)'
  <2>1. Len(log'[p]) \in Nat
    BY <1>5 DEF TypeOK
  <2> QED BY <1>4, <2>1 DEF PosOK, MarkedOK, OwnerOK, NoClaim, Sinks
<1>7. \A e \in Pods, v \in UIDs, q \in Partitions :
        (owner'[v][q] = e /\ <<e, v, q>> # <<d, u, p>>)
           => owner[v][q] = e /\ committed'[v][q] = committed[v][q]
  BY <1>1, <1>2 DEF IInv, TypeOK
<1>8. ClaimInv'
  BY <1>1, <1>3, <1>6, <1>7, OneClaim
<1> QED BY <1>2, <1>5, <1>8 DEF IInv

\* The broker gives up a member.
LEMMA ExpireStep ==
    ASSUME IInv, NEW d \in Pods, NEW u \in UIDs, NEW p \in Partitions, Expire(d, u, p),
           faults' \in 0..MaxFaults
    PROVE  IInv'
<1>1. /\ owner' = [owner EXCEPT ![u][p] = Nil]
      /\ UNCHANGED <<spec, log, queue, hosts, joined, claim, committed, handled, got>>
  BY DEF Expire, pods
<1>2. TypeOK'
  <2>1. owner' \in [UIDs -> [Partitions -> Pods \cup {Nil}]]
    BY <1>1 DEF IInv, TypeOK
  <2> QED BY <1>1, <2>1 DEF IInv, TypeOK
<1>3. \A e \in Pods, v \in UIDs, q \in Partitions : owner'[v][q] = e => owner[v][q] = e
  BY <1>1 DEF IInv, TypeOK
<1>4. ClaimInv'
  BY <1>1, <1>3, OtherClaim DEF ClaimInv
<1> QED BY <1>1, <1>2, <1>4, SameOffsets DEF IInv

\* Handle has returned, the message is marked when it was delivered.
LEMMA HandleReturnsStep ==
    ASSUME IInv, NEW d \in Pods, NEW u \in UIDs, NEW p \in Partitions, HandleReturns(d, u, p)
    PROVE  IInv'
<1> DEFINE cl == claim[d][u][p]
           new == MarkMessage(cl)
<1>1. /\ cl.stage \in {"delivered", "failed"} /\ Replaced(d, u, p, new)
      /\ handled' = [handled EXCEPT ![u][p] = @ \cup {cl.pos}]
      /\ UNCHANGED <<spec, log, queue, hosts, joined, owner, committed, got, faults>>
  BY DEF HandleReturns, pods, Replaced
<1>2. /\ PosOK(d, u, p) /\ MarkedOK(d, u, p) /\ OwnerOK(d, u, p)
      /\ cl \in ClaimRecord /\ Len(log[p]) \in 0..MaxEvents
      /\ committed[u][p] \in Offsets \cup {NoOffset}
  BY DEF IInv, ClaimInv, TypeOK
<1>3. /\ cl.open /\ cl.pos \in Offsets /\ cl.marked \in Offsets \cup {NoOffset}
      /\ cl.pos < Len(log[p]) /\ cl.marked <= cl.pos
  BY <1>1, <1>2 DEF PosOK, ClaimRecord
<1>4. /\ new \in ClaimRecord /\ new.open /\ new.pos = cl.pos + 1 /\ new.stage = "idle"
      /\ new.marked = IF cl.stage = "delivered" THEN cl.pos + 1 ELSE cl.marked
  <2>1. cl.pos + 1 \in Offsets /\ "idle" \in Stages
    BY <1>2, <1>3 DEF Stages
  <2>2. /\ new = [cl EXCEPT !.pos = cl.pos + 1, !.stage = "idle", !.marked = new.marked]
        /\ new.marked = IF cl.stage = "delivered" /\ cl.pos + 1 > cl.marked
                        THEN cl.pos + 1 ELSE cl.marked
    BY <1>2 DEF MarkMessage, ClaimRecord
  <2>3. new.marked = IF cl.stage = "delivered" THEN cl.pos + 1 ELSE cl.marked
    BY <1>3, <2>2
  <2> HIDE DEF new
  <2>4. new.marked \in Offsets \cup {NoOffset}
    BY <1>3, <2>1, <2>3
  <2> QED BY <1>2, <1>3, <2>1, <2>2, <2>3, <2>4 DEF ClaimRecord
<1> HIDE DEF new
<1>5. claim' \in [Pods -> [UIDs -> [Partitions -> ClaimRecord]]] /\ claim'[d][u][p] = new
  BY <1>1, <1>4, ClaimUpdate DEF IInv
<1>6. /\ handled' \in [UIDs -> [Partitions -> SUBSET Offsets]]
      /\ \A v \in UIDs, q \in Partitions : handled[v][q] \subseteq handled'[v][q]
      /\ \A v \in UIDs, q \in Partitions : <<v, q>> # <<u, p>> => handled'[v][q] = handled[v][q]
      /\ handled'[u][p] = handled[u][p] \cup {cl.pos}
  BY <1>1, <1>3 DEF IInv, TypeOK
<1>7. TypeOK'
  BY <1>1, <1>5, <1>6 DEF IInv, TypeOK
<1>8. LogInv'
  BY <1>1, <1>3, <1>6 DEF IInv, LogInv
<1>9. \A v \in UIDs, q \in Partitions : \A i : Settled(v, q, i)' <=> Settled(v, q, i)
  BY <1>1 DEF Settled
<1>10. ResumesAfterDelivery'
  BY <1>1, <1>9 DEF IInv, ResumesAfterDelivery
<1>11. ReliableSinksLoseNothing'
  <2> SUFFICES ASSUME NEW v \in UIDs, Reliable(v), NEW q \in Partitions, NEW i \in handled'[v][q],
                      log[q][i + 1] # Foreign
               PROVE  Settled(v, q, i)
    BY <1>1, <1>9 DEF ReliableSinksLoseNothing, Reliable
  <2>1. CASE i \in handled[v][q]
    BY <2>1 DEF IInv, ReliableSinksLoseNothing, Reliable
  <2>2. CASE i \notin handled[v][q]
    <3>1. v = u /\ q = p /\ i = cl.pos
      BY <1>6, <2>2
    <3> QED BY <1>1, <1>2, <3>1 DEF PosOK
  <2> QED BY <2>1, <2>2
<1>12. PosOK(d, u, p)'
  BY <1>1, <1>3, <1>4, <1>5 DEF PosOK, Sinks
<1>13. MarkedOK(d, u, p)'
  <2>1. new.marked > 0 => Settled(u, p, new.marked - 1)
    BY <1>2, <1>3, <1>4 DEF PosOK, MarkedOK
  <2>2. new.marked # NoOffset => \A i \in new.marked..(new.pos - 1) : i \in handled'[u][p]
    BY <1>2, <1>3, <1>4, <1>6 DEF MarkedOK
  <2> QED BY <1>5, <1>9, <2>1, <2>2 DEF MarkedOK
<1>14. OwnerOK(d, u, p)'
  <2> SUFFICES ASSUME owner[u][p] = d
               PROVE  /\ committed[u][p] <= new.marked
                      /\ committed[u][p] # NoOffset =>
                            \A i \in committed[u][p]..(new.pos - 1) : i \in handled'[u][p]
    BY <1>1, <1>5 DEF OwnerOK
  <2>1. /\ committed[u][p] <= cl.marked
        /\ committed[u][p] # NoOffset =>
              \A i \in committed[u][p]..(cl.pos - 1) : i \in handled[u][p]
    BY <1>2, <1>3 DEF OwnerOK
  <2>2. committed[u][p] <= new.marked
    BY <1>2, <1>3, <1>4, <2>1
  <2>3. ASSUME committed[u][p] # NoOffset, NEW i \in committed[u][p]..(new.pos - 1)
        PROVE  i \in handled'[u][p]
    BY <1>2, <1>3, <1>4, <1>6, <2>1, <2>3
  <2> QED BY <2>2, <2>3
<1>15. ClaimInv'
  BY <1>1, <1>4, <1>6, <1>12, <1>13, <1>14, OneClaim
<1> QED BY <1>7, <1>8, <1>10, <1>11, <1>15 DEF IInv

--------------------------------------------------------------------------------
(* The invariant and what it implies *)

\* The first state satisfies the invariant: no claims, no offsets, empty logs.
LEMMA InitInv == Init => IInv
<1> SUFFICES ASSUME Init PROVE IInv
  OBVIOUS
<1>1. TypeOK
  BY InitType
<1>2. \A p \in Partitions : Len(log[p]) = 0
  BY DEF Init
<1>3. \A u \in UIDs, p \in Partitions : committed[u][p] = NoOffset /\ handled[u][p] = {}
  BY DEF Init
<1>4. \A d \in Pods, u \in UIDs, p \in Partitions : claim[d][u][p] = NoClaim
  BY DEF Init
<1>5. LogInv /\ ResumesAfterDelivery /\ ReliableSinksLoseNothing
  BY <1>2, <1>3 DEF LogInv, ResumesAfterDelivery, ReliableSinksLoseNothing
<1>6. ClaimInv
  BY <1>2, <1>4 DEF ClaimInv, PosOK, MarkedOK, OwnerOK, NoClaim, Sinks
<1> QED BY <1>1, <1>5, <1>6 DEF IInv

\* Every step of the system keeps the invariant.
LEMMA NextInv == IInv /\ [Next]_vars => IInv'
<1> SUFFICES ASSUME IInv, [Next]_vars PROVE IInv'
  OBVIOUS
<1>1. CASE UNCHANGED vars
  <2>1. UNCHANGED <<spec, log, queue, hosts, joined, claim, owner, committed, handled, got, faults>>
    BY <1>1 DEF vars, pods
  <2>2. TypeOK' /\ ClaimInv'
    BY <2>1, OtherClaim DEF IInv, TypeOK, ClaimInv
  <2> QED BY <2>1, <2>2, SameOffsets DEF IInv
<1>2. ASSUME NEW d \in Pods, NEW c \in Channels, NEW p \in Partitions, Receive(d, c, p)
      PROVE  IInv'
  BY <1>2, WriteStep DEF Receive
<1>3. ASSUME NEW p \in Partitions, Produce(p) PROVE IInv'
  BY <1>3, WriteStep DEF Produce
<1>4. ASSUME NEW d \in Pods, (\E c \in Channels : Sync(d, c)) \/ Promote(d) PROVE IInv'
  BY <1>4, PodStep
<1>5. ASSUME NEW d \in Pods, Crash(d) PROVE IInv'
  BY <1>5, CrashStep
<1>6. ASSUME NEW d \in Pods, NEW u \in UIDs, NEW p \in Partitions
      PROVE  /\ SessionStart(d, u, p) => IInv'
             /\ ClaimStep(d, u, p) => IInv'
             /\ Commit(d, u, p) => IInv'
             /\ Rebalance(d, u, p) \/ EndFenced(d, u, p) => IInv'
             /\ ExpireCrashed(d, u, p) \/ ExpireSlow(d, u, p) => IInv'
  <2>1. faults \in 0..MaxFaults
    BY DEF IInv, TypeOK
  <2>2. ClaimStep(d, u, p) => IInv'
    BY HandleStep, HandleReturnsStep, RequestFailsStep, RequestSucceedsStep DEF ClaimStep
  <2>3. Rebalance(d, u, p) \/ EndFenced(d, u, p) => IInv'
    BY <2>1, SessionEndStep DEF Rebalance, EndFenced, Fault
  <2>4. ExpireCrashed(d, u, p) \/ ExpireSlow(d, u, p) => IInv'
    BY <2>1, ExpireStep DEF ExpireCrashed, ExpireSlow, Fault
  <2> QED BY <2>2, <2>3, <2>4, SessionStartStep, CommitStep
<1> QED BY <1>1, <1>2, <1>3, <1>4, <1>5, <1>6 DEF Next

\* The invariant holds in every reachable state.
LEMMA Invariance == Spec => []IInv
BY InitInv, NextInv, PTL DEF Spec

\* Types of the event path: every offset, position and answer stays within its range,
\* whatever crashes, rebalances and answers happen.
THEOREM DeliveryTypes == Spec => []TypeOK
<1>1. IInv => TypeOK
  BY DEF IInv
<1> QED BY <1>1, Invariance, PTL

\* The offset that a consumer group resumes at follows an event that has reached its end
\* (MarkMessage after Handle returned true; flushToBroker; fencing of former generations).
THEOREM ResumePoint == Spec => []ResumesAfterDelivery
<1>1. IInv => ResumesAfterDelivery
  BY DEF IInv
<1> QED BY <1>1, Invariance, PTL

\* Where no sink fails, or the dead letter sink never does, DispatchMessageWithRetries drops
\* no event that Handle has returned for.
THEOREM NothingLost == Spec => []ReliableSinksLoseNothing
<1>1. IInv => ReliableSinksLoseNothing
  BY DEF IInv
<1> QED BY <1>1, Invariance, PTL

\* A step leaves the committed offset of a group alone, or its owner commits what it has
\* marked.
LEMMA CommitsAreMarked ==
    ASSUME IInv, [Next]_vars, NEW u \in UIDs, NEW p \in Partitions
    PROVE  \/ committed'[u][p] = committed[u][p]
           \/ \E d \in Pods : /\ owner[u][p] = d /\ claim[d][u][p].open
                              /\ committed'[u][p] = claim[d][u][p].marked
<1>1. ASSUME NEW d \in Pods, NEW v \in UIDs, NEW q \in Partitions,
             claim[d][v][q].open, Flush(d, v, q)
      PROVE  \/ committed'[u][p] = committed[u][p]
             \/ /\ owner[u][p] = d /\ claim[d][u][p].open
                /\ committed'[u][p] = claim[d][u][p].marked
  <2>1. committed \in [UIDs -> [Partitions -> Offsets \cup {NoOffset}]]
    BY DEF IInv, TypeOK
  <2>2. CASE <<v, q>> = <<u, p>>
    BY <1>1, <2>1, <2>2 DEF Flush
  <2>3. CASE <<v, q>> # <<u, p>>
    BY <1>1, <2>1, <2>3 DEF Flush
  <2> QED BY <2>2, <2>3
<1>2. \/ committed' = committed
      \/ \E d \in Pods, v \in UIDs, q \in Partitions : claim[d][v][q].open /\ Flush(d, v, q)
  <2>1. CASE UNCHANGED vars
    BY <2>1 DEF vars
  <2>2. ASSUME NEW d \in Pods, NEW c \in Channels, NEW q \in Partitions, Receive(d, c, q)
        PROVE  committed' = committed
    BY <2>2 DEF Receive, Write
  <2>3. ASSUME NEW q \in Partitions, Produce(q) PROVE committed' = committed
    BY <2>3 DEF Produce, Write
  <2>4. ASSUME NEW d \in Pods, NEW c \in Channels, Sync(d, c) PROVE committed' = committed
    BY <2>4 DEF Sync
  <2>5. ASSUME NEW d \in Pods, Promote(d) \/ Crash(d) PROVE committed' = committed
    BY <2>5 DEF Promote, Crash
  <2>6. ASSUME NEW d \in Pods, NEW v \in UIDs, NEW q \in Partitions
        PROVE  /\ SessionStart(d, v, q) => committed' = committed
               /\ ClaimStep(d, v, q) => committed' = committed
               /\ Commit(d, v, q) => claim[d][v][q].open /\ Flush(d, v, q)
               /\ Rebalance(d, v, q) \/ EndFenced(d, v, q) => claim[d][v][q].open /\ Flush(d, v, q)
               /\ ExpireCrashed(d, v, q) \/ ExpireSlow(d, v, q) => committed' = committed
    <3>1. ClaimStep(d, v, q) => committed' = committed
      BY DEF ClaimStep, Handle, HandleReturns, RequestFails, RequestSucceeds
    <3> QED BY <3>1 DEF SessionStart, Commit, Rebalance, EndFenced, SessionEnd,
                        ExpireCrashed, ExpireSlow, Expire
  <2> QED BY <2>1, <2>2, <2>3, <2>4, <2>5, <2>6 DEF Next
<1> QED BY <1>1, <1>2

\* Offsets are only committed forward and only over messages that Handle has returned for:
\* a member that was replaced cannot take a group back, and no restart skips a message.
THEOREM CommitsInOrder == Spec => CommitsCoverHandled
<1> DEFINE Step(u, p) ==
      committed[u][p] # NoOffset =>
         /\ committed'[u][p] >= committed[u][p]
         /\ committed[u][p]..(committed'[u][p] - 1) \subseteq handled[u][p]
<1>1. ASSUME IInv, [Next]_vars, NEW u \in UIDs, NEW p \in Partitions
      PROVE  Step(u, p)
  <2> SUFFICES ASSUME committed[u][p] # NoOffset
               PROVE  /\ committed'[u][p] >= committed[u][p]
                      /\ committed[u][p]..(committed'[u][p] - 1) \subseteq handled[u][p]
    OBVIOUS
  <2>0. committed[u][p] \in Offsets
    BY <1>1 DEF IInv, TypeOK
  <2>1. CASE committed'[u][p] = committed[u][p]
    BY <2>0, <2>1
  <2>2. CASE committed'[u][p] # committed[u][p]
    <3>1. PICK d \in Pods : /\ owner[u][p] = d /\ claim[d][u][p].open
                            /\ committed'[u][p] = claim[d][u][p].marked
      BY <1>1, <2>2, CommitsAreMarked
    <3>2. /\ PosOK(d, u, p) /\ OwnerOK(d, u, p) /\ claim[d][u][p] \in ClaimRecord
      BY <1>1 DEF IInv, ClaimInv, TypeOK
    <3>3. claim[d][u][p].marked \in Offsets \cup {NoOffset} /\ claim[d][u][p].pos \in Offsets
      BY <3>2 DEF ClaimRecord
    <3>4. /\ committed[u][p] <= claim[d][u][p].marked
          /\ claim[d][u][p].marked <= claim[d][u][p].pos
          /\ \A i \in committed[u][p]..(claim[d][u][p].pos - 1) : i \in handled[u][p]
      BY <3>1, <3>2 DEF PosOK, OwnerOK
    <3> QED BY <2>0, <3>1, <3>3, <3>4
  <2> QED BY <2>1, <2>2
<1>2. IInv /\ [Next]_vars => [\A u \in UIDs, p \in Partitions : Step(u, p)]_vars
  BY <1>1
<1> QED BY <1>2, Invariance, PTL DEF Spec, CommitsCoverHandled
================================================================================
