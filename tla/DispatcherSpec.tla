------------------------------ MODULE DispatcherSpec ------------------------------
(***************************************************************************)
(* What a dispatcher promises about each subscription, as its controller    *)
(* and the status prober see it: a consumer is started with one revision of *)
(* the spec and keeps it until it is closed; the partitions reported ready  *)
(* for a subscription are those of its own consumer, so a subscription      *)
(* without a consumer has none, and a new consumer starts with none.        *)
(***************************************************************************)
EXTENDS Naturals

CONSTANTS
    UIDs,        \* UIDs of the Subscriptions
    Partitions,  \* partitions of the topic
    MaxRev       \* bound: revisions of one subscriber's spec

VARIABLES
    phase,       \* uid -> "absent", "consuming" or "closing"
    rev,         \* uid -> revision that its consumer delivers with, 0 for none
    ready        \* uid -> partitions that the endpoint lists

vars == <<phase, rev, ready>>

Init ==
    /\ phase = [u \in UIDs |-> "absent"]
    /\ rev = [u \in UIDs |-> 0]
    /\ ready = [u \in UIDs |-> {}]

Subscribe(u, r) ==
    /\ phase[u] = "absent"
    /\ phase' = [phase EXCEPT ![u] = "consuming"]
    /\ rev' = [rev EXCEPT ![u] = r]
    /\ UNCHANGED ready

\* The list of the last subscription of a channel goes away at once, with its object.
Unsubscribe(u) ==
    /\ phase[u] = "consuming"
    /\ phase' = [phase EXCEPT ![u] = "closing"]
    /\ rev' = [rev EXCEPT ![u] = 0]
    /\ ready' \in {ready, [ready EXCEPT ![u] = {}]}

Close(u) ==
    /\ phase[u] = "closing"
    /\ ready[u] = {}
    /\ phase' = [phase EXCEPT ![u] = "absent"]
    /\ UNCHANGED <<rev, ready>>

\* A partition becomes ready, or stops being so, while the consumer exists.
Claim(u, p) ==
    /\ phase[u] # "absent"
    /\ ready' = [ready EXCEPT ![u] = @ \cup {p}]
    /\ UNCHANGED <<phase, rev>>
Release(u, p) ==
    /\ phase[u] # "absent"
    /\ ready' = [ready EXCEPT ![u] = @ \ {p}]
    /\ UNCHANGED <<phase, rev>>

\* The process ends, and with it everything it served.
Restart ==
    /\ phase' = [u \in UIDs |-> "absent"]
    /\ rev' = [u \in UIDs |-> 0]
    /\ ready' = [u \in UIDs |-> {}]

Next ==
    \/ \E u \in UIDs, r \in 1..MaxRev : Subscribe(u, r)
    \/ \E u \in UIDs : Unsubscribe(u) \/ Close(u)
    \/ \E u \in UIDs, p \in Partitions : Claim(u, p) \/ Release(u, p)
    \/ Restart

Spec == Init /\ [][Next]_vars
================================================================================
