------------------------------- MODULE MCDelivery -------------------------------
(* Instances of Delivery for TLC. *)
EXTENDS Delivery

CONSTANTS chA, chB, pA, pB, a1, a2, b1, uA

Sub(s, r, d) == [sink \in Sinks |-> CASE sink = "subscriber" -> s [] sink = "reply" -> r
                                      [] sink = "deadLetter" -> d]
TopicPartitions == [c \in Channels |-> IF c = chA THEN {pA} ELSE {pB}]
PodChannel == [d \in Pods |-> IF d = b1 THEN chB ELSE chA]
SubscribedChannel == [u \in UIDs |-> chA]

\* A subscriber, a reply and a dead letter sink in turn is the weak one.
MixedSpecs == {Sub("flaky", "none", "none"), Sub("flaky", "silent", "up"),
               Sub("none", "flaky", "flaky"), Sub("up", "up", "none")}
================================================================================
