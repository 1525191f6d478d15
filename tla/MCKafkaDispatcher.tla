--------------------------- MODULE MCKafkaDispatcher ---------------------------
(* Constants of KafkaDispatcher for TLC. *)
EXTENDS DispatcherRefinement, TLC

\* One channel, the pod's own, to which every Subscription belongs.
MCHostOf == [c \in Channels |-> c]
MCChannelOf == [u \in UIDs |-> Self]

\* Heap objects are only compared with each other.
Heap == Permutations(KafkaSubscriptions) \cup Permutations(Groups)
================================================================================
