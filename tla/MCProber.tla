-------------------------------- MODULE MCProber -------------------------------
(* Constants of Prober for TLC. *)
EXTENDS Prober, TLC

CONSTANTS d1, d2

\* Any pod may consume any partition.
AnyPod == [p \in Partitions |-> Pods]
\* Partition 1 is consumed by d1, the others by d2: each pod has one of two.
OnePerPod == [p \in Partitions |-> IF p = 1 THEN {d1} ELSE {d2}]

Heap == Permutations(States)
\* Where any pod may consume any partition, partitions are only counted.
HeapAndPartitions == Heap \cup Permutations(Partitions)
================================================================================
