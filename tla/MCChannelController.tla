-------------------------- MODULE MCChannelController --------------------------
(* Constants of ChannelController for TLC. *)
EXTENDS ChannelController

OnlyUnset == {Unset}
\* Fields left to their defaults, a number of partitions that defaulting leaves negative.
ValidAndInvalid == {Unset, [Unset EXCEPT !.numPartitions = -1]}
================================================================================
