--------------------------- MODULE MCConsumerGroup ---------------------------
(***************************************************************************)
(* Instances of ConsumerGroup for TLC, with the sizes of MCPartitionLog.   *)
(***************************************************************************)
EXTENDS ConsumerGroup

MCTimes == {1, 2}
MCOneTime == {1}
=============================================================================
