--------------------------- MODULE MCPartitionLog ---------------------------
(***************************************************************************)
(* Instances of PartitionLog for TLC.  A batch of n records takes 1 + n    *)
(* bytes and a segment 4 or 5 bytes: two small batches or one larger       *)
(* batch, so every run rolls, and three or more segments exist at a time.  *)
(***************************************************************************)
EXTENDS PartitionLog

MCTimes == {1, 2}
MCOneTime == {1}
=============================================================================
