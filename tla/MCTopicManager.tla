--------------------------- MODULE MCTopicManager ---------------------------
(***************************************************************************)
(* Instances of TopicManager for TLC: two topics of one or two partitions. *)
(* The names of the topics are interchangeable, and the run checks no      *)
(* liveness.                                                               *)
(***************************************************************************)
EXTENDS TopicManager, TLC

CONSTANTS a, b

MCTopics == {a, b}
MCSymmetry == Permutations(MCTopics)
=============================================================================
