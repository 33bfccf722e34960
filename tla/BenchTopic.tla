----------------------------- MODULE BenchTopic -----------------------------
(***************************************************************************)
(* The topic that the benchmark clients produce to and consume from, as    *)
(* the broker shows it to them: for every partition the offset after the   *)
(* last record (AbstractLog's end; the log is not trimmed during a run).   *)
(*                                                                         *)
(* A Produce request that its client has given up on may still be handled  *)
(* later.                                                                  *)
(***************************************************************************)
EXTENDS Integers

CONSTANTS
  PartitionCount,  \* number of partitions of the topic
  Earlier          \* records of an earlier run, all in the first partition

ASSUME TopicAssumption == PartitionCount \in Nat \ {0} /\ Earlier \in Nat

VARIABLES
  logEnd,  \* partition -> log end offset
  stray    \* the requests that were given up and are not handled yet

topicVars == <<logEnd, stray>>

Partitions == 0 .. PartitionCount - 1

Request == [id : Nat, part : Partitions, n : Nat]

TopicInit ==
  /\ logEnd = [p \in Partitions |-> IF p = 0 THEN Earlier ELSE 0]
  /\ stray = {}

\* The records of a request go to the end of its partition.
Appended(r) == [logEnd EXCEPT ![r.part] = @ + r.n]

\* A request is handled after its client stopped waiting.
StrayAppend ==
  \E r \in stray :
    /\ logEnd' = Appended(r)
    /\ stray' = stray \ {r}
=============================================================================
