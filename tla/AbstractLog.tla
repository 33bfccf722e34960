---------------------------- MODULE AbstractLog ----------------------------
(***************************************************************************)
(* What a partition promises to producers and consumers, without files,    *)
(* segments or restarts: a log of batches that grows at its end and is     *)
(* trimmed at its front.  Offsets are assigned once and in sequence, a     *)
(* batch never changes or moves, a call adds its batch at most once, and   *)
(* an acknowledged batch leaves the log only when it is trimmed.           *)
(* PartitionLog implements this specification.                             *)
(***************************************************************************)
EXTENDS Integers

VARIABLES
  calls,  \* number of append calls so far
  kept,   \* the batches in the log
  start,  \* the first offset that is left
  end,    \* the next offset to be assigned
  acked   \* the acknowledged batches that were not trimmed

vars == <<calls, kept, start, end, acked>>

Batch == [base : Nat, n : Nat, id : Nat, ts : Nat]

Init ==
  /\ calls = 0 /\ kept = {} /\ start = 0 /\ end = 0 /\ acked = {}

Call ==
  /\ calls' = calls + 1
  /\ UNCHANGED <<kept, start, end, acked>>

\* The batch of the latest call goes to the end of the log.
Stored(x) ==
  /\ x \in Batch /\ x.n > 0
  /\ x.id = calls /\ \A y \in kept : y.id < calls
  /\ x.base = end
  /\ kept' = kept \cup {x}
  /\ end' = end + x.n
  /\ UNCHANGED <<calls, start>>

Append(x) == Stored(x) /\ UNCHANGED acked

AppendAcknowledged(x) == Stored(x) /\ acked' = acked \cup {x}

Acknowledge(x) ==
  /\ x \in kept /\ x.id = calls
  /\ acked' = acked \cup {x}
  /\ UNCHANGED <<calls, kept, start, end>>

\* Everything before offset s, where a batch begins or the log ends, goes.
Trim(s) ==
  /\ s > start
  /\ s = end \/ \E x \in kept : x.base = s
  /\ start' = s
  /\ kept' = {x \in kept : x.base >= s}
  /\ acked' = {x \in acked : x.base >= s}
  /\ UNCHANGED <<calls, end>>

Next ==
  \/ Call
  \/ \E x \in kept' : Append(x) \/ AppendAcknowledged(x)
  \/ \E x \in kept : Acknowledge(x)
  \/ Trim(start')

Spec == Init /\ [][Next]_vars
-----------------------------------------------------------------------------
\* Every offset of the log belongs to exactly one batch, an acknowledged
\* batch is in the log, and no two batches come from the same call.
Tiled ==
  /\ \A o \in start .. end - 1 : \E x \in kept : x.base <= o /\ o < x.base + x.n
  /\ \A x, y \in kept : x # y => x.id # y.id /\ (x.base + x.n <= y.base \/ y.base + y.n <= x.base)
  /\ acked \subseteq kept
=============================================================================
