------------------------ MODULE PartitionLogContract ------------------------
(***************************************************************************)
(* What PartitionLog promises to clients, and what a consumer group gets   *)
(* from it, for any sizes, bounds and clock readings and both flush modes, *)
(* when the process may end at any step.                                   *)
(*                                                                         *)
(* PartitionLog implements AbstractLog: Write appends, Flush acknowledges, *)
(* the deletion of the oldest segment trims, AppendStart is a call, and    *)
(* every other step changes nothing that a client can see.                 *)
(*                                                                         *)
(* The proofs about ConsumerGroup use the log only as that abstract log:   *)
(* its end never moves back, and a new batch begins at the end.            *)
(***************************************************************************)
EXTENDS ConsumerGroup, PartitionLogProofs

\* What the simulation needs beyond the inductive invariant: no batch lies
\* before the base of its file, some file is the last, and a batch that is
\* not yet written comes from a later call than all stored ones.
CallsOK ==
  /\ DOMAIN disk # {} => \E b \in DOMAIN disk : \A c \in DOMAIN disk : c <= b
  /\ \A b \in DOMAIN disk : \A i \in DOMAIN disk[b].batches : b <= disk[b].batches[i].base
  /\ \A x \in Kept : x.id <= sent
  /\ pc \in {"roll", "write"} => cur.id = sent /\ \A x \in Kept : x.id < sent
  /\ pc = "flush" => cur.id = sent

\* A step that clients do not see, or a step of the abstract log.
Simulates == Log!Next \/ UNCHANGED Log!vars
-----------------------------------------------------------------------------
(***************************************************************************)
(* The ends of the log.                                                    *)
(***************************************************************************)
\* The least element of a set of offsets.
LEMMA LeastOffset ==
  ASSUME NEW S, S \subseteq Nat, NEW b \in S, \A c \in S : b <= c
  PROVE  Min(S) = b
<1>1. \A x \in S : (\A y \in S : x =< y) <=> x = b
  OBVIOUS
<1> QED
  BY <1>1, Zenon DEF Min

\* The greatest element of a set of offsets.
LEMMA GreatestOffset ==
  ASSUME NEW S, S \subseteq Nat, NEW b \in S, \A c \in S : c <= b
  PROVE  Max(S) = b
<1>1. \A x \in S : (\A y \in S : x >= y) <=> x = b
  OBVIOUS
<1> QED
  BY <1>1, Zenon DEF Max

\* The files hold the same batches as before.
SameFiles ==
  /\ DOMAIN disk' = DOMAIN disk
  /\ \A b \in DOMAIN disk : disk'[b].batches = disk[b].batches

\* Clients see the batches of the files and nothing else of them.
LEMMA SameLog ==
  ASSUME SameFiles, DOMAIN disk \subseteq Nat, CallsOK
  PROVE  Kept' = Kept /\ LogStart' = LogStart /\ LogEnd' = LogEnd
<1>1. Kept' = Kept
  BY DEF SameFiles, Kept
<1>2. LogStart' = LogStart
  BY DEF SameFiles, LogStart
<1>3. CASE DOMAIN disk = {}
  <2>1. DOMAIN disk' = {}
    BY <1>3 DEF SameFiles
  <2>2. LogEnd = 0
    BY <1>3 DEF LogEnd
  <2>3. LogEnd' = 0
    BY <2>1 DEF LogEnd
  <2> QED
    BY <1>1, <1>2, <2>2, <2>3
<1>4. CASE DOMAIN disk # {}
  <2>1. PICK b \in DOMAIN disk : \A c \in DOMAIN disk : c <= b
    BY <1>4 DEF CallsOK
  <2>2. Max(DOMAIN disk) = b /\ Max(DOMAIN disk') = b
    BY <2>1, GreatestOffset DEF SameFiles
  <2>3. LogEnd = End(b, disk[b])
    BY <1>4, <2>2 DEF LogEnd
  <2>4. LogEnd' = End(b, disk'[b])
    BY <1>4, <2>2 DEF LogEnd, SameFiles
  <2>5. End(b, disk'[b]) = End(b, disk[b])
    BY <2>1 DEF SameFiles, End
  <2> QED
    BY <1>1, <1>2, <2>3, <2>4, <2>5
<1> QED
  BY <1>3, <1>4

\* An empty file at the end of the log, the first one of an empty directory
\* included, is not seen either; the files before it keep their batches.
LEMMA FileAdded ==
  ASSUME CallsOK, DOMAIN disk' \subseteq Nat,
         NEW a, DOMAIN disk' = DOMAIN disk \cup {a}, a \notin DOMAIN disk,
         disk'[a].batches = <<>>, LogEnd = a,
         \A b \in DOMAIN disk : b < a /\ disk'[b].batches = disk[b].batches,
         NEW f \in DOMAIN disk', LogStart = f, \A c \in DOMAIN disk' : f <= c
  PROVE  /\ Kept' = Kept /\ LogStart' = LogStart /\ LogEnd' = LogEnd
         /\ \E b \in DOMAIN disk' : \A c \in DOMAIN disk' : c <= b
         /\ \A b \in DOMAIN disk' : \A i \in DOMAIN disk'[b].batches : b <= disk'[b].batches[i].base
<1>1. a \in DOMAIN disk' /\ \A c \in DOMAIN disk' : c <= a
  OBVIOUS
<1>2. Range(disk'[a].batches) = {}
  BY DEF Range
<1>3. Kept' = Kept
  BY <1>2 DEF Kept
<1>4. LogStart' = f
  <2>1. Min(DOMAIN disk') = f
    BY LeastOffset, Zenon
  <2> QED
    BY <2>1 DEF LogStart
<1>5. LogEnd' = a
  <2>1. Max(DOMAIN disk') = a
    BY <1>1, GreatestOffset, Zenon
  <2> QED
    BY <1>1, <2>1 DEF LogEnd, End
<1>6. \A b \in DOMAIN disk' : \A i \in DOMAIN disk'[b].batches : b <= disk'[b].batches[i].base
  BY DEF CallsOK
<1> QED
  BY <1>1, <1>3, <1>4, <1>5, <1>6

\* The oldest segment of a store that accepts writes is the first file.
LEMMA OldestIsFirst ==
  ASSUME IInv, phase = "open", ~writeFailed
  PROVE  /\ segments[1].base \in DOMAIN disk /\ segments[1].base \in Nat
         /\ \A c \in DOMAIN disk : segments[1].base <= c
         /\ LogStart = segments[1].base /\ LogEnd = leo
<1>1. /\ segments # <<>> /\ MemoryTypeOK /\ DOMAIN disk \subseteq Nat
      /\ DOMAIN disk = {segments[i].base : i \in DOMAIN segments}
      /\ Active.base \in DOMAIN disk /\ \A c \in DOMAIN disk : c <= Active.base
      /\ End(Active.base, disk[Active.base]) = leo
  BY ActiveIsLast DEF IInv, DiskOK
<1>2. /\ Len(segments) \in Nat /\ DOMAIN segments = 1 .. Len(segments) /\ 1 \in DOMAIN segments
      /\ \A i \in DOMAIN segments : segments[i].base \in Nat
  BY <1>1, SegmentTypes
<1>3. \A i \in DOMAIN segments : i = 1 \/ 1 < i
  BY <1>2
<1>4. \A i, j \in DOMAIN segments : i < j => segments[i].base < segments[j].base
  BY DEF IInv, SegmentsOK
<1>5. \A i \in DOMAIN segments : segments[1].base <= segments[i].base
  BY <1>2, <1>3, <1>4
<1>6. segments[1].base \in DOMAIN disk /\ \A c \in DOMAIN disk : segments[1].base <= c
  BY <1>1, <1>2, <1>5
<1>7. LogStart = segments[1].base
  BY <1>1, <1>6, LeastOffset, Zenon DEF LogStart
<1>8. LogEnd = leo
  BY <1>1, GreatestOffset, Zenon DEF LogEnd
<1> QED
  BY <1>2, <1>6, <1>7, <1>8
-----------------------------------------------------------------------------
(***************************************************************************)
(* Steps that clients do not see.                                          *)
(***************************************************************************)
\* The running Append goes on with its batch, or no Append is running.
KeepsBatch ==
  \/ pc' \in {"idle", "age", "size"}
  \/ cur' = cur /\ (pc' = pc \/ (pc = "roll" /\ pc' = "write"))

\* A step that changes neither the batches of the files nor the calls.
LEMMA Invisible ==
  ASSUME IInv, CallsOK, SameFiles, sent' = sent, acked' = acked, KeepsBatch
  PROVE  CallsOK' /\ UNCHANGED Log!vars
<1>1. Kept' = Kept /\ LogStart' = LogStart /\ LogEnd' = LogEnd
  BY SameLog DEF IInv, DiskOK
<1>2. /\ DOMAIN disk' # {} => \E b \in DOMAIN disk' : \A c \in DOMAIN disk' : c <= b
      /\ \A b \in DOMAIN disk' : \A i \in DOMAIN disk'[b].batches : b <= disk'[b].batches[i].base
  BY DEF CallsOK, SameFiles
<1>3. CallsOK'
  BY <1>1, <1>2 DEF CallsOK, KeepsBatch
<1>4. UNCHANGED Log!vars
  BY <1>1 DEF Log!vars
<1> QED
  BY <1>3, <1>4

\* An fsync of a file, or another tail, leaves its batches alone.
LEMMA FileTouched ==
  ASSUME IInv, NEW a,
         \/ disk' = disk
         \/ disk' = [disk EXCEPT ![a] = Synced(@)]
         \/ disk' = [disk EXCEPT ![a] = Truncated(disk[a])]
         \/ \E t \in {"none", "short"} : disk' = [disk EXCEPT ![a].tail = t]
  PROVE  SameFiles
<1>1. DOMAIN disk' = DOMAIN disk /\ \A b \in DOMAIN disk : b # a => disk'[b] = disk[b]
  OBVIOUS
<1>2. ASSUME a \in DOMAIN disk PROVE disk'[a].batches = disk[a].batches
  <2>1. FileOK(a, disk[a])
    BY <1>2 DEF IInv, DiskOK
  <2>2. /\ Synced(disk[a]).batches = disk[a].batches
        /\ \A t \in {"none", "short"} : [disk[a] EXCEPT !.tail = t].batches = disk[a].batches
    BY <2>1, FileUpdates, Zenon
  <2> QED
    BY <1>2, <2>2, Zenon DEF Truncated
<1> QED
  BY <1>1, <1>2 DEF SameFiles

\* OpenStore creates the first file of an empty directory.
LEMMA FirstFileInvisible ==
  ASSUME IInv, CallsOK, DOMAIN disk = {}, disk' = Created(disk, 0),
         sent' = sent, acked' = acked, pc' = pc, pc = "idle"
  PROVE  CallsOK' /\ UNCHANGED Log!vars
<1>1. DOMAIN disk' = {0} /\ disk'[0].batches = <<>>
  BY FirstFile DEF EmptyFile
<1>2. LogStart = 0 /\ LogEnd = 0
  BY DEF LogStart, LogEnd
<1>3. DOMAIN disk' = DOMAIN disk \cup {0} /\ 0 \notin DOMAIN disk /\ 0 \in DOMAIN disk'
  BY <1>1
<1>4. /\ Kept' = Kept /\ LogStart' = LogStart /\ LogEnd' = LogEnd
      /\ \E b \in DOMAIN disk' : \A c \in DOMAIN disk' : c <= b
      /\ \A b \in DOMAIN disk' : \A i \in DOMAIN disk'[b].batches : b <= disk'[b].batches[i].base
  BY <1>1, <1>2, <1>3, FileAdded
<1>5. CallsOK'
  BY <1>4 DEF CallsOK
<1>6. UNCHANGED Log!vars
  BY <1>4 DEF Log!vars
<1> QED
  BY <1>5, <1>6

\* Append rolls to a new file, and fails or goes on with its batch.
LEMMA RollInvisible ==
  ASSUME IInv, CallsOK, pc = "roll", disk' = Created(RollFlushed, leo),
         sent' = sent, acked' = acked, KeepsBatch
  PROVE  CallsOK' /\ UNCHANGED Log!vars
<1> DEFINE f == segments[1].base
<1>1. /\ phase = "open" /\ ~writeFailed /\ leo \notin DOMAIN disk
      /\ DiskOK(disk') /\ DOMAIN disk' = DOMAIN disk \cup {leo} /\ disk'[leo] = EmptyFile
      /\ \A b \in DOMAIN disk : disk'[b].batches = disk[b].batches
      /\ Active.base < leo /\ leo \in Nat
  BY RollingDisk DEF IInv, MemoryTypeOK
<1>2. \A b \in DOMAIN disk : b < leo
  <2>1. Active.base \in Nat /\ \A c \in DOMAIN disk : c <= Active.base
    BY <1>1, ActiveIsLast
  <2>2. DOMAIN disk \subseteq Nat
    BY DEF IInv, DiskOK
  <2> QED
    BY <1>1, <2>1, <2>2
<1>3. /\ f \in DOMAIN disk /\ f \in Nat /\ \A c \in DOMAIN disk : f <= c
      /\ LogStart = f /\ LogEnd = leo
  BY <1>1, OldestIsFirst
<1>4. disk'[leo].batches = <<>> /\ DOMAIN disk' \subseteq Nat
  BY <1>1 DEF EmptyFile, DiskOK
<1>5. f \in DOMAIN disk' /\ \A c \in DOMAIN disk' : f <= c
  BY <1>1, <1>2, <1>3
<1> HIDE DEF f
<1>6. /\ Kept' = Kept /\ LogStart' = LogStart /\ LogEnd' = LogEnd
      /\ \E b \in DOMAIN disk' : \A c \in DOMAIN disk' : c <= b
      /\ \A b \in DOMAIN disk' : \A i \in DOMAIN disk'[b].batches : b <= disk'[b].batches[i].base
  BY <1>1, <1>2, <1>3, <1>4, <1>5, FileAdded
<1>7. CallsOK'
  BY <1>6 DEF CallsOK, KeepsBatch
<1>8. UNCHANGED Log!vars
  BY <1>6 DEF Log!vars
<1> QED
  BY <1>7, <1>8
-----------------------------------------------------------------------------
(***************************************************************************)
(* The steps of the abstract log.                                          *)
(***************************************************************************)
\* An Append call begins.
LEMMA AppendStartSimulates ==
  ASSUME NEW n \in 1 .. MaxRecords, NEW ts \in Times, IInv, CallsOK, AppendStart(n, ts)
  PROVE  CallsOK' /\ Simulates
<1>1. disk' = disk /\ sent' = sent + 1 /\ acked' = acked /\ cur'.id = sent + 1 /\ sent \in Nat
  BY DEF AppendStart, IInv, MemoryTypeOK
<1>2. SameFiles /\ DOMAIN disk \subseteq Nat
  BY <1>1 DEF SameFiles, IInv, DiskOK
<1>3. Kept' = Kept /\ LogStart' = LogStart /\ LogEnd' = LogEnd
  BY <1>2, SameLog
<1>4. \A x \in Kept : x.id \in Nat
  <2> SUFFICES ASSUME NEW b \in DOMAIN disk, NEW x \in Range(disk[b].batches) PROVE x.id \in Nat
    BY DEF Kept
  <2>1. disk[b] \in File
    BY DEF IInv, DiskOK, FileOK
  <2> QED
    BY <2>1, FileFields, BatchFields DEF Range
<1>5. \A x \in Kept : x.id <= sent' /\ x.id < sent'
  BY <1>1, <1>4 DEF CallsOK
<1>6. CallsOK'
  BY <1>1, <1>3, <1>5 DEF CallsOK
<1>7. Log!Call
  BY <1>1, <1>3 DEF Log!Call
<1> QED
  BY <1>6, <1>7 DEF Simulates, Log!Next

\* The fsync acknowledges the batch.
LEMMA FlushSimulates ==
  ASSUME IInv, CallsOK, Flush
  PROVE  CallsOK' /\ Simulates
<1>1. /\ sent' = sent /\ acked' = acked \cup {cur} /\ pc' = "idle" /\ cur.id = sent
      /\ phase = "open" /\ ~writeFailed /\ cur \in Range(disk[Active.base].batches)
  BY DEF Flush, Return, CallsOK, IInv, PcOK
<1>2. SameFiles /\ DOMAIN disk \subseteq Nat
  BY FileTouched, Zenon DEF Flush, IInv, DiskOK
<1>3. Kept' = Kept /\ LogStart' = LogStart /\ LogEnd' = LogEnd
  BY <1>2, SameLog
<1>4. cur \in Kept
  BY <1>1, ActiveIsLast DEF Kept
<1>5. CallsOK'
  BY <1>1, <1>2, <1>3 DEF CallsOK, SameFiles
<1>6. Log!Acknowledge(cur)
  BY <1>1, <1>3, <1>4 DEF Log!Acknowledge
<1> QED
  BY <1>4, <1>5, <1>6 DEF Simulates, Log!Next

\* The batch goes to the end of the log, in async mode acknowledged.
LEMMA WriteSimulates ==
  ASSUME IInv, CallsOK, Write
  PROVE  CallsOK' /\ Simulates
<1> DEFINE a == Active.base
           f == disk[a]
<1>1. /\ phase = "open" /\ ~writeFailed /\ cur \in Batch /\ cur.n > 0 /\ cur.base = leo
      /\ cur.id = sent /\ sent' = sent /\ leo \in Nat /\ sent \in Nat
      /\ \A x \in Kept : x.id < sent
  BY DEF Write, IInv, PcOK, MemoryTypeOK, CallsOK
<1>2. /\ a \in Nat /\ a \in DOMAIN disk /\ \A c \in DOMAIN disk : c <= a
      /\ End(a, f) = leo /\ FileOK(a, f) /\ LogEnd = leo /\ a <= leo
  BY <1>1, ActiveIsLast, OldestIsFirst DEF FileOK
<1>3. /\ DOMAIN disk' = DOMAIN disk /\ disk'[a] = WithBatch(f, cur)
      /\ \A b \in DOMAIN disk : b # a => disk'[b] = disk[b]
  BY <1>2 DEF Write, WithBatch
<1>4. /\ f \in File /\ f.batches \in Seq(Batch) /\ Len(f.batches) \in Nat
      /\ DOMAIN f.batches = 1 .. Len(f.batches)
  BY <1>2, FileFields DEF FileOK
<1>5. disk'[a].batches = Append(f.batches, cur)
  BY <1>3, <1>4 DEF WithBatch, File
<1> HIDE DEF a, f
<1>6. /\ DOMAIN disk'[a].batches = 1 .. Len(f.batches) + 1
      /\ \A i \in 1 .. Len(f.batches) : disk'[a].batches[i] = f.batches[i]
      /\ disk'[a].batches[Len(f.batches) + 1] = cur
      /\ disk'[a].batches # <<>> /\ Len(disk'[a].batches) = Len(f.batches) + 1
  BY <1>1, <1>4, <1>5
<1>7. Range(disk'[a].batches) = Range(f.batches) \cup {cur}
  <2>1. \A i : i \in 1 .. Len(f.batches) + 1 <=> i \in 1 .. Len(f.batches) \/ i = Len(f.batches) + 1
    BY <1>4
  <2> QED
    BY <1>4, <1>6, <2>1, Zenon DEF Range
<1>8. Kept' = Kept \cup {cur}
  <2>1. f = disk[a]
    BY DEF f
  <2> QED
    BY <1>2, <1>3, <1>7, <2>1 DEF Kept
<1>9. LogStart' = LogStart
  BY <1>3 DEF LogStart
<1>10. LogEnd' = LogEnd + cur.n
  <2>1. Max(DOMAIN disk') = a
    BY <1>2, <1>3, GreatestOffset DEF IInv, DiskOK
  <2>2. End(a, disk'[a]) = BatchEnd(cur)
    BY <1>6 DEF End
  <2> QED
    BY <1>1, <1>2, <1>3, <2>1, <2>2 DEF LogEnd, BatchEnd
<1>11. \A b \in DOMAIN disk' : \A i \in DOMAIN disk'[b].batches : b <= disk'[b].batches[i].base
  <2> SUFFICES ASSUME NEW b \in DOMAIN disk', NEW i \in DOMAIN disk'[b].batches
               PROVE  b <= disk'[b].batches[i].base
    OBVIOUS
  <2>1. CASE b # a
    BY <1>3, <2>1 DEF CallsOK
  <2>2. CASE b = a /\ i \in 1 .. Len(f.batches)
    BY <1>2, <1>4, <1>6, <2>2 DEF CallsOK, f
  <2>3. CASE b = a /\ i = Len(f.batches) + 1
    BY <1>1, <1>2, <1>6, <2>3
  <2> QED
    BY <1>4, <1>6, <2>1, <2>2, <2>3
<1>12. \A x \in Kept \cup {cur} : x.id <= sent
  BY <1>1 DEF CallsOK
<1>13. /\ pc' \in {"idle", "flush"} /\ (pc' = "flush" => cur' = cur)
       /\ \/ acked' = acked
          \/ acked' = acked \cup {cur}
  BY DEF Write, Return
<1>14. CallsOK'
  BY <1>1, <1>2, <1>3, <1>8, <1>11, <1>12, <1>13 DEF CallsOK
<1>15. Log!Stored(cur)
  BY <1>1, <1>2, <1>8, <1>9, <1>10 DEF Log!Stored, Log!Batch, Batch
<1>16. cur \in Kept' /\ (Log!Append(cur) \/ Log!AppendAcknowledged(cur))
  BY <1>8, <1>13, <1>15 DEF Log!Append, Log!AppendAcknowledged
<1> QED
  BY <1>14, <1>16 DEF Simulates, Log!Next

\* The deletion of the oldest file trims the log to the next file.
LEMMA DeleteOldestSimulates ==
  ASSUME NEW ok, IInv, CallsOK, pc \in {"age", "size"}, HasClosedSegment, DeleteOldest(ok),
         pc' \in {"idle", "age", "size"}
  PROVE  CallsOK' /\ Simulates
<1> DEFINE b == segments[1].base
           s == segments[2].base
<1>1. /\ phase = "open" /\ ~writeFailed /\ sent' = sent /\ DiskOK(disk)
      /\ acked' = {x \in acked : x.base >= s} /\ disk' = Without(disk, b)
  BY DEF DeleteOldest, IInv, PcOK
<1>2. /\ b \in DOMAIN disk /\ b \in Nat /\ \A c \in DOMAIN disk : b <= c
      /\ LogStart = b /\ LogEnd = leo
  BY <1>1, OldestIsFirst
<1>3. /\ Len(segments) \in Nat /\ DOMAIN segments = 1 .. Len(segments)
      /\ 1 \in DOMAIN segments /\ 2 \in DOMAIN segments /\ 1 \in 1 .. Len(segments) - 1
      /\ \A i \in DOMAIN segments : segments[i].base \in Nat
      /\ \A i \in DOMAIN segments : i = 1 \/ i = 2 \/ 2 < i
  BY <1>1, SegmentTypes DEF IInv, HasClosedSegment
<1>4. /\ \A i, j \in DOMAIN segments : i < j => segments[i].base < segments[j].base
      /\ segments[1].next = s /\ End(b, disk[b]) = segments[1].next
  <2>1. \A i \in 1 .. Len(segments) - 1 : segments[i].next = segments[i + 1].base
    BY <1>1 DEF IInv, SegmentsOK
  <2> QED
    BY <1>1, <1>3, <2>1 DEF IInv, SegmentsOK, Matches
<1>5. DOMAIN disk = {segments[i].base : i \in DOMAIN segments} /\ DOMAIN disk \subseteq Nat
  BY <1>1, ActiveIsLast DEF DiskOK
<1>6. /\ s \in DOMAIN disk /\ s \in Nat /\ b < s
      /\ \A c \in DOMAIN disk : c = b \/ s <= c
  <2>1. s \in DOMAIN disk /\ s \in Nat /\ b < s
    BY <1>3, <1>4, <1>5
  <2>2. \A i \in DOMAIN segments : i = 1 \/ s <= segments[i].base
    <3> HIDE DEF b
    <3> QED
      BY <1>3, <1>4
  <2> QED
    BY <1>5, <2>1, <2>2
<1>7. End(b, disk[b]) = s
  BY <1>4
<1> HIDE DEF b, s
<1>8. /\ DOMAIN disk' = DOMAIN disk \ {b} /\ \A c \in DOMAIN disk' : disk'[c] = disk[c]
  BY <1>1 DEF Without
<1>9. s \in DOMAIN disk' /\ \A c \in DOMAIN disk' : s <= c
  BY <1>2, <1>6, <1>8
<1>10. LogStart' = s
  <2>1. Min(DOMAIN disk') = s
    BY <1>5, <1>8, <1>9, LeastOffset
  <2> QED
    BY <1>9, <2>1 DEF LogStart
<1>11. /\ Active.base \in DOMAIN disk' /\ \A c \in DOMAIN disk' : c <= Active.base
       /\ End(Active.base, disk'[Active.base]) = leo
  <2>1. /\ Active.base \in DOMAIN disk /\ \A c \in DOMAIN disk : c <= Active.base
        /\ End(Active.base, disk[Active.base]) = leo
    BY <1>1, ActiveIsLast
  <2>2. Active.base # b
    BY <1>2, <1>5, <1>6, <2>1
  <2> QED
    BY <1>8, <2>1, <2>2
<1>12. LogEnd' = leo
  <2>1. Max(DOMAIN disk') = Active.base
    BY <1>5, <1>8, <1>11, GreatestOffset, Zenon
  <2> QED
    BY <1>11, <2>1 DEF LogEnd
<1>13. ASSUME NEW c \in DOMAIN disk, NEW x \in Range(disk[c].batches)
       PROVE  x.base >= s <=> c # b
  <2>1. FileOK(c, disk[c]) /\ disk[c] \in File
    BY <1>1 DEF DiskOK, FileOK
  <2>2. PICK i \in DOMAIN disk[c].batches : x = disk[c].batches[i]
    BY DEF Range
  <2>3. x \in Batch /\ x.base \in Nat /\ x.n \in Nat
    BY <2>1, <2>2, FileFields, BatchFields
  <2>4. x.n > 0 /\ x.base + x.n <= End(c, disk[c]) /\ c <= x.base
    BY <2>1, <2>2 DEF FileOK, BatchEnd, CallsOK
  <2>5. CASE c = b
    BY <1>6, <1>7, <2>3, <2>4, <2>5
  <2>6. CASE c # b
    BY <1>5, <1>6, <2>3, <2>4, <2>6
  <2> QED
    BY <2>5, <2>6
<1>14. Kept' = {x \in Kept : x.base >= s}
  <2>1. \A x : x \in Kept' <=> \E c \in DOMAIN disk : c # b /\ x \in Range(disk[c].batches)
    BY <1>8 DEF Kept
  <2>2. \A x : x \in Kept <=> \E c \in DOMAIN disk : x \in Range(disk[c].batches)
    BY DEF Kept
  <2> QED
    BY <1>13, <2>1, <2>2
<1>15. s = LogEnd \/ \E x \in Kept : x.base = s
  <2>1. FileOK(s, disk[s]) /\ Len(disk[s].batches) \in Nat
        /\ DOMAIN disk[s].batches = 1 .. Len(disk[s].batches) /\ disk[s].batches \in Seq(Batch)
    BY <1>1, <1>6, FileFields DEF DiskOK, FileOK
  <2>2. CASE disk[s].batches = <<>>
    <3>1. End(s, disk[s]) = s
      BY <2>2 DEF End
    <3>2. \A c \in DOMAIN disk : ~(s < c)
      <4> SUFFICES ASSUME NEW c \in DOMAIN disk, s < c PROVE FALSE
        OBVIOUS
      <4>1. s < End(s, disk[s])
        BY <1>1, <1>6 DEF DiskOK
      <4> QED
        BY <1>6, <3>1, <4>1
    <3>3. Active.base = s
      <4>1. Active.base \in DOMAIN disk /\ Active.base \in Nat /\ s <= Active.base /\ s \in Nat
        BY <1>5, <1>6, <1>8, <1>9, <1>11
      <4>2. ~(s < Active.base)
        BY <3>2, <4>1
      <4> QED
        BY <4>1, <4>2
    <3> QED
      BY <1>2, <1>8, <1>9, <1>11, <3>1, <3>3
  <2>3. CASE disk[s].batches # <<>>
    <3>1. 1 \in DOMAIN disk[s].batches
      BY <2>1, <2>3
    <3>2. disk[s].batches[1].base = s
      BY <2>1, <3>1 DEF FileOK, Continuous
    <3> QED
      BY <1>6, <3>1, <3>2 DEF Kept, Range
  <2> QED
    BY <2>2, <2>3
<1>16. Log!Trim(s)
  BY <1>1, <1>2, <1>6, <1>10, <1>12, <1>14, <1>15 DEF Log!Trim
<1>17. CallsOK'
  BY <1>1, <1>8, <1>11, <1>14 DEF CallsOK
<1> QED
  BY <1>10, <1>16, <1>17 DEF Simulates, Log!Next
-----------------------------------------------------------------------------
\* Every step of the store is a step of the abstract log or changes nothing
\* in it.
LEMMA NextSimulates == IInv /\ CallsOK /\ [Next]_vars => CallsOK' /\ Simulates
<1> SUFFICES ASSUME IInv, CallsOK, [Next]_vars PROVE CallsOK' /\ Simulates
  OBVIOUS
<1>1. CASE OpenStart \/ AgeDone \/ SizeDone \/ RelativeOverflow \/ UNCHANGED vars
  BY <1>1, FileTouched, Invisible
     DEF OpenStart, AgeDone, SizeDone, RelativeOverflow, RetentionUnchanged, Return, KeepsBatch,
         Simulates, vars
<1>2. ASSUME NEW now \in Times, RetentionStart(now) PROVE CallsOK' /\ Simulates
  BY <1>2, FileTouched, Invisible DEF RetentionStart, KeepsBatch, Simulates
<1>3. CASE RecoverSegment
  BY <1>3, FileTouched, Invisible, Zenon DEF RecoverSegment, KeepsBatch, Simulates
<1>4. CASE OpenDone \/ OpenFail
  <2>1. pc = "idle" /\ pc' = pc /\ cur' = cur /\ sent' = sent /\ acked' = acked
    BY <1>4 DEF OpenDone, OpenFail, IInv, PcOK
  <2>2. disk' = disk \/ (DOMAIN disk = {} /\ disk' = Created(disk, 0))
    <3>1. CASE OpenFail
      BY <3>1 DEF OpenFail
    <3>2. CASE OpenDone /\ segments = <<>>
      <4>1. DOMAIN segments = {}
        BY <3>2
      <4>2. Unopened = DOMAIN disk
        BY <4>1, Zenon DEF Unopened
      <4> QED
        BY <3>2, <4>2, Zenon DEF OpenDone
    <3>3. CASE OpenDone /\ segments # <<>>
      BY <3>3 DEF OpenDone
    <3> QED
      BY <1>4, <3>1, <3>2, <3>3
  <2> QED
    BY <2>1, <2>2, FileTouched, Invisible, FirstFileInvisible, Zenon DEF KeepsBatch, Simulates
<1>5. CASE Roll
  BY <1>5, RollInvisible DEF Roll, KeepsBatch, Simulates
<1>6. CASE RollFail
  <2>1. pc = "roll" /\ sent' = sent /\ acked' = acked /\ KeepsBatch
    BY <1>6 DEF RollFail, Return, KeepsBatch
  <2>2. disk' = disk \/ disk' = RollFlushed \/ disk' = Created(RollFlushed, leo)
    BY <1>6 DEF RollFail
  <2>3. CASE disk' = Created(RollFlushed, leo)
    BY <2>1, <2>3, RollInvisible DEF Simulates
  <2>4. CASE disk' = disk \/ disk' = RollFlushed
    BY <2>1, <2>4, FileTouched, Invisible DEF RollFlushed, Simulates
  <2> QED
    BY <2>2, <2>3, <2>4
<1>7. CASE WriteFail
  BY <1>7, FileTouched, Invisible, Zenon DEF WriteFail, Return, KeepsBatch, Simulates
<1>8. CASE FlushFail \/ Close
  BY <1>8, FileTouched, Invisible DEF FlushFail, Close, Return, KeepsBatch, Simulates
<1>9. CASE Crash
  <2>1. sent' = sent /\ acked' = acked /\ KeepsBatch
    BY <1>9 DEF Crash, ProcessEnds, KeepsBatch
  <2>2. disk' = disk \/ \E t \in {"none", "short"} : disk' = [disk EXCEPT ![Active.base].tail = t]
    BY <1>9 DEF Crash
  <2> QED
    BY <2>1, <2>2, FileTouched, Invisible DEF Simulates
<1>10. CASE RetainByAge \/ RetainBySize
  <2>1. pc \in {"age", "size"} /\ HasClosedSegment /\ pc' \in {"idle", "age", "size"}
    BY <1>10, Zenon DEF RetainByAge, RetainBySize, Expired, MayBeTooLarge
  <2>2. DeleteOldest(TRUE) \/ DeleteOldest(FALSE) \/ RetentionUnchanged
    BY <1>10, Zenon DEF RetainByAge, RetainBySize
  <2>3. CASE RetentionUnchanged
    BY <2>1, <2>3, FileTouched, Invisible DEF RetentionUnchanged, KeepsBatch, Simulates
  <2> QED
    BY <2>1, <2>2, <2>3, DeleteOldestSimulates
<1> QED
  BY <1>1, <1>2, <1>3, <1>4, <1>5, <1>6, <1>7, <1>8, <1>9, <1>10,
     AppendStartSimulates, WriteSimulates, FlushSimulates, SMTT(30) DEF Next

\* The initial states.
LEMMA InitSimulates == Init => CallsOK /\ Log!Init
<1> SUFFICES ASSUME Init PROVE CallsOK /\ Log!Init
  OBVIOUS
<1>1. DOMAIN disk = {} /\ pc = "idle" /\ sent = 0 /\ acked = {}
  BY DEF Init
<1>2. Kept = {}
  BY <1>1 DEF Kept
<1>3. LogStart = 0 /\ LogEnd = 0
  BY <1>1 DEF LogStart, LogEnd
<1> QED
  BY <1>1, <1>2, <1>3 DEF CallsOK, Log!Init

\* The store with its files, rolls, failures, recoveries and crashes
\* implements the abstract log.
THEOREM Implementation == Spec => ImplementsLog
<1>1. Init => IInv /\ CallsOK /\ Log!Init
  BY InitIInv, InitSimulates
<1>2. IInv /\ CallsOK /\ [Next]_vars => IInv' /\ CallsOK' /\ [Log!Next]_Log!vars
  BY NextIInv, NextSimulates DEF Simulates
<1> QED
  BY <1>1, <1>2, PTL DEF Spec, ImplementsLog, Log!Spec

-----------------------------------------------------------------------------
(***************************************************************************)
(* The abstract log is tiled by its batches.                               *)
(***************************************************************************)
\* The inductive invariant of the abstract log: the batches lie within it
\* and come from earlier calls.
LogInv ==
  /\ sent \in Nat /\ LogStart \in Nat /\ LogEnd \in Nat /\ LogStart <= LogEnd
  /\ Kept \subseteq Log!Batch
  /\ \A x \in Kept : /\ x.n > 0 /\ x.id <= sent
                     /\ LogStart <= x.base /\ x.base + x.n <= LogEnd
  /\ Log!Tiled

\* The fields of a batch.
LEMMA LogFields ==
  ASSUME NEW x \in Log!Batch
  PROVE  x.base \in Nat /\ x.n \in Nat /\ x.id \in Nat
  BY DEF Log!Batch

\* A batch at the end continues the tiling.
LEMMA StoredTiled ==
  ASSUME LogInv, NEW x, Log!Stored(x), acked' \in {acked, acked \cup {x}}
  PROVE  LogInv'
<1>1. /\ x \in Log!Batch /\ x.n > 0 /\ x.id = sent /\ x.base = LogEnd
      /\ \A y \in Kept : y.id < sent
      /\ Kept' = Kept \cup {x} /\ LogEnd' = LogEnd + x.n /\ sent' = sent /\ LogStart' = LogStart
      /\ x.base \in Nat /\ x.n \in Nat /\ x.id \in Nat
  BY LogFields DEF Log!Stored
<1>2. /\ sent \in Nat /\ LogStart \in Nat /\ LogEnd \in Nat /\ LogStart <= LogEnd /\ LogEnd' \in Nat
      /\ \A y \in Kept : y.base \in Nat /\ y.n \in Nat /\ y.id \in Nat
  BY <1>1, LogFields DEF LogInv
<1>3. \A y \in Kept' : /\ y.n > 0 /\ y.id <= sent'
                       /\ LogStart' <= y.base /\ y.base + y.n <= LogEnd'
  <2>1. \A y \in Kept : /\ y.n > 0 /\ y.id <= sent
                        /\ LogStart <= y.base /\ y.base + y.n <= LogEnd + x.n
    BY <1>1, <1>2 DEF LogInv
  <2> QED
    BY <1>1, <1>2, <2>1
<1>4. \A o \in LogStart' .. LogEnd' - 1 : \E y \in Kept' : y.base <= o /\ o < y.base + y.n
  <2> SUFFICES ASSUME NEW o \in LogStart .. (LogEnd + x.n) - 1
               PROVE  \E y \in Kept' : y.base <= o /\ o < y.base + y.n
    BY <1>1
  <2>1. CASE o \in LogStart .. LogEnd - 1
    BY <1>1, <2>1 DEF LogInv, Log!Tiled
  <2>2. CASE LogEnd <= o
    BY <1>1, <1>2, <2>2
  <2> QED
    BY <1>2, <2>1, <2>2
<1>5. \A y, z \in Kept' : y # z => /\ y.id # z.id
                                   /\ y.base + y.n <= z.base \/ z.base + z.n <= y.base
  <2> SUFFICES ASSUME NEW y \in Kept', NEW z \in Kept', y # z
               PROVE  /\ y.id # z.id
                      /\ y.base + y.n <= z.base \/ z.base + z.n <= y.base
    OBVIOUS
  <2>1. CASE y \in Kept /\ z \in Kept
    BY <2>1 DEF LogInv, Log!Tiled
  <2>2. CASE y \in Kept /\ z = x
    BY <1>1, <1>2, <2>2 DEF LogInv
  <2>3. CASE y = x /\ z \in Kept
    BY <1>1, <1>2, <2>3 DEF LogInv
  <2> QED
    BY <1>1, <2>1, <2>2, <2>3
<1>6. acked' \subseteq Kept'
  BY <1>1 DEF LogInv, Log!Tiled
<1>7. Kept' \subseteq Log!Batch /\ LogStart' <= LogEnd'
  BY <1>1, <1>2 DEF LogInv
<1> QED
  BY <1>1, <1>2, <1>3, <1>4, <1>5, <1>6, <1>7 DEF LogInv, Log!Tiled

\* What is left after a trim is tiled, since it begins where a batch does.
LEMMA TrimTiled ==
  ASSUME LogInv, NEW s, Log!Trim(s)
  PROVE  LogInv'
<1>1. /\ s > LogStart /\ LogStart' = s /\ Kept' = {x \in Kept : x.base >= s}
      /\ acked' = {x \in acked : x.base >= s} /\ sent' = sent /\ LogEnd' = LogEnd
      /\ s = LogEnd \/ \E x \in Kept : x.base = s
  BY DEF Log!Trim
<1>2. /\ sent \in Nat /\ LogStart \in Nat /\ LogEnd \in Nat
      /\ \A y \in Kept : /\ y.base \in Nat /\ y.n \in Nat /\ y.id \in Nat
                         /\ y.n > 0 /\ y.base + y.n <= LogEnd
  BY LogFields DEF LogInv
<1>3. s \in Nat /\ s <= LogEnd
  BY <1>1, <1>2
<1>4. ASSUME NEW o \in s .. LogEnd - 1
      PROVE  \E y \in Kept' : y.base <= o /\ o < y.base + y.n
  <2>1. o \in LogStart .. LogEnd - 1 /\ o \in Nat /\ s <= o /\ s # LogEnd
    BY <1>1, <1>2, <1>3
  <2>2. PICK y \in Kept : y.base <= o /\ o < y.base + y.n
    BY <2>1 DEF LogInv, Log!Tiled
  <2>3. PICK x \in Kept : x.base = s
    BY <1>1, <2>1
  <2>4. y = x \/ y.base + y.n <= x.base \/ x.base + x.n <= y.base
    BY DEF LogInv, Log!Tiled
  <2>5. y.base >= s
    BY <1>2, <1>3, <2>1, <2>2, <2>3, <2>4
  <2> QED
    BY <1>1, <2>2, <2>5
<1>5. Kept' \subseteq Kept /\ acked' \subseteq Kept'
  BY <1>1 DEF LogInv, Log!Tiled
<1>6. Log!Tiled'
  BY <1>1, <1>4, <1>5 DEF LogInv, Log!Tiled
<1>7. \A x \in Kept' : /\ x.n > 0 /\ x.id <= sent'
                       /\ LogStart' <= x.base /\ x.base + x.n <= LogEnd'
  BY <1>1, <1>2, <1>3 DEF LogInv
<1> QED
  BY <1>1, <1>2, <1>3, <1>5, <1>6, <1>7 DEF LogInv

\* Every step of the abstract log preserves its inductive invariant.
LEMMA SimulatedTiling == LogInv /\ Simulates => LogInv'
<1> SUFFICES ASSUME LogInv, Simulates PROVE LogInv'
  OBVIOUS
<1>1. CASE Log!Call
  <2>1. /\ sent' = sent + 1 /\ Kept' = Kept /\ LogStart' = LogStart /\ LogEnd' = LogEnd /\ acked' = acked
        /\ sent \in Nat
    BY <1>1 DEF Log!Call, LogInv
  <2>2. \A x \in Kept : x.id \in Nat /\ x.id <= sent
    BY LogFields DEF LogInv
  <2>3. \A x \in Kept : x.id <= sent'
    BY <2>1, <2>2
  <2> QED
    BY <2>1, <2>3 DEF LogInv, Log!Tiled
<1>2. ASSUME NEW x \in Kept', Log!Append(x) \/ Log!AppendAcknowledged(x) PROVE LogInv'
  BY <1>2, StoredTiled DEF Log!Append, Log!AppendAcknowledged
<1>3. ASSUME NEW x \in Kept, Log!Acknowledge(x) PROVE LogInv'
  BY <1>3 DEF Log!Acknowledge, LogInv, Log!Tiled
<1>4. CASE Log!Trim(LogStart')
  BY <1>4, TrimTiled
<1>5. CASE UNCHANGED Log!vars
  BY <1>5 DEF Log!vars, LogInv, Log!Tiled
<1> QED
  BY <1>1, <1>2, <1>3, <1>4, <1>5 DEF Simulates, Log!Next

\* Every offset between the ends of the abstract log lies in exactly one
\* batch, no two batches come from one call, and acknowledged batches are in
\* the log.
THEOREM AlwaysTiled == Log!Spec => [](LogInv /\ Log!Tiled)
<1>1. Log!Init => LogInv
  BY DEF Log!Init, LogInv, Log!Tiled
<1>2. [Log!Next]_Log!vars => Simulates
  BY DEF Simulates
<1>3. LogInv => Log!Tiled
  BY DEF LogInv
<1> QED
  BY <1>1, <1>2, <1>3, SimulatedTiling, PTL DEF Log!Spec

\* The batches in the files tile the log.
THEOREM LogAlwaysTiled == Spec => []LogTiled
<1>1. Log!Tiled => LogTiled
  BY DEF LogTiled
<1> QED
  BY <1>1, Implementation, AlwaysTiled, PTL DEF ImplementsLog
-----------------------------------------------------------------------------
(***************************************************************************)
(* logEndOffset and earliestOffset are the ends of the log, also after a   *)
(* failed write and after Close.                                           *)
(***************************************************************************)
EndsOK == phase \in {"open", "closed"} => leo = LogEnd /\ earliest = LogStart

\* A store that accepts writes knows the ends of the log.
LEMMA OpenEnds == IInv /\ phase = "open" /\ ~writeFailed => leo = LogEnd /\ earliest = LogStart
<1> SUFFICES ASSUME IInv, phase = "open", ~writeFailed PROVE leo = LogEnd /\ earliest = LogStart
  OBVIOUS
<1>1. segments # <<>> /\ segments[1].base = earliest
  BY ActiveIsLast DEF IInv, SegmentsOK
<1> QED
  BY <1>1, OldestIsFirst

\* A step that leaves a store that accepts no more writes keeps the log.
LEMMA FailedEnds ==
  ASSUME IInv, CallsOK, [Next]_vars, phase' \in {"open", "closed"}, writeFailed' \/ phase' = "closed"
  PROVE  /\ LogEnd' = LogEnd /\ LogStart' = LogStart /\ leo' = leo /\ earliest' = earliest
         /\ phase \in {"open", "closed"}
<1> SUFFICES /\ UNCHANGED Log!vars /\ leo' = leo /\ earliest' = earliest
             /\ phase \in {"open", "closed"}
  BY DEF Log!vars
<1>1. CASE RollFail
  <2>1. /\ pc = "roll" /\ sent' = sent /\ acked' = acked /\ KeepsBatch
        /\ leo' = leo /\ earliest' = earliest /\ phase = "open"
    BY <1>1 DEF RollFail, Return, KeepsBatch, IInv, PcOK
  <2>2. disk' = disk \/ disk' = RollFlushed \/ disk' = Created(RollFlushed, leo)
    BY <1>1 DEF RollFail
  <2>3. CASE disk' = Created(RollFlushed, leo)
    BY <2>1, <2>3, RollInvisible
  <2>4. CASE disk' = disk \/ disk' = RollFlushed
    BY <2>1, <2>4, FileTouched, Invisible DEF RollFlushed
  <2> QED
    BY <2>1, <2>2, <2>3, <2>4, Zenon
<1>2. CASE WriteFail \/ RelativeOverflow
  <2>1. /\ sent' = sent /\ acked' = acked /\ KeepsBatch
        /\ leo' = leo /\ earliest' = earliest /\ phase = "open"
    BY <1>2 DEF WriteFail, RelativeOverflow, Return, KeepsBatch, IInv, PcOK
  <2>2. disk' = disk \/ \E t \in {"none", "short"} : disk' = [disk EXCEPT ![Active.base].tail = t]
    BY <1>2 DEF WriteFail, RelativeOverflow
  <2> QED
    BY <2>1, <2>2, FileTouched, Invisible
<1>3. CASE FlushFail \/ Close
  <2>1. /\ sent' = sent /\ acked' = acked /\ KeepsBatch
        /\ leo' = leo /\ earliest' = earliest /\ phase = "open"
    BY <1>3 DEF FlushFail, Close, Return, KeepsBatch, IInv, PcOK, memory
  <2>2. disk' = disk \/ disk' = [disk EXCEPT ![Active.base] = Synced(@)]
    BY <1>3 DEF FlushFail, Close
  <2> QED
    BY <2>1, <2>2, FileTouched, Invisible
<1>4. CASE UNCHANGED vars
  <2>1. SameFiles /\ sent' = sent /\ acked' = acked /\ KeepsBatch
    BY <1>4, FileTouched DEF vars, KeepsBatch
  <2> QED
    BY <1>4, <2>1, Invisible DEF vars
<1>5. OpenStart \/ RecoverSegment \/ OpenFail \/ Crash => phase' \notin {"open", "closed"}
  BY DEF OpenStart, RecoverSegment, OpenFail, Crash, ProcessEnds
<1>6. OpenDone => phase' = "open" /\ ~writeFailed'
  BY DEF OpenDone, IInv, UnopenedOK
<1>7. \A n, ts : AppendStart(n, ts) => phase' = "open" /\ ~writeFailed'
  BY DEF AppendStart, memory
<1>8. Roll \/ Write \/ Flush => phase' = "open" /\ ~writeFailed'
  BY DEF Roll, Write, Flush, memory, IInv, PcOK
<1>9. \A now : RetentionStart(now) => phase' = "open" /\ ~writeFailed'
  BY DEF RetentionStart, memory
<1>10. RetainByAge \/ AgeDone \/ RetainBySize \/ SizeDone => phase' = "open" /\ ~writeFailed'
  <2>1. RetainByAge \/ AgeDone \/ RetainBySize \/ SizeDone => phase = "open" /\ ~writeFailed
    BY Zenon DEF RetainByAge, AgeDone, RetainBySize, SizeDone, IInv, PcOK
  <2>2. RetentionUnchanged \/ DeleteOldest(TRUE) \/ DeleteOldest(FALSE)
          => phase' = phase /\ writeFailed' = writeFailed
    BY DEF RetentionUnchanged, DeleteOldest, memory
  <2>3. RetainByAge \/ AgeDone \/ RetainBySize \/ SizeDone
          => RetentionUnchanged \/ DeleteOldest(TRUE) \/ DeleteOldest(FALSE)
    BY Zenon DEF RetainByAge, AgeDone, RetainBySize, SizeDone
  <2> QED
    BY <2>1, <2>2, <2>3
<1> QED
  BY <1>1, <1>2, <1>3, <1>4, <1>5, <1>6, <1>7, <1>8, <1>9, <1>10, Zenon DEF Next

\* Every step keeps the offsets of the store at the ends of the log.
LEMMA NextEnds == IInv /\ CallsOK /\ EndsOK /\ [Next]_vars => EndsOK'
<1>1. (IInv /\ phase = "open" /\ ~writeFailed => leo = LogEnd /\ earliest = LogStart)'
  BY OpenEnds, PTL
<1>2. IInv /\ [Next]_vars => IInv'
  BY NextIInv
<1> QED
  BY <1>1, <1>2, FailedEnds DEF EndsOK
-----------------------------------------------------------------------------
(***************************************************************************)
(* The consumer group.                                                    *)
(***************************************************************************)
\* Offset o belongs to batch x.
Covers(x, o) == x.base <= o /\ o < BatchEnd(x)

\* The records of R lie before offset end, and no batch of kept has another
\* record at their offsets.
Recorded(R, kept, end) ==
  \A d \in R : d[1] < end /\ \A x \in kept : Covers(x, d[1]) => x.id = d[2]

\* R has every record of kept at the offsets from lo to hi - 1.
Processed(lo, hi, R, kept) ==
  \A x \in kept, o \in Nat : Covers(x, o) /\ lo <= o /\ o < hi => <<o, x.id>> \in R

\* What the handlers have read so far.
AnswerOK ==
  handler = "fetch" =>
    /\ step > 1 => /\ position <= answer.next /\ answer.next <= LogEnd
                   /\ Processed(position, answer.next, answer.records, Kept)
    /\ step > 2 => answer.low <= LogStart
    /\ step > 3 => answer.next <= answer.end /\ answer.low <= answer.end

\* The log.
LogOK == IInv /\ CallsOK /\ LogInv /\ EndsOK

\* The inductive invariant.
GInv ==
  /\ LogOK
  /\ GroupTypeOK
  /\ committed <= LogEnd /\ position <= LogEnd
  /\ Recorded(delivered, Kept, LogEnd) /\ Recorded(answer.records, Kept, LogEnd)
  /\ Processed(0, committed, delivered, Kept) /\ Processed(0, position, delivered, Kept)
  /\ AnswerOK
-----------------------------------------------------------------------------
(***************************************************************************)
(* The log as the group sees it.                                           *)
(***************************************************************************)
\* The types that the abstract log gives its batches and ends.
LEMMA LogTypes ==
  ASSUME LogInv
  PROVE  /\ LogStart \in Nat /\ LogEnd \in Nat /\ LogStart <= LogEnd
         /\ \A x \in Kept : /\ x \in Batch /\ x.base \in Nat /\ x.n \in Nat /\ x.id \in Nat
                            /\ BatchEnd(x) \in Nat /\ BatchEnd(x) <= LogEnd
         /\ \A x, y \in Kept, o \in Nat : Covers(x, o) /\ Covers(y, o) => x = y
<1>1. /\ LogStart \in Nat /\ LogEnd \in Nat /\ LogStart <= LogEnd
      /\ \A x \in Kept : x \in Batch /\ x.base + x.n <= LogEnd
      /\ \A x, y \in Kept : x # y => x.base + x.n <= y.base \/ y.base + y.n <= x.base
  BY DEF LogInv, Log!Tiled, Log!Batch, Batch
<1>2. \A x \in Kept : x.base \in Nat /\ x.n \in Nat /\ x.id \in Nat /\ BatchEnd(x) \in Nat
  BY <1>1, BatchFields
<1> QED
  BY <1>1, <1>2 DEF Covers, BatchEnd

\* The bases of the batches are offsets.
LEMMA KeptTypes == LogInv => \A x \in Kept : x.base \in Nat
  BY LogTypes

\* The start and the end of the log never move back, and what a step adds to
\* the log begins at its end.
Grows ==
  /\ LogStart <= LogStart' /\ LogStart' \in Nat /\ LogEnd <= LogEnd' /\ LogEnd' \in Nat
  /\ \A x \in Kept' : x \in Kept \/ x.base >= LogEnd

\* Every step of the store lets the log grow.
LEMMA LogGrows ==
  ASSUME LogInv, Simulates
  PROVE  Grows
<1>1. LogStart \in Nat /\ LogEnd \in Nat
  BY LogTypes
<1>2. ASSUME NEW x, Log!Stored(x) PROVE Grows
  <2>1. /\ x.n \in Nat /\ x.base = LogEnd /\ Kept' = Kept \cup {x} /\ LogEnd' = LogEnd + x.n
        /\ LogStart' = LogStart
    BY <1>2 DEF Log!Stored, Log!Batch
  <2> QED
    BY <1>1, <2>1 DEF Grows
<1>3. ASSUME Kept' \subseteq Kept, LogEnd' = LogEnd, LogStart' = LogStart PROVE Grows
  BY <1>1, <1>3 DEF Grows
<1>4. CASE Log!Trim(LogStart')
  <2>1. LogStart' \in Nat
    <3>1. LogStart' = LogEnd \/ \E x \in Kept : x.base = LogStart'
      BY <1>4 DEF Log!Trim
    <3> QED
      BY <1>1, <3>1, LogTypes
  <2>2. LogStart' > LogStart /\ LogEnd' = LogEnd /\ Kept' \subseteq Kept
    BY <1>4 DEF Log!Trim
  <2> QED
    BY <1>1, <2>1, <2>2 DEF Grows
<1> QED
  BY <1>2, <1>3, <1>4 DEF Simulates, Log!Next, Log!vars, Log!Call, Log!Append, Log!AppendAcknowledged,
                    Log!Acknowledge, Log!Trim

\* A step of the store keeps what is known of the log.
LEMMA LogStepOK == LogOK /\ [Next]_vars => LogOK' /\ Grows
<1> SUFFICES ASSUME LogOK, [Next]_vars PROVE LogOK' /\ Grows
  OBVIOUS
<1>1. IInv' /\ CallsOK' /\ Simulates /\ EndsOK'
  BY NextIInv, NextSimulates, NextEnds DEF LogOK
<1>2. LogInv' /\ Grows
  BY <1>1, SimulatedTiling, LogGrows DEF LogOK
<1> QED
  BY <1>1, <1>2 DEF LogOK

\* A step that changes nothing of the store but its pending directory
\* entries keeps the log.
LEMMA LogSame ==
  ASSUME LogOK, UNCHANGED <<disk, phase, memory, pc, cur, cutoff, sent, acked>>,
         pending' \in Seq(DirChange)
  PROVE  LogOK' /\ Kept' = Kept /\ LogEnd' = LogEnd /\ LogStart' = LogStart
<1>1. DiskOK(disk') /\ SegmentsOK' /\ UnopenedOK' /\ AckedRetained' /\ Active' = Active
  BY NothingStored DEF LogOK, memory, IInv, UnopenedOK
<1>2. IInv'
  BY <1>1 DEF LogOK, IInv, MemoryTypeOK, PcOK, memory
<1>3. SameFiles /\ KeepsBatch
  BY DEF SameFiles, KeepsBatch
<1>4. CallsOK' /\ UNCHANGED Log!vars
  BY <1>3, Invisible DEF LogOK
<1>5. Kept' = Kept /\ LogEnd' = LogEnd /\ LogStart' = LogStart
  BY <1>4 DEF Log!vars
<1>6. LogInv'
  BY <1>4, SimulatedTiling DEF Simulates, LogOK
<1>7. EndsOK'
  BY <1>5 DEF LogOK, EndsOK, memory
<1> QED
  BY <1>2, <1>4, <1>5, <1>6, <1>7, Zenon DEF LogOK
-----------------------------------------------------------------------------
(***************************************************************************)
(* The group.                                                              *)
(***************************************************************************)
\* Growth of the log keeps what was delivered.
LEMMA StillRecorded ==
  ASSUME NEW R, NEW kept, NEW kept2, NEW end \in Nat, NEW end2 \in Nat, R \subseteq Nat \X Nat,
         end <= end2, \A x \in kept2 : x \in kept \/ x.base >= end,
         \A x \in kept2 : x.base \in Nat,
         Recorded(R, kept, end)
  PROVE  Recorded(R, kept2, end2)
<1> SUFFICES ASSUME NEW d \in R
             PROVE  d[1] < end2 /\ \A x \in kept2 : Covers(x, d[1]) => x.id = d[2]
  BY DEF Recorded
<1>1. d[1] \in Nat /\ d[1] < end /\ \A x \in kept : Covers(x, d[1]) => x.id = d[2]
  BY DEF Recorded
<1>2. d[1] < end2 /\ \A x \in kept2 : x.base >= end => ~Covers(x, d[1])
  BY <1>1 DEF Covers
<1> QED
  BY <1>1, <1>2

\* Growth of the log adds nothing before an offset that lay within it.
LEMMA StillProcessed ==
  ASSUME NEW lo, NEW hi \in Nat, NEW R, NEW kept, NEW kept2, NEW end \in Nat,
         hi <= end, \A x \in kept2 : x \in kept \/ x.base >= end,
         \A x \in kept2 : x.base \in Nat,
         Processed(lo, hi, R, kept)
  PROVE  Processed(lo, hi, R, kept2)
<1>1. \A x \in kept2, o \in Nat : Covers(x, o) /\ o < hi => x \in kept
  BY DEF Covers
<1> QED
  BY <1>1 DEF Processed

\* The records at the offsets from lo to hi - 1.
LEMMA RecordsCovered ==
  ASSUME NEW lo, NEW hi
  PROVE  RecordsIn(lo, hi) =
           {<<p[1], p[2].id>> : p \in {q \in (lo .. hi - 1) \X Kept : Covers(q[2], q[1])}}
  BY DEF RecordsIn, Kept, Covers

\* What Read returns: the records of the batches that cover the offsets.
LEMMA ReadRecords ==
  ASSUME LogInv, NEW lo \in Nat, NEW hi \in Nat, hi <= LogEnd
  PROVE  /\ RecordsIn(lo, hi) \subseteq Nat \X Nat
         /\ Recorded(RecordsIn(lo, hi), Kept, LogEnd)
         /\ Processed(lo, hi, RecordsIn(lo, hi), Kept)
<1>1. \A x \in Kept : x.id \in Nat
  BY LogTypes
<1>2. RecordsIn(lo, hi) = {<<p[1], p[2].id>> : p \in {q \in (lo .. hi - 1) \X Kept : Covers(q[2], q[1])}}
  BY RecordsCovered
<1>3. ASSUME NEW d \in RecordsIn(lo, hi)
      PROVE  /\ d \in Nat \X Nat /\ d[1] < LogEnd
             /\ \A x \in Kept : Covers(x, d[1]) => x.id = d[2]
  <2>1. PICK p \in (lo .. hi - 1) \X Kept : Covers(p[2], p[1]) /\ d = <<p[1], p[2].id>>
    BY <1>2
  <2>2. p[1] \in Nat /\ p[1] < hi /\ p[2] \in Kept
    BY <2>1
  <2>3. d[1] = p[1] /\ d[2] = p[2].id /\ d \in Nat \X Nat
    BY <1>1, <2>1, <2>2
  <2>4. d[1] < LogEnd
    BY <2>2, <2>3, LogTypes
  <2> QED
    BY <2>1, <2>2, <2>3, <2>4, LogTypes
<1>4. ASSUME NEW x \in Kept, NEW o \in Nat, Covers(x, o), lo <= o, o < hi
      PROVE  <<o, x.id>> \in RecordsIn(lo, hi)
  <2>1. <<o, x>> \in {q \in (lo .. hi - 1) \X Kept : Covers(q[2], q[1])}
    BY <1>4
  <2> QED
    BY <1>2, <2>1
<1> QED
  BY <1>3, <1>4 DEF Recorded, Processed

\* A step of the log.
LEMMA LogStepGInv == GInv /\ LogStep([Next]_vars) => GInv'
<1> SUFFICES ASSUME GInv, LogStep([Next]_vars) PROVE GInv'
  OBVIOUS
<1>1. LogOK' /\ Grows
  BY LogStepOK DEF GInv, LogStep
<1>2. /\ committed' = committed /\ position' = position /\ delivered' = delivered
      /\ \/ handler' = handler /\ step' = step /\ answer' = answer
         \/ handler' = "none" /\ step' = 1 /\ answer' = NoAnswer
  BY DEF LogStep, EndHandler, Begin
<1>3. /\ LogEnd \in Nat /\ LogEnd' \in Nat /\ LogEnd <= LogEnd'
      /\ LogStart \in Nat /\ LogStart' \in Nat /\ LogStart <= LogStart'
      /\ \A x \in Kept' : x \in Kept \/ x.base >= LogEnd
  BY <1>1, LogTypes DEF Grows, GInv, LogOK
<1>4. \A x \in Kept' : x.base \in Nat
  <2>1. (LogInv => \A x \in Kept : x.base \in Nat)'
    BY KeptTypes, PTL
  <2> QED
    BY <1>1, <2>1 DEF LogOK
<1>5. /\ committed \in Nat /\ position \in Nat /\ delivered \subseteq Nat \X Nat
      /\ answer.records \subseteq Nat \X Nat /\ answer.next \in Nat /\ answer.low \in Nat
      /\ NoAnswer \in Answer /\ NoAnswer.records = {}
  BY DEF GInv, GroupTypeOK, Answer, NoAnswer
<1>6. GroupTypeOK'
  BY <1>2, <1>5 DEF GInv, GroupTypeOK
<1>7. committed' <= LogEnd' /\ position' <= LogEnd'
  BY <1>2, <1>3, <1>5 DEF GInv
<1>8. Recorded(delivered', Kept', LogEnd')
  BY <1>2, <1>3, <1>4, <1>5, StillRecorded DEF GInv
<1>9. Recorded(answer'.records, Kept', LogEnd')
  <2>1. Recorded(answer.records, Kept', LogEnd')
    BY <1>3, <1>4, <1>5, StillRecorded DEF GInv
  <2>2. Recorded({}, Kept', LogEnd')
    BY DEF Recorded
  <2> QED
    BY <1>2, <1>5, <2>1, <2>2
<1>10. Processed(0, committed', delivered', Kept') /\ Processed(0, position', delivered', Kept')
  BY <1>2, <1>3, <1>4, <1>5, StillProcessed DEF GInv
<1>11. AnswerOK'
  <2> SUFFICES ASSUME handler' = "fetch" PROVE AnswerOK'
    BY DEF AnswerOK
  <2>1. handler' = handler /\ step' = step /\ answer' = answer
    BY <1>2
  <2>2. ASSUME step > 1
        PROVE  /\ position <= answer.next /\ answer.next <= LogEnd'
               /\ Processed(position, answer.next, answer.records, Kept')
    <3>1. /\ position <= answer.next /\ answer.next <= LogEnd
          /\ Processed(position, answer.next, answer.records, Kept)
      BY <2>1, <2>2 DEF GInv, AnswerOK
    <3>2. answer.next <= LogEnd'
      BY <1>3, <1>5, <3>1
    <3> QED
      BY <1>3, <1>4, <1>5, <3>1, <3>2, StillProcessed, Zenon
  <2>3. step > 2 => answer.low <= LogStart'
    BY <1>3, <1>5, <2>1 DEF GInv, AnswerOK
  <2>4. step > 3 => answer.next <= answer.end /\ answer.low <= answer.end
    BY <2>1 DEF GInv, AnswerOK
  <2> QED
    BY <1>2, <2>1, <2>2, <2>3, <2>4 DEF AnswerOK
<1> QED
  BY <1>1, <1>6, <1>7, <1>8, <1>9, <1>10, <1>11, Zenon DEF GInv

\* The place of each call of Fetch.
LEMMA FetchOrder ==
  ASSUME step \in 1 .. 4
  PROVE  /\ InFetch("read") => handler = "fetch" /\ step = 1
         /\ InFetch("earliest") => handler = "fetch" /\ step = 2
         /\ InFetch("end") => handler = "fetch" /\ step = 3
<1>1. /\ Len(FetchCalls) = 3
      /\ FetchCalls[1] = "read" /\ FetchCalls[2] = "earliest" /\ FetchCalls[3] = "end"
  BY DEF FetchCalls
<1>2. ~ (4 <= 3) /\ \A s \in 1 .. 4 : s \in {1, 2, 3, 4}
  OBVIOUS
<1>3. step \in {1, 2, 3, 4}
  BY <1>2
<1> QED
  BY <1>1, <1>2, <1>3 DEF InFetch

\* The next calls, and the offsets in a range.
LEMMA CallNumbers ==
  /\ 1 + 1 = 2 /\ 2 + 1 = 3 /\ 1 \in 1 .. 4 /\ 2 \in 1 .. 4 /\ 3 \in 1 .. 4
  /\ ~ (2 > 2) /\ ~ (2 > 3)
  /\ \A x, y \in Nat : \A z \in x .. y : z \in Nat /\ x <= z /\ z <= y
  OBVIOUS

\* Every step of the handlers and of the client.
LEMMA GroupStepGInv == GInv /\ GroupStep => GInv'
<1> SUFFICES ASSUME GInv, GroupStep PROVE GInv'
  OBVIOUS
<1>1. LogOK' /\ Kept' = Kept /\ LogEnd' = LogEnd /\ LogStart' = LogStart
  <2>1. UNCHANGED vars \/ CommitWrite
    BY Zenon DEF GroupStep, FetchStart, FetchRead, FetchError, FetchEarliest, FetchEnd, FetchReply,
           CommitStart, CommitEarliest, CommitEnd, ClientStart
  <2>2. pending \in Seq(DirChange) /\ LogOK
    BY DEF GInv, LogOK, IInv, MemoryTypeOK
  <2>3. CASE UNCHANGED vars
    BY <2>2, <2>3, LogSame DEF vars, memory
  <2>4. CASE CommitWrite
    BY <2>2, <2>4, LogSame, PendingTypes, Zenon DEF CommitWrite
  <2> QED
    BY <2>1, <2>3, <2>4, Zenon
<1>2. /\ committed \in Nat /\ position \in Nat /\ delivered \subseteq Nat \X Nat
      /\ handler \in {"none", "fetch", "commit"} /\ step \in 1 .. 4 /\ answer \in Answer
      /\ answer.next \in Nat /\ answer.low \in Nat /\ answer.end \in Nat
      /\ answer.records \subseteq Nat \X Nat
      /\ committed <= LogEnd /\ position <= LogEnd
      /\ Recorded(delivered, Kept, LogEnd) /\ Recorded(answer.records, Kept, LogEnd)
      /\ Processed(0, committed, delivered, Kept) /\ Processed(0, position, delivered, Kept)
      /\ LogEnd \in Nat
  BY LogTypes, Zenon DEF GInv, GroupTypeOK, Answer, LogOK
<1>3. /\ NoAnswer \in Answer /\ NoAnswer.records = {} /\ Recorded({}, Kept, LogEnd) /\ 1 \in 1 .. 4
  BY CallNumbers DEF Answer, NoAnswer, Recorded
\* A handler begins or ends without an effect on the group.
<1>4. ASSUME committed' = committed, position' = position, delivered' = delivered,
             handler' \in {"none", "fetch", "commit"}, step' = 1, answer' = NoAnswer
      PROVE  GInv'
  <2>1. GroupTypeOK'
    BY <1>2, <1>3, <1>4 DEF GroupTypeOK
  <2>2. AnswerOK'
    BY <1>4 DEF AnswerOK
  <2> QED
    BY <1>1, <1>2, <1>3, <1>4, <2>1, <2>2, Zenon DEF GInv
<1>5. CASE FetchStart \/ FetchError \/ CommitStart
  BY <1>4, <1>5, Zenon DEF FetchStart, FetchError, CommitStart, EndHandler, Begin
<1>6. CASE FetchRead
  <2>1. step = 1 /\ handler = "fetch" /\ handler' = "fetch" /\ step' = 2
        /\ committed' = committed /\ position' = position /\ delivered' = delivered
    <3>1. step = 1 /\ handler = "fetch"
      BY <1>2, <1>6, FetchOrder, Zenon DEF FetchRead
    <3> QED
      BY <1>6, <3>1, CallNumbers, Zenon DEF FetchRead, Advance
  <2>2. leo = LogEnd /\ leo \in Nat
    BY <1>6, Zenon DEF FetchRead, Readable, GInv, LogOK, EndsOK, IInv, MemoryTypeOK
  <2>3. PICK next \in position .. leo :
          answer' = [answer EXCEPT !.next = next, !.records = RecordsIn(position, next)]
    BY <1>6, Zenon DEF FetchRead
  <2> DEFINE R == RecordsIn(position, next)
  <2>4. next \in Nat /\ position <= next /\ next <= LogEnd
    BY <1>2, <2>2, <2>3, CallNumbers, Zenon
  <2>5. R \subseteq Nat \X Nat /\ Recorded(R, Kept, LogEnd) /\ Processed(position, next, R, Kept)
    BY <1>2, <2>4, ReadRecords DEF GInv, LogOK
  <2>6. /\ answer' \in Answer
        /\ answer'.next = next /\ answer'.records = R
    BY <1>2, <2>3, <2>4, <2>5, Zenon DEF Answer
  <2> HIDE DEF R
  <2>7. GroupTypeOK'
    BY <1>2, <2>1, <2>6 DEF GroupTypeOK
  <2>8. AnswerOK'
    BY <1>1, <2>1, <2>4, <2>5, <2>6, CallNumbers, Zenon DEF AnswerOK
  <2> QED
    BY <1>1, <1>2, <2>1, <2>5, <2>6, <2>7, <2>8, Zenon DEF GInv
\* The handler reads an offset of the log.
<1>7. ASSUME answer' = [answer EXCEPT !.low = earliest] \/ answer' = answer
               \/ (handler = "fetch" /\ answer' = [answer EXCEPT !.end = leo]),
             handler' = handler, step' = step + 1, step' \in 1 .. 4, CanRead,
             committed' = committed, position' = position, delivered' = delivered,
             handler = "fetch" => /\ step = 2 => answer' = [answer EXCEPT !.low = earliest]
                                  /\ step = 3 => answer' = [answer EXCEPT !.end = leo]
                                  /\ step \in {2, 3}
      PROVE  GInv'
  <2>1. leo = LogEnd /\ earliest = LogStart /\ leo \in Nat /\ earliest \in Nat /\ LogStart <= LogEnd
    BY <1>7, LogTypes DEF CanRead, GInv, LogOK, EndsOK, IInv, MemoryTypeOK
  <2>2. /\ answer' \in Answer
        /\ answer'.next = answer.next /\ answer'.records = answer.records
        /\ answer'.low \in {answer.low, earliest}
        /\ handler = "fetch" /\ step = 2 => answer'.low = earliest
        /\ handler = "fetch" /\ step = 3 => answer'.end = leo /\ answer'.low = answer.low
    BY <1>2, <1>7, <2>1 DEF Answer
  <2>3. GroupTypeOK'
    BY <1>2, <1>7, <2>2 DEF GroupTypeOK
  <2>4. AnswerOK'
    <3> SUFFICES ASSUME handler = "fetch" PROVE AnswerOK'
      BY <1>7 DEF AnswerOK
    <3>1. /\ position <= answer.next /\ answer.next <= LogEnd
          /\ Processed(position, answer.next, answer.records, Kept)
      BY <1>7 DEF GInv, AnswerOK
    <3>2. CASE step = 2
      BY <1>1, <1>7, <2>1, <2>2, <3>1, <3>2, SMTT(30) DEF AnswerOK
    <3>3. CASE step = 3
      <4>1. answer.low <= LogStart /\ LogStart \in Nat
        BY <3>3, LogTypes DEF GInv, AnswerOK, LogOK
      <4>2. answer.low <= LogEnd
        BY <1>2, <2>1, <4>1
      <4> QED
        BY <1>1, <1>7, <2>1, <2>2, <3>1, <3>3, <4>1, <4>2, Zenon DEF AnswerOK
    <3> QED
      BY <1>7, <3>2, <3>3
  <2> QED
    BY <1>1, <1>2, <1>7, <2>2, <2>3, <2>4, Zenon DEF GInv
<1>8. CASE FetchEarliest
  <2>1. handler = "fetch" /\ step = 2
    BY <1>2, <1>8, FetchOrder, Zenon DEF FetchEarliest
  <2> QED
    BY <1>7, <1>8, <2>1 DEF FetchEarliest, Advance
<1>9. CASE FetchEnd
  <2>1. handler = "fetch" /\ step = 3
    BY <1>2, <1>9, FetchOrder, Zenon DEF FetchEnd
  <2> QED
    BY <1>7, <1>9, <2>1 DEF FetchEnd, Advance
<1>10. CASE FetchReply
  <2>1. /\ handler = "fetch" /\ step > 3
        /\ delivered' = delivered \cup answer.records /\ position' = answer.next
        /\ committed' = committed /\ handler' = "none" /\ step' = 1 /\ answer' = NoAnswer
    <3>1. Len(FetchCalls) = 3
      BY Zenon DEF FetchCalls
    <3> QED
      BY <1>10, <3>1 DEF FetchReply, EndHandler, Begin
  <2>2. /\ position <= answer.next /\ answer.next <= LogEnd
        /\ Processed(position, answer.next, answer.records, Kept)
    <3>1. step > 1
      BY <1>2, <2>1
    <3> QED
      BY <2>1, <3>1, Zenon DEF GInv, AnswerOK
  <2>3. GroupTypeOK'
    BY <1>2, <1>3, <2>1, Zenon DEF GroupTypeOK
  <2>4. Recorded(delivered', Kept, LogEnd)
    BY <1>2, <2>1, Zenon DEF Recorded
  <2>5. Processed(0, committed, delivered', Kept)
    BY <1>2, <2>1, Zenon DEF Processed
  <2>6. Processed(0, answer.next, delivered', Kept)
    <3>1. \A o \in Nat : o < answer.next => o < position \/ (position <= o /\ o < answer.next)
      BY <1>2
    <3> QED
      BY <1>2, <2>1, <2>2, <3>1, Zenon DEF Processed
  <2>7. AnswerOK'
    BY <2>1 DEF AnswerOK
  <2> QED
    BY <1>1, <1>2, <1>3, <2>1, <2>2, <2>3, <2>4, <2>5, <2>6, <2>7, Zenon DEF GInv
<1>11. CASE CommitEarliest
  BY <1>2, <1>7, <1>11 DEF CommitEarliest, Advance
<1>12. CASE CommitEnd
  <2>1. CASE EndHandler
    BY <1>4, <1>12, <2>1 DEF CommitEnd, EndHandler, Begin
  <2>2. CASE Advance /\ UNCHANGED answer
    BY <1>7, <1>12, <2>2, CallNumbers, Zenon DEF CommitEnd, Advance
  <2> QED
    BY <1>12, <2>1, <2>2 DEF CommitEnd
<1>13. CASE CommitWrite
  <2>1. /\ committed' \in {position, committed} /\ position' = position /\ delivered' = delivered
        /\ handler' = "none" /\ step' = 1 /\ answer' = NoAnswer
    BY <1>13, Zenon DEF CommitWrite, EndHandler, Begin
  <2>2. GroupTypeOK'
    BY <1>2, <1>3, <2>1 DEF GroupTypeOK
  <2>3. AnswerOK'
    BY <2>1, Zenon DEF AnswerOK
  <2> QED
    BY <1>1, <1>2, <1>3, <2>1, <2>2, <2>3, Zenon DEF GInv
<1>14. CASE ClientStart
  <2>1. /\ position' = committed /\ committed' = committed /\ delivered' = delivered
        /\ handler' = "none" /\ handler = "none" /\ step' = step /\ answer' = answer
    BY <1>14, Zenon DEF ClientStart, ResumeAt
  <2>2. GroupTypeOK' /\ AnswerOK'
    BY <2>1 DEF GInv, GroupTypeOK, AnswerOK
  <2> QED
    BY <1>1, <1>2, <2>1, <2>2, Zenon DEF GInv
<1> QED
  BY <1>5, <1>6, <1>8, <1>9, <1>10, <1>11, <1>12, <1>13, <1>14, Zenon DEF GroupStep
-----------------------------------------------------------------------------
\* The inductive invariant holds in every reachable state.
THEOREM GroupInvariance == GroupSpec => []GInv
<1>1. GroupInit => GInv
  <2> SUFFICES ASSUME GroupInit PROVE GInv
    OBVIOUS
  <2>1. Init /\ phase = "down" /\ Kept = {} /\ LogStart = 0 /\ LogEnd = 0 /\ IInv /\ CallsOK
        /\ sent = 0 /\ acked = {}
    BY InitIInv, InitSimulates DEF GroupInit, Init, Log!Init
  <2>2. LogOK
    BY <2>1 DEF LogOK, EndsOK, LogInv, Log!Tiled
  <2>3. GroupTypeOK /\ AnswerOK /\ answer.records = {}
    BY DEF GroupInit, GroupTypeOK, Answer, NoAnswer, AnswerOK
  <2> QED
    BY <2>1, <2>2, <2>3 DEF GroupInit, GInv, Recorded, Processed
<1>2. GInv /\ [GroupNext]_allVars => GInv'
  <2>1. LogStep(Next) => LogStep([Next]_vars)
    BY Zenon DEF LogStep
  <2>2. ASSUME GInv, UNCHANGED allVars PROVE GInv'
    <3>1. UNCHANGED vars /\ UNCHANGED groupVars /\ phase' = phase
      BY <2>2 DEF allVars, vars
    <3>2. LogOK' /\ Kept' = Kept /\ LogEnd' = LogEnd /\ LogStart' = LogStart
      <4>1. pending \in Seq(DirChange) /\ LogOK
        BY <2>2 DEF GInv, LogOK, IInv, MemoryTypeOK
      <4> QED
        BY <3>1, <4>1, LogSame DEF vars, memory
    <3> QED
      BY <2>2, <3>1, <3>2 DEF groupVars, GInv, GroupTypeOK, AnswerOK
  <2> QED
    BY <2>1, <2>2, LogStepGInv, GroupStepGInv DEF GroupNext
<1> QED
  BY <1>1, <1>2, PTL DEF GroupSpec

\* The variables of the handlers and of the client keep their types.
THEOREM GroupTypes == GroupSpec => []GroupTypeOK
<1>1. GInv => GroupTypeOK
  BY DEF GInv
<1> QED
  BY <1>1, GroupInvariance, PTL

\* A complete Fetch response never shows the end of the log before its
\* records, nor an earliest offset past a record that the log still has.
THEOREM ResponsesCoverRecords == GroupSpec => []ResponseCoversRecords
<1>1. GInv => ResponseCoversRecords
  <2> SUFFICES ASSUME GInv, handler = "fetch", step > 3
               PROVE  /\ answer.next <= answer.end /\ answer.low <= answer.end
                      /\ \A d \in answer.records : LogStart <= d[1] => answer.low <= d[1]
    BY DEF ResponseCoversRecords, FetchCalls
  <2>1. step > 2
    BY DEF GInv, GroupTypeOK
  <2>2. /\ answer.next <= answer.end /\ answer.low <= answer.end
        /\ answer.low <= LogStart
    BY <2>1, Zenon DEF GInv, AnswerOK
  <2>3. /\ answer.low \in Nat /\ LogStart \in Nat
        /\ \A d \in answer.records : d[1] \in Nat
    BY LogTypes DEF GInv, GroupTypeOK, Answer, LogOK
  <2> QED
    BY <2>2, <2>3
<1> QED
  BY <1>1, GroupInvariance, PTL

\* No committed offset lies beyond the log.
THEOREM CommitsWithinLog == GroupSpec => []CommittedWithinLog
<1>1. GInv => CommittedWithinLog
  BY DEF GInv, LogOK, EndsOK, CommittedWithinLog
<1> QED
  BY <1>1, GroupInvariance, PTL

\* The record at a delivered offset never changes.
THEOREM DeliveriesStable == GroupSpec => []DeliveredStable
<1>1. GInv => DeliveredStable
  <2> SUFFICES ASSUME GInv, NEW d \in delivered, NEW e \in RecordsIn(d[1], d[1] + 1)
               PROVE  e = d
    BY DEF DeliveredStable
  <2>1. d \in Nat \X Nat /\ d[1] \in Nat /\ d = <<d[1], d[2]>>
    BY DEF GInv, GroupTypeOK
  <2> DEFINE lo == d[1]
             hi == d[1] + 1
  <2>2. PICK p \in (lo .. hi - 1) \X Kept : Covers(p[2], p[1]) /\ e = <<p[1], p[2].id>>
    <3>1. e \in RecordsIn(lo, hi)
      OBVIOUS
    <3> HIDE DEF lo, hi
    <3>2. RecordsIn(lo, hi) =
            {<<p[1], p[2].id>> : p \in {q \in (lo .. hi - 1) \X Kept : Covers(q[2], q[1])}}
      BY RecordsCovered
    <3> QED
      BY <3>1, <3>2
  <2>3. p[1] = d[1] /\ p[2] \in Kept
    BY <2>1, <2>2
  <2>4. p[2].id = d[2]
    BY <2>2, <2>3, Zenon DEF GInv, Recorded
  <2> QED
    BY <2>1, <2>2, <2>3, <2>4
<1> QED
  BY <1>1, GroupInvariance, PTL

\* An acknowledged record before the committed offset has been processed.
THEOREM GroupProcessesAtLeastOnce == GroupSpec => []AtLeastOnce
<1>1. GInv => AtLeastOnce
  <2> SUFFICES ASSUME GInv, NEW x \in acked, NEW o \in x.base .. BatchEnd(x) - 1, o < committed
               PROVE  <<o, x.id>> \in delivered
    BY DEF AtLeastOnce
  <2>1. x \in Kept
    BY DEF GInv, LogOK, LogInv, Log!Tiled
  <2>2. x.base \in Nat /\ BatchEnd(x) \in Nat
    BY <2>1, LogTypes DEF GInv, LogOK
  <2>3. o \in Nat /\ Covers(x, o) /\ 0 <= o
    BY <2>2 DEF Covers
  <2> QED
    BY <2>1, <2>3 DEF GInv, Processed
<1> QED
  BY <1>1, GroupInvariance, PTL
=============================================================================
