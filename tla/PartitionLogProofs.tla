------------------------- MODULE PartitionLogProofs -------------------------
(***************************************************************************)
(* Proofs about PartitionLog, for any sizes, bounds and clock readings and *)
(* both flush modes, when the process may end at any step: the segment     *)
(* list is contiguous, memory agrees with the files, recovery accepts      *)
(* every directory the store leaves behind, and an acknowledged batch      *)
(* stays until retention deletes its segment.                              *)
(***************************************************************************)
EXTENDS PartitionLog, SequenceTheorems, TLAPS

\* A file with base b: whole batches that continue each other, end one after
\* the other, and end at or before End(b, f).
FileOK(b, f) ==
  /\ f \in File /\ f.synced <= Len(f.batches)
  /\ f.tail \in {"none", "short"}
  /\ Continuous(b, f.batches)
  /\ End(b, f) \in Nat /\ b <= End(b, f)
  /\ f.batches # <<>> => b < End(b, f)
  /\ \A i \in DOMAIN f.batches : f.batches[i].n > 0 /\ BatchEnd(f.batches[i]) <= End(b, f)
  /\ \A i, j \in DOMAIN f.batches :
       i <= j => BatchEnd(f.batches[i]) <= BatchEnd(f.batches[j])

\* Directory d: its files are in order, and a file that is not the last one
\* is not empty, has no incomplete batch, and is continued by another file.
DiskOK(d) ==
  /\ DOMAIN d \subseteq Nat
  /\ \A b \in DOMAIN d : FileOK(b, d[b])
  /\ \A b, c \in DOMAIN d : b < c =>
       /\ End(b, d[b]) <= c
       /\ End(b, d[b]) \in DOMAIN d
       /\ b < End(b, d[b])
       /\ d[b].tail = "none"

\* The types of all variables but the directory.
MemoryTypeOK ==
  /\ pending \in Seq(DirChange)
  /\ phase \in {"down", "opening", "open", "closed"}
  /\ segments \in Seq(Segment)
  /\ leo \in Nat /\ earliest \in Nat
  /\ writeFailed \in BOOLEAN
  /\ pc \in {"idle", "roll", "write", "flush", "age", "size"}
  /\ cur \in Batch
  /\ cutoff \in Int
  /\ sent \in Nat
  /\ acked \subseteq Batch

\* The segment list while OpenStore builds it and while the store is open.
SegmentsOK ==
  phase # "down" =>
    /\ \A i \in 1 .. Len(segments) - 1 : segments[i].next = segments[i + 1].base
    /\ \A i, j \in DOMAIN segments : i < j => segments[i].base < segments[j].base
    /\ segments # <<>> => segments[1].base = earliest /\ Active.next = leo
    /\ segments = <<>> => phase = "opening" /\ leo = earliest
    /\ phase # "closed" => \A i \in DOMAIN segments : segments[i].base \in DOMAIN disk
    /\ phase # "closed" /\ ~writeFailed =>
         \A i \in DOMAIN segments : Matches(segments[i], disk[segments[i].base])

\* The files OpenStore has still to open follow the ones it has opened.
UnopenedOK ==
  /\ phase = "opening" => ~writeFailed
  /\ phase = "open" /\ ~writeFailed => Unopened = {}
  /\ phase = "opening" /\ Unopened # {} =>
       /\ leo \in Unopened
       /\ \A b \in Unopened : leo <= b
       /\ \A i \in DOMAIN segments : segments[i].base < leo

\* What holds at the point the holder of the mutex has reached.
PcOK ==
  /\ pc # "idle" => phase = "open" /\ ~writeFailed
  /\ pc \in {"roll", "write", "flush"} => cur.n > 0 /\ cur.ts \in Times
  /\ pc \in {"roll", "write"} => cur.base = leo
  /\ pc = "roll" => Active.size > 0
  /\ pc = "flush" => cur \in Range(disk[Active.base].batches)

\* The inductive invariant.
IInv ==
  DiskOK(disk) /\ MemoryTypeOK /\ SegmentsOK /\ UnopenedOK /\ PcOK /\ AckedRetained
-----------------------------------------------------------------------------
(***************************************************************************)
(* Offsets, indices and sequences.                                         *)
(***************************************************************************)
\* The order of offsets.
LEMMA OffsetOrder ==
  \A x, y, z \in Nat :
    /\ x < y => ~ (y <= x) /\ x # y /\ y - x \in Nat
    /\ x < y /\ y < z => x < z /\ x # z
    /\ x < y /\ y <= z => x < z /\ ~ (z < x)
    /\ x <= y /\ x # y => x < y
    /\ x <= y /\ y <= x => x = y
    /\ x < y \/ y < x \/ x = y
  OBVIOUS

\* What follows an index that is not the last.
LEMMA NextIndex ==
  \A n \in Nat : \A i \in 1 .. n : i # n => i + 1 \in 1 .. n /\ i < i + 1
  OBVIOUS

\* The elements of a range belong to every longer range.
LEMMA LongerRange ==
  \A m, n \in Nat : m <= n => \A i \in 1 .. m : i \in 1 .. n
  OBVIOUS

\* A sequence with one more element.
LEMMA AppendedElement ==
  ASSUME NEW S, NEW s \in Seq(S), NEW x \in S
  PROVE  /\ Len(s) \in Nat /\ DOMAIN s = 1 .. Len(s) /\ Len(Append(s, x)) = Len(s) + 1
         /\ DOMAIN Append(s, x) = 1 .. Len(s) + 1 /\ Append(s, x)[Len(s) + 1] = x
         /\ \A i \in 1 .. Len(s) : Append(s, x)[i] = s[i]
  OBVIOUS

-----------------------------------------------------------------------------
(***************************************************************************)
(* Files.                                                                  *)
(***************************************************************************)
\* The fields of a file.
LEMMA FileFields ==
  ASSUME NEW f \in File
  PROVE  /\ f.batches \in Seq(Batch) /\ f.synced \in Nat /\ Len(f.batches) \in Nat
         /\ DOMAIN f.batches = 1 .. Len(f.batches)
         /\ \A i \in 1 .. Len(f.batches) : f.batches[i] \in Batch
<1>1. f.batches \in Seq(Batch) /\ f.synced \in Nat
  BY DEF File
<1> QED
  BY <1>1

\* The fields of a batch.
LEMMA BatchFields ==
  ASSUME NEW x \in Batch
  PROVE  x.base \in Nat /\ x.n \in Nat /\ x.id \in Nat /\ x.ts \in Nat /\ BatchEnd(x) \in Nat
  BY DEF Batch, BatchEnd

\* The fields of a segment.
LEMMA SegmentFields ==
  ASSUME NEW x \in Segment
  PROVE  x.base \in Nat /\ x.next \in Nat /\ x.size \in Nat /\ x.maxTs \in Nat
  BY DEF Segment

\* A new log file is in order.
LEMMA EmptyFileOK ==
  ASSUME NEW b \in Nat
  PROVE  /\ FileOK(b, EmptyFile) /\ End(b, EmptyFile) = b /\ Bytes(b, EmptyFile) = 0
         /\ EmptyFile.tail = "none" /\ IsMaxTimestamp(0, EmptyFile)
<1>1. EmptyFile \in File
  BY DEF EmptyFile, File
<1>2. EmptyFile.batches = <<>> /\ EmptyFile.synced = 0 /\ EmptyFile.tail = "none"
  BY DEF EmptyFile
<1>3. Len(EmptyFile.batches) = 0 /\ DOMAIN EmptyFile.batches = {}
  BY <1>2
<1>4. End(b, EmptyFile) = b
  BY <1>2 DEF End
<1>5. Bytes(b, EmptyFile) = 0
  <2>1. Bytes(b, EmptyFile) = 0 * HeaderBytes + 0 * RecordBytes
    BY <1>3, <1>4 DEF Bytes
  <2> QED
    BY <2>1, SizeAssumption
<1>6. Continuous(b, EmptyFile.batches) /\ IsMaxTimestamp(0, EmptyFile)
  BY <1>3 DEF Continuous, IsMaxTimestamp
<1> QED
  BY <1>1, <1>2, <1>3, <1>4, <1>5, <1>6 DEF FileOK

\* An fsync, or a change of what follows the batches, keeps a file in order.
LEMMA SameBatches ==
  ASSUME NEW b, NEW f, NEW g, FileOK(b, f),
         g \in File, g.batches = f.batches, g.synced <= Len(g.batches),
         g.tail \in {"none", "short"}
  PROVE  /\ FileOK(b, g) /\ End(b, g) = End(b, f) /\ Bytes(b, g) = Bytes(b, f)
         /\ \A m : IsMaxTimestamp(m, g) <=> IsMaxTimestamp(m, f)
<1>1. End(b, g) = End(b, f)
  BY DEF End
<1> QED
  BY <1>1 DEF FileOK, Bytes, IsMaxTimestamp

\* The results of Synced and of a change of the tail.
LEMMA FileUpdates ==
  ASSUME NEW b, NEW f, FileOK(b, f)
  PROVE  /\ Synced(f) \in File /\ Synced(f).batches = f.batches /\ Synced(f).tail = f.tail
         /\ Synced(f).synced <= Len(f.batches)
         /\ \A t \in {"none", "short"} :
              LET g == [f EXCEPT !.tail = t] IN
              g \in File /\ g.batches = f.batches /\ g.tail = t /\ g.synced <= Len(f.batches)
<1>1. f \in File /\ Len(f.batches) \in Nat
  BY FileFields DEF FileOK
<1> QED
  BY <1>1 DEF FileOK, File, Synced

\* File f with one more batch.
WithBatch(f, x) == [f EXCEPT !.batches = Append(@, x)]

\* Appending the batch that comes next keeps a file in order.
LEMMA AppendedBatch ==
  ASSUME NEW b \in Nat, NEW f, FileOK(b, f), NEW x \in Batch, x.base = End(b, f), x.n > 0
  PROVE  LET g == WithBatch(f, x) IN
         /\ FileOK(b, g) /\ End(b, g) = BatchEnd(x) /\ g.tail = f.tail
         /\ Bytes(b, g) = Bytes(b, f) + BatchBytes(x.n)
         /\ Range(f.batches) \subseteq Range(g.batches) /\ x \in Range(g.batches)
         /\ \A m \in Nat : IsMaxTimestamp(m, f) => IsMaxTimestamp(Newest(m, x.ts), g)
<1>f. /\ f \in File /\ f.batches \in Seq(Batch) /\ f.synced \in Nat /\ Len(f.batches) \in Nat
      /\ DOMAIN f.batches = 1 .. Len(f.batches)
      /\ \A i \in 1 .. Len(f.batches) : f.batches[i] \in Batch
  BY FileFields DEF FileOK
<1>x. /\ x.base \in Nat /\ x.n \in Nat /\ x.ts \in Nat /\ BatchEnd(x) \in Nat
      /\ BatchEnd(x) = End(b, f) + x.n /\ End(b, f) < BatchEnd(x)
  BY BatchFields DEF BatchEnd, FileOK
<1> DEFINE g == WithBatch(f, x)
           s == f.batches
           k == Len(f.batches)
<1>1. Append(s, x) \in Seq(Batch)
  BY <1>f
<1>2. g \in File /\ g.batches = Append(s, x) /\ g.tail = f.tail /\ g.synced = f.synced
  BY <1>f, <1>1 DEF File, WithBatch
<1> HIDE DEF g
<1>3. /\ Len(g.batches) = k + 1 /\ g.batches[k + 1] = x /\ DOMAIN g.batches = 1 .. k + 1
      /\ \A i \in 1 .. k : g.batches[i] = f.batches[i]
  BY <1>f, <1>2
<1>4. g.batches # <<>>
  BY <1>f, <1>3
<1>5. End(b, g) = BatchEnd(x)
  BY <1>3, <1>4 DEF End
<1>6. Continuous(b, g.batches)
  <2> SUFFICES ASSUME NEW i \in 1 .. k + 1
               PROVE  g.batches[i].base = IF i = 1 THEN b ELSE BatchEnd(g.batches[i - 1])
    BY <1>3 DEF Continuous
  <2>1. CASE i \in 1 .. k
    <3>1. i # 1 => i - 1 \in 1 .. k
      BY <1>f, <2>1
    <3>2. f.batches[i].base = IF i = 1 THEN b ELSE BatchEnd(f.batches[i - 1])
      BY <2>1 DEF FileOK, Continuous
    <3> QED
      BY <1>3, <2>1, <3>1, <3>2, Zenon
  <2>2. CASE i = k + 1 /\ k = 0
    <3>1. s = <<>>
      BY <1>f, <2>2
    <3> QED
      BY <1>3, <2>2, <3>1 DEF End
  <2>3. CASE i = k + 1 /\ k # 0
    <3>1. s # <<>> /\ i - 1 = k /\ k \in 1 .. k /\ i # 1
      BY <1>f, <2>3
    <3>2. End(b, f) = BatchEnd(g.batches[k])
      BY <1>3, <3>1, Zenon DEF End
    <3> QED
      BY <1>3, <2>3, <3>1, <3>2
  <2> QED
    BY <1>f, <2>1, <2>2, <2>3
<1>7. \A i \in 1 .. k + 1 : g.batches[i].n > 0 /\ BatchEnd(g.batches[i]) <= End(b, g)
  <2> SUFFICES ASSUME NEW i \in 1 .. k + 1
               PROVE  g.batches[i].n > 0 /\ BatchEnd(g.batches[i]) <= End(b, g)
    OBVIOUS
  <2>1. CASE i \in 1 .. k
    <3>1. f.batches[i].n > 0 /\ BatchEnd(f.batches[i]) <= End(b, f) /\ BatchEnd(f.batches[i]) \in Nat
      BY <1>f, <2>1, BatchFields DEF FileOK
    <3>2. g.batches[i] = f.batches[i]
      BY <1>3, <2>1
    <3>3. BatchEnd(f.batches[i]) <= BatchEnd(x)
      <4>1. End(b, f) \in Nat /\ BatchEnd(x) \in Nat /\ End(b, f) <= BatchEnd(x)
        BY <1>x DEF FileOK
      <4> QED
        BY <3>1, <4>1
    <3> QED
      BY <1>5, <3>1, <3>2, <3>3
  <2>2. CASE i = k + 1
    BY <1>3, <1>5, <1>x, <2>2
  <2> QED
    BY <1>f, <2>1, <2>2
<1>o. ASSUME NEW i \in 1 .. k + 1, NEW j \in 1 .. k + 1, i <= j
      PROVE  BatchEnd(g.batches[i]) <= BatchEnd(g.batches[j])
  <2>1. CASE j = k + 1
    BY <1>3, <1>5, <1>7, <2>1
  <2>2. CASE j \in 1 .. k
    <3>1. i \in 1 .. k
      BY <1>f, <1>o, <2>2
    <3> QED
      BY <1>3, <1>f, <1>o, <2>2, <3>1, Zenon DEF FileOK
  <2> QED
    BY <1>f, <2>1, <2>2
<1>8. FileOK(b, g)
  <2>1. End(b, g) \in Nat /\ b < End(b, g)
    BY <1>x, <1>5 DEF FileOK
  <2>2. g.synced <= Len(g.batches)
    BY <1>f, <1>2, <1>3 DEF FileOK
  <2>3. g.tail \in {"none", "short"} /\ b <= End(b, g)
    BY <1>2, <2>1 DEF FileOK
  <2> QED
    BY <1>2, <1>3, <1>6, <1>7, <1>o, <2>1, <2>2, <2>3, Zenon DEF FileOK
<1>9. Bytes(b, g) = Bytes(b, f) + BatchBytes(x.n)
  <2> DEFINE e == End(b, f)
  <2>1. e \in Nat /\ k \in Nat /\ x.n \in Nat /\ HeaderBytes \in Nat /\ RecordBytes \in Nat
    BY <1>f, <1>x, SizeAssumption DEF FileOK
  <2>2. Bytes(b, g) = (k + 1) * HeaderBytes + ((e + x.n) - b) * RecordBytes
    BY <1>3, <1>5, <1>x DEF Bytes
  <2>3. Bytes(b, f) = k * HeaderBytes + (e - b) * RecordBytes
    BY DEF Bytes
  <2>4. (k + 1) * HeaderBytes = k * HeaderBytes + HeaderBytes
    BY <2>1
  <2>5. ((e + x.n) - b) * RecordBytes = (e - b) * RecordBytes + x.n * RecordBytes
    BY <2>1
  <2> DEFINE p == k * HeaderBytes
             q == (e - b) * RecordBytes
             r == x.n * RecordBytes
  <2>6. p \in Int /\ q \in Int /\ r \in Int
    BY <2>1
  <2>7. Bytes(b, g) = (p + HeaderBytes) + (q + r)
    BY <2>2, <2>4, <2>5
  <2>8. Bytes(b, f) + BatchBytes(x.n) = (p + q) + (HeaderBytes + r)
    BY <2>3 DEF BatchBytes
  <2> HIDE DEF p, q, r
  <2> QED
    BY <2>1, <2>6, <2>7, <2>8
<1>10. Range(f.batches) \subseteq Range(g.batches) /\ x \in Range(g.batches)
  <2>1. \A i \in 1 .. k : i \in 1 .. k + 1
    BY <1>f
  <2>2. k + 1 \in 1 .. k + 1
    BY <1>f
  <2> QED
    BY <1>f, <1>3, <2>1, <2>2 DEF Range
<1>11. ASSUME NEW m \in Nat, IsMaxTimestamp(m, f) PROVE IsMaxTimestamp(Newest(m, x.ts), g)
  <2>1. \A i \in 1 .. k : f.batches[i].ts \in Nat /\ f.batches[i].ts <= m
    BY <1>f, <1>11, BatchFields DEF IsMaxTimestamp
  <2>2. k + 1 \in 1 .. k + 1 /\ \A i \in 1 .. k : i \in 1 .. k + 1
    BY <1>f
  <2>3. \A i \in 1 .. k + 1 : i \in 1 .. k \/ i = k + 1
    BY <1>f
  <2>6. \A i \in 1 .. k : g.batches[i].ts \in Nat /\ g.batches[i].ts <= m
    BY <1>3, <2>1
  <2>4. CASE x.ts > m
    <3>1. Newest(m, x.ts) = x.ts
      BY <2>4 DEF Newest
    <3>2. \A i \in 1 .. k : g.batches[i].ts <= x.ts
      BY <1>x, <2>4, <2>6
    <3>3. \A i \in 1 .. k + 1 : g.batches[i].ts <= x.ts
      BY <1>3, <1>x, <2>3, <3>2
    <3> QED
      BY <1>3, <2>2, <3>1, <3>3 DEF IsMaxTimestamp
  <2>5. CASE ~(x.ts > m)
    <3>1. Newest(m, x.ts) = m /\ x.ts <= m
      BY <1>x, <2>5 DEF Newest
    <3>2. \A i \in 1 .. k + 1 : g.batches[i].ts <= m
      BY <1>3, <2>3, <2>6, <3>1
    <3>3. m = 0 \/ \E i \in 1 .. k + 1 : g.batches[i].ts = m
      BY <1>3, <1>11, <2>2 DEF IsMaxTimestamp
    <3> QED
      BY <1>3, <3>1, <3>2, <3>3 DEF IsMaxTimestamp
  <2> QED
    BY <2>4, <2>5
<1> QED
  BY <1>2, <1>5, <1>8, <1>9, <1>10, <1>11 DEF g

\* The bytes of a file, and a file with bytes is not empty.
LEMMA FileBytes ==
  ASSUME NEW b \in Nat, NEW f, FileOK(b, f)
  PROVE  Bytes(b, f) \in Nat /\ (Bytes(b, f) > 0 => b < End(b, f))
<1>1. Len(f.batches) \in Nat /\ End(b, f) - b \in Nat
  BY FileFields DEF FileOK
<1>2. HeaderBytes \in Nat /\ RecordBytes \in Nat
  BY SizeAssumption
<1>3. \A x, y \in Nat : x * y \in Nat
  OBVIOUS
<1>4. Len(f.batches) * HeaderBytes \in Nat /\ (End(b, f) - b) * RecordBytes \in Nat
  BY <1>1, <1>2, <1>3
<1>5. Bytes(b, f) \in Nat
  BY <1>4 DEF Bytes
<1>6. CASE f.batches = <<>>
  <2>1. Len(f.batches) = 0 /\ End(b, f) - b = 0
    BY <1>6 DEF End
  <2>2. Bytes(b, f) = 0 * HeaderBytes + 0 * RecordBytes
    BY <2>1 DEF Bytes
  <2> QED
    BY <1>2, <2>2
<1> QED
  BY <1>5, <1>6 DEF FileOK
-----------------------------------------------------------------------------
(***************************************************************************)
(* Directories.                                                            *)
(***************************************************************************)
\* Directory e is d after a change of file a that leaves its batches: an
\* fsync, or another tail where that is allowed.
Touched(d, a, e) ==
  /\ a \in DOMAIN d /\ DOMAIN e = DOMAIN d
  /\ \A b \in DOMAIN d : b # a => e[b] = d[b]
  /\ e[a] \in File /\ e[a].batches = d[a].batches /\ e[a].synced <= Len(e[a].batches)
  /\ e[a].tail \in {"none", "short"}
  /\ e[a].tail \in {"none", d[a].tail} \/ \A c \in DOMAIN d : c <= a

\* Such a change keeps a directory in order.
LEMMA TouchedDisk ==
  ASSUME NEW d, NEW a, NEW e, DiskOK(d), Touched(d, a, e)
  PROVE  /\ DiskOK(e) /\ DOMAIN e = DOMAIN d
         /\ \A b \in DOMAIN d : e[b].batches = d[b].batches /\ (b # a => e[b] = d[b])
         /\ \A b \in DOMAIN d : End(b, e[b]) = End(b, d[b])
<1> DEFINE g == e[a]
<1>1. /\ DOMAIN e = DOMAIN d /\ e[a] = g /\ DOMAIN d \subseteq Nat /\ a \in DOMAIN d
      /\ \A b \in DOMAIN d : e[b].batches = d[b].batches /\ (b # a => e[b] = d[b])
  BY DEF DiskOK, Touched
<1>2. FileOK(a, g) /\ End(a, g) = End(a, d[a])
  <2>1. FileOK(a, d[a])
    BY <1>1 DEF DiskOK
  <2>2. /\ g \in File /\ g.batches = d[a].batches /\ g.synced <= Len(g.batches)
        /\ g.tail \in {"none", "short"}
    BY DEF Touched
  <2> HIDE DEF g
  <2> QED
    BY <2>1, <2>2, SameBatches
<1>3. \A b \in DOMAIN d : FileOK(b, e[b]) /\ End(b, e[b]) = End(b, d[b])
  BY <1>1, <1>2 DEF DiskOK
<1>4. ASSUME NEW b \in DOMAIN d, NEW c \in DOMAIN d, b < c
      PROVE  /\ End(b, d[b]) <= c /\ End(b, d[b]) \in DOMAIN d
             /\ b < End(b, d[b]) /\ e[b].tail = "none"
  <2>1. /\ End(b, d[b]) <= c /\ End(b, d[b]) \in DOMAIN d
        /\ b < End(b, d[b]) /\ d[b].tail = "none"
    BY <1>4 DEF DiskOK
  <2>2. b = a => g.tail = "none"
    BY <1>1, <1>4, <2>1 DEF Touched
  <2> QED
    BY <1>1, <2>1, <2>2
<1> QED
  BY <1>1, <1>3, <1>4 DEF DiskOK

\* A file that continues the last one.
LEMMA CreatedDisk ==
  ASSUME NEW d, DiskOK(d), NEW a \in Nat, NEW l \in DOMAIN d, \A c \in DOMAIN d : c <= l,
         End(l, d[l]) = a, l < a, d[l].tail = "none"
  PROVE  /\ a \notin DOMAIN d
         /\ DiskOK(Created(d, a)) /\ DOMAIN Created(d, a) = DOMAIN d \cup {a}
         /\ Created(d, a)[a] = EmptyFile
         /\ \A b \in DOMAIN d : Created(d, a)[b] = d[b]
<1> DEFINE e == Created(d, a)
<1>1. DOMAIN d \subseteq Nat /\ a \notin DOMAIN d
  BY DEF DiskOK
<1>2. /\ DOMAIN e = DOMAIN d \cup {a} /\ e[a] = EmptyFile
      /\ \A b \in DOMAIN d : e[b] = d[b]
  BY <1>1 DEF Created
<1>3. FileOK(a, e[a])
  BY <1>2, EmptyFileOK
<1>4. ASSUME NEW b \in DOMAIN d
      PROVE  /\ b < a /\ End(b, d[b]) <= a /\ End(b, d[b]) \in DOMAIN d \cup {a}
             /\ b < End(b, d[b]) /\ d[b].tail = "none"
  <2>1. CASE b = l
    BY <1>1, <2>1
  <2>2. CASE b # l
    <3>1. b < l
      BY <1>1, <2>2
    <3>2. End(b, d[b]) <= l /\ End(b, d[b]) \in DOMAIN d /\ b < End(b, d[b]) /\ d[b].tail = "none"
      BY <3>1 DEF DiskOK
    <3>3. b \in Nat /\ l \in Nat /\ End(b, d[b]) \in Nat
      BY <1>1, <3>2
    <3> QED
      BY <3>1, <3>2, <3>3
  <2> QED
    BY <2>1, <2>2
<1>5. ASSUME NEW b \in DOMAIN e, NEW c \in DOMAIN e, b < c
      PROVE  /\ End(b, e[b]) <= c /\ End(b, e[b]) \in DOMAIN e
             /\ b < End(b, e[b]) /\ e[b].tail = "none"
  <2>1. b \in DOMAIN d
    BY <1>1, <1>2, <1>4, <1>5
  <2>2. CASE c = a
    BY <1>2, <1>4, <2>1, <2>2
  <2>3. CASE c \in DOMAIN d
    BY <1>2, <1>5, <2>1, <2>3 DEF DiskOK
  <2> QED
    BY <1>2, <2>2, <2>3
<1> HIDE DEF e
<1>6. DiskOK(e)
  BY <1>1, <1>2, <1>3, <1>5 DEF DiskOK
<1> QED
  BY <1>1, <1>2, <1>6 DEF e

\* The first file of an empty directory.
LEMMA FirstFile ==
  ASSUME NEW d, DOMAIN d = {}
  PROVE  DiskOK(Created(d, 0)) /\ DOMAIN Created(d, 0) = {0} /\ Created(d, 0)[0] = EmptyFile
<1>1. DOMAIN Created(d, 0) = {0} /\ Created(d, 0)[0] = EmptyFile
  BY DEF Created
<1> QED
  BY <1>1, EmptyFileOK DEF DiskOK

\* Directory e is d with batch x appended to its last file l.
Grown(d, l, x, e) ==
  /\ l \in DOMAIN d /\ \A c \in DOMAIN d : c <= l
  /\ x \in Batch /\ x.base = End(l, d[l]) /\ x.n > 0
  /\ DOMAIN e = DOMAIN d /\ e[l] = WithBatch(d[l], x)
  /\ \A b \in DOMAIN d : b # l => e[b] = d[b]

\* An append keeps a directory in order.
LEMMA GrownDisk ==
  ASSUME NEW d, NEW l, NEW x, NEW e, DiskOK(d), Grown(d, l, x, e)
  PROVE  DiskOK(e)
<1>1. DOMAIN e = DOMAIN d /\ DOMAIN d \subseteq Nat /\ \A b \in DOMAIN d : b # l => e[b] = d[b]
  BY DEF DiskOK, Grown
<1>2. FileOK(l, e[l])
  <2>1. l \in Nat /\ FileOK(l, d[l]) /\ x \in Batch /\ x.base = End(l, d[l]) /\ x.n > 0
    BY DEF DiskOK, Grown
  <2>2. FileOK(l, WithBatch(d[l], x))
    BY <2>1, AppendedBatch
  <2> QED
    BY <2>2 DEF Grown
<1>3. ASSUME NEW b \in DOMAIN d, NEW c \in DOMAIN d, b < c PROVE b # l
  BY <1>1, <1>3 DEF Grown
<1> QED
  BY <1>1, <1>2, <1>3 DEF DiskOK

\* The first file is removed.
LEMMA WithoutDisk ==
  ASSUME NEW d, DiskOK(d), NEW a \in DOMAIN d, \A c \in DOMAIN d : a <= c
  PROVE  /\ DiskOK(Without(d, a)) /\ DOMAIN Without(d, a) = DOMAIN d \ {a}
         /\ \A b \in DOMAIN d \ {a} : Without(d, a)[b] = d[b]
<1> DEFINE e == Without(d, a)
<1>1. DOMAIN d \subseteq Nat /\ DOMAIN e = DOMAIN d \ {a} /\ \A b \in DOMAIN e : e[b] = d[b]
  BY DEF DiskOK, Without
<1>2. ASSUME NEW b \in DOMAIN e, NEW c \in DOMAIN e, b < c
      PROVE  /\ End(b, e[b]) <= c /\ End(b, e[b]) \in DOMAIN e
             /\ b < End(b, e[b]) /\ e[b].tail = "none"
  <2>1. /\ End(b, d[b]) <= c /\ End(b, d[b]) \in DOMAIN d
        /\ b < End(b, d[b]) /\ d[b].tail = "none"
    BY <1>1, <1>2 DEF DiskOK
  <2>2. a <= b /\ a \in Nat /\ b \in Nat /\ End(b, d[b]) \in Nat
    BY <1>1, <2>1
  <2> QED
    BY <1>1, <2>1, <2>2
<1>3. \A b \in DOMAIN e : FileOK(b, e[b])
  BY <1>1 DEF DiskOK
<1> HIDE DEF e
<1>4. DiskOK(e)
  BY <1>1, <1>2, <1>3 DEF DiskOK
<1> QED
  BY <1>1, <1>4 DEF e
-----------------------------------------------------------------------------
(***************************************************************************)
(* Memory.                                                                 *)
(***************************************************************************)
\* The list of pending directory changes keeps its type.
LEMMA PendingTypes ==
  ASSUME NEW p \in Seq(DirChange)
  PROVE  /\ <<>> \in Seq(DirChange) /\ AfterFsync(p) \in Seq(DirChange)
         /\ \A b \in Nat : Append(p, DirCreate(b)) \in Seq(DirChange)
         /\ \A b \in Nat : Append(AfterFsync(p), DirCreate(b)) \in Seq(DirChange)
         /\ \A b \in Nat, f \in File : Append(p, DirRemove(b, f)) \in Seq(DirChange)
<1>1. EmptyFile \in File
  BY DEF EmptyFile, File
<1>2. \A b \in Nat : DirCreate(b) \in DirChange
  BY <1>1 DEF DirCreate, DirChange
<1>3. \A b \in Nat, f \in File : DirRemove(b, f) \in DirChange
  BY DEF DirRemove, DirChange
<1>4. <<>> \in Seq(DirChange) /\ AfterFsync(p) \in Seq(DirChange)
  BY DEF AfterFsync
<1> QED
  BY <1>2, <1>3, <1>4

\* The elements of Store.segments.
LEMMA SegmentTypes ==
  ASSUME MemoryTypeOK
  PROVE  /\ Len(segments) \in Nat /\ DOMAIN segments = 1 .. Len(segments)
         /\ segments # <<>> => Len(segments) \in DOMAIN segments /\ 1 \in DOMAIN segments
         /\ \A i \in DOMAIN segments :
              /\ segments[i] \in Segment /\ segments[i].base \in Nat /\ segments[i].next \in Nat
              /\ segments[i].size \in Nat /\ segments[i].maxTs \in Nat
<1>1. segments \in Seq(Segment)
  BY DEF MemoryTypeOK
<1>2. Len(segments) \in Nat /\ DOMAIN segments = 1 .. Len(segments)
  BY <1>1
<1>3. segments # <<>> => Len(segments) \in DOMAIN segments /\ 1 \in DOMAIN segments
  BY <1>1, <1>2
<1>4. \A i \in DOMAIN segments : segments[i] \in Segment
  BY <1>1
<1> QED
  BY <1>2, <1>3, <1>4, SegmentFields

\* While the store accepts writes the active segment is the last file.
LEMMA ActiveIsLast ==
  ASSUME IInv, phase = "open", ~writeFailed
  PROVE  /\ segments # <<>> /\ Active \in Segment /\ Active.base \in Nat
         /\ Active.base \in DOMAIN disk /\ \A c \in DOMAIN disk : c <= Active.base
         /\ Matches(Active, disk[Active.base])
         /\ Active.next = leo /\ End(Active.base, disk[Active.base]) = leo
         /\ FileOK(Active.base, disk[Active.base])
         /\ DOMAIN disk = {segments[i].base : i \in DOMAIN segments}
<1>1. segments # <<>> /\ MemoryTypeOK
  BY DEF IInv, SegmentsOK
<1>2. Len(segments) \in DOMAIN segments /\ Active \in Segment /\ Active.base \in Nat
  BY <1>1, SegmentTypes DEF Active
<1>3. /\ Active.base \in DOMAIN disk /\ Matches(Active, disk[Active.base]) /\ Active.next = leo
  BY <1>1, <1>2 DEF IInv, SegmentsOK, Active
<1>4. DOMAIN disk = {segments[i].base : i \in DOMAIN segments}
  BY Zenon DEF IInv, SegmentsOK, UnopenedOK, Unopened
<1>5. ASSUME NEW c \in DOMAIN disk PROVE c <= Active.base
  <2>1. PICK i \in DOMAIN segments : segments[i].base = c
    BY <1>4
  <2>2. i = Len(segments) \/ i < Len(segments)
    BY <1>1, SegmentTypes
  <2>3. c \in Nat
    BY <1>1, <2>1, SegmentTypes
  <2> QED
    BY <1>2, <2>1, <2>2, <2>3 DEF IInv, SegmentsOK, Active
<1> QED
  BY <1>1, <1>2, <1>3, <1>4, <1>5 DEF IInv, DiskOK, Matches

\* A segment describes a file as long as its batches stay and it is whole.
LEMMA StillMatches ==
  ASSUME NEW s, NEW f, NEW g, Matches(s, f), g.batches = f.batches, g.tail = "none"
  PROVE  Matches(s, g)
<1>1. End(s.base, g) = End(s.base, f)
  BY DEF End
<1> QED
  BY <1>1 DEF Matches, Bytes, IsMaxTimestamp

\* An acknowledged batch stays when no file and no batch goes away.
LEMMA StillRetained ==
  ASSUME AckedRetained, acked' = acked, DOMAIN disk \subseteq DOMAIN disk',
         \A b \in DOMAIN disk : disk'[b].batches = disk[b].batches
  PROVE  AckedRetained'
  BY DEF AckedRetained

\* Init establishes the inductive invariant.
LEMMA InitIInv == Init => IInv
<1> SUFFICES ASSUME Init PROVE IInv
  OBVIOUS
<1>1. DOMAIN disk = {}
  BY DEF Init
<1>2. NoBatch \in Batch
  BY DEF NoBatch, Batch
<1>3. DiskOK(disk)
  BY <1>1 DEF DiskOK
<1>4. MemoryTypeOK
  <2>1. pending \in Seq(DirChange) /\ segments \in Seq(Segment)
    BY DEF Init
  <2>2. writeFailed \in BOOLEAN /\ acked \subseteq Batch /\ cur \in Batch
    BY <1>2, Zenon DEF Init
  <2>3. /\ phase = "down" /\ pc = "idle" /\ leo \in Nat /\ earliest \in Nat
        /\ cutoff \in Int /\ sent \in Nat
    BY DEF Init
  <2> QED
    BY <1>2, <2>1, <2>2, <2>3 DEF MemoryTypeOK
<1> QED
  BY <1>3, <1>4 DEF Init, IInv, SegmentsOK, UnopenedOK, PcOK, AckedRetained
-----------------------------------------------------------------------------
(***************************************************************************)
(* Every step of OpenStore preserves the inductive invariant.              *)
(***************************************************************************)
\* The files are listed; nothing is open yet.
LEMMA OpenStartIInv == IInv /\ OpenStart => IInv'
<1> SUFFICES ASSUME IInv, OpenStart PROVE IInv'
  OBVIOUS
<1>1. disk' = disk /\ segments' = <<>> /\ DOMAIN segments' = {} /\ pc = "idle"
  BY DEF OpenStart, IInv, PcOK
<1>2. DOMAIN disk = {} \/ (earliest' \in DOMAIN disk /\ \A c \in DOMAIN disk : earliest' <= c)
  BY DEF OpenStart
<1>3. earliest' \in Nat /\ leo' = earliest'
  BY DEF OpenStart, IInv, DiskOK
<1>4. MemoryTypeOK'
  <2>1. segments' \in Seq(Segment)
    BY <1>1
  <2> QED
    BY <1>3, <2>1, Zenon DEF OpenStart, IInv, MemoryTypeOK
<1>5. SegmentsOK'
  BY <1>1, <1>3 DEF OpenStart, SegmentsOK
<1>6. Unopened' = DOMAIN disk
  BY <1>1, Zenon DEF Unopened
<1>7. UnopenedOK'
  BY <1>1, <1>2, <1>3, <1>6 DEF OpenStart, UnopenedOK
<1>8. PcOK' /\ AckedRetained'
  BY <1>1 DEF OpenStart, PcOK, IInv, AckedRetained
<1> QED
  BY <1>1, <1>4, <1>5, <1>7, <1>8 DEF IInv

\* The next file is opened, and its incomplete batch is cut off.
LEMMA RecoverSegmentIInv == IInv /\ RecoverSegment => IInv'
<1> SUFFICES ASSUME IInv, RecoverSegment PROVE IInv'
  OBVIOUS
<1>1. PICK b \in Unopened, m \in Times \cup {0} :
        /\ IsNext(b) /\ b = leo /\ Accepts(b, disk[b], Unopened = {b})
        /\ IsMaxTimestamp(m, disk[b])
        /\ disk' = [disk EXCEPT ![b] = Truncated(disk[b])]
        /\ segments' = Append(segments, [base |-> b, next |-> End(b, disk[b]),
                                         size |-> Bytes(b, disk[b]), maxTs |-> m])
        /\ leo' = End(b, disk[b])
  BY Zenon DEF RecoverSegment
<1> DEFINE f == disk[b]
           g == Truncated(f)
           s == [base |-> b, next |-> End(b, f), size |-> Bytes(b, f), maxTs |-> m]
           n == Len(segments)
<1>2. b \in DOMAIN disk /\ b \in Nat /\ FileOK(b, f)
  BY DEF Unopened, IInv, DiskOK
<1>3. /\ g \in File /\ g.batches = f.batches /\ g.tail = "none" /\ g.synced <= Len(f.batches)
  BY <1>2, FileUpdates, Zenon DEF Truncated
<1>4. /\ DiskOK(disk') /\ DOMAIN disk' = DOMAIN disk /\ disk'[b] = g
      /\ \A c \in DOMAIN disk : disk'[c].batches = disk[c].batches /\ (c # b => disk'[c] = disk[c])
  <2>1. DiskOK(disk) /\ disk' = [disk EXCEPT ![b] = g]
    BY <1>1 DEF IInv
  <2>2. g.batches = disk[b].batches /\ g.synced <= Len(g.batches) /\ g \in File
    BY <1>3
  <2>3. Touched(disk, b, disk') /\ disk'[b] = g
    BY <1>2, <1>3, <2>1, <2>2 DEF Touched
  <2> QED
    BY <2>1, <2>3, TouchedDisk
<1>5. s \in Segment /\ s.base = b /\ s.next = leo'
  <2>1. Bytes(b, f) \in Nat /\ End(b, f) \in Nat
    BY <1>2, FileBytes DEF FileOK
  <2>2. m \in Nat
    BY RetentionAssumption
  <2> QED
    BY <1>1, <1>2, <2>1, <2>2 DEF Segment
<1>6. /\ n \in Nat /\ DOMAIN segments = 1 .. n
      /\ segments' \in Seq(Segment) /\ Len(segments') = n + 1 /\ DOMAIN segments' = 1 .. n + 1
      /\ segments'[n + 1] = s /\ \A i \in 1 .. n : segments'[i] = segments[i]
  <2>1. segments \in Seq(Segment) /\ segments' = Append(segments, s)
    BY <1>1 DEF IInv, MemoryTypeOK
  <2> HIDE DEF s
  <2> QED
    BY <1>5, <2>1
<1>7. /\ phase = "opening" /\ phase' = "opening" /\ ~writeFailed /\ ~writeFailed'
      /\ earliest' = earliest /\ pc' = pc /\ pc = "idle" /\ acked' = acked
  BY DEF RecoverSegment, IInv, UnopenedOK, PcOK
<1>8. \A i \in 1 .. n : /\ segments[i].base < b /\ segments[i].base # b /\ segments[i].base \in Nat
                       /\ segments[i].base \in DOMAIN disk
                       /\ Matches(segments[i], disk[segments[i].base])
  <2>1. \A i \in 1 .. n : segments[i].base \in Nat
    BY <1>6, SegmentTypes DEF IInv
  <2> QED
    BY <1>1, <1>2, <1>6, <1>7, <2>1, SMTT(30) DEF IInv, UnopenedOK, SegmentsOK
<1>9. MemoryTypeOK'
  <2>1. leo' \in Nat
    BY <1>1, <1>2 DEF FileOK
  <2>2. pending' \in Seq(DirChange)
    BY PendingTypes, Zenon DEF RecoverSegment, IInv, MemoryTypeOK
  <2> QED
    BY <1>6, <2>1, <2>2 DEF RecoverSegment, IInv, MemoryTypeOK
<1>10. SegmentsOK'
  <2>1. ASSUME NEW i \in 1 .. n PROVE segments'[i].next = segments'[i + 1].base
    <3>1. CASE i = n
      <4>1. segments # <<>> /\ segments[n].next = leo
        BY <1>6, <1>7, <3>1 DEF IInv, SegmentsOK, Active
      <4> QED
        BY <1>1, <1>5, <1>6, <3>1, <4>1
    <3>2. CASE i # n
      <4>1. i \in 1 .. n - 1 /\ i + 1 \in 1 .. n
        <5>1. n \in Nat
          BY <1>6
        <5> HIDE DEF n
        <5> QED
          BY <3>2, <5>1
      <4> QED
        BY <1>6, <1>7, <4>1 DEF IInv, SegmentsOK
    <3> QED
      BY <3>1, <3>2, Zenon
  <2>2. ASSUME NEW i \in 1 .. n + 1, NEW j \in 1 .. n + 1, i < j
        PROVE  segments'[i].base < segments'[j].base
    <3>1. i \in 1 .. n
      BY <1>6, <2>2
    <3>2. CASE j = n + 1
      BY <1>5, <1>6, <1>8, <3>1, <3>2, SMTT(30)
    <3>3. CASE j \in 1 .. n
      BY <1>6, <1>7, <2>2, <3>1, <3>3 DEF IInv, SegmentsOK
    <3> QED
      BY <1>6, <3>2, <3>3
  <2>3. segments' # <<>> /\ Active' = s
    BY <1>6 DEF Active
  <2>4. segments'[1].base = earliest'
    <3>1. CASE segments = <<>>
      <4>1. n = 0
        BY <3>1
      <4>2. segments'[1] = s
        BY <1>6, <4>1
      <4>3. leo = earliest
        BY <1>7, <3>1, SMTT(30) DEF IInv, SegmentsOK
      <4> HIDE DEF s, n
      <4> QED
        BY <1>1, <1>5, <1>7, <4>2, <4>3
    <3>2. CASE segments # <<>>
      <4>1. 1 \in 1 .. n
        BY <1>6, <3>2 DEF IInv, MemoryTypeOK
      <4> QED
        BY <1>6, <1>7, <3>2, <4>1 DEF IInv, SegmentsOK
    <3> QED
      BY <3>1, <3>2
  <2>5. ASSUME NEW i \in 1 .. n + 1
        PROVE  /\ segments'[i].base \in DOMAIN disk'
               /\ Matches(segments'[i], disk'[segments'[i].base])
    <3>1. CASE i \in 1 .. n
      BY <1>4, <1>6, <1>8, <3>1
    <3>2. CASE i = n + 1
      <4>1. s.base = b /\ s.next = End(b, f) /\ s.size = Bytes(b, f) /\ s.maxTs = m
        OBVIOUS
      <4>2. /\ End(b, g) = End(b, f) /\ Bytes(b, g) = Bytes(b, f)
            /\ IsMaxTimestamp(m, g) /\ Continuous(b, g.batches)
        <5>1. g.tail \in {"none", "short"} /\ g.synced <= Len(g.batches)
          BY <1>3
        <5>2. IsMaxTimestamp(m, f)
          BY <1>1
        <5> HIDE DEF f, g
        <5> QED
          BY <1>2, <1>3, <5>1, <5>2, SameBatches, Zenon DEF FileOK
      <4>3. segments'[i] = s /\ disk'[b] = g /\ g.tail = "none" /\ b \in DOMAIN disk'
        BY <1>2, <1>3, <1>4, <1>6, <3>2
      <4> HIDE DEF s, g, f
      <4> QED
        BY <4>1, <4>2, <4>3 DEF Matches
    <3> QED
      BY <1>6, <3>1, <3>2
  <2>6. Len(segments') - 1 = n
    BY <1>6
  <2> HIDE DEF n, s
  <2> QED
    BY <1>5, <1>6, <1>7, <2>1, <2>2, <2>3, <2>4, <2>5, <2>6 DEF SegmentsOK
<1>11. UnopenedOK'
  <2>1. Unopened' = Unopened \ {b}
    <3>1. \A c : (\A i \in 1 .. n + 1 : segments'[i].base # c)
                  <=> c # b /\ \A i \in 1 .. n : segments[i].base # c
      <4>1. \A i \in 1 .. n + 1 : i \in 1 .. n \/ i = n + 1
        BY <1>6
      <4>2. n + 1 \in 1 .. n + 1 /\ \A i \in 1 .. n : i \in 1 .. n + 1
        BY <1>6
      <4> QED
        BY <1>5, <1>6, <4>1, <4>2
    <3> QED
      <4>1. Unopened = {c \in DOMAIN disk : \A i \in 1 .. n : segments[i].base # c}
        BY <1>6 DEF Unopened
      <4>2. Unopened' = {c \in DOMAIN disk' : \A i \in 1 .. n + 1 : segments'[i].base # c}
        BY <1>6 DEF Unopened
      <4> HIDE DEF n
      <4> QED
        BY <1>4, <3>1, <4>1, <4>2
  <2>2. ASSUME NEW c \in Unopened'
        PROVE  /\ leo' <= c /\ leo' \in DOMAIN disk /\ b < leo' /\ leo' \in Nat
    <3>1. b < c /\ c \in DOMAIN disk
      <4>1. b <= c /\ c # b /\ c \in DOMAIN disk
        BY <1>1, <2>1 DEF IsNext, Unopened
      <4> QED
        BY <1>2, <4>1 DEF IInv, DiskOK
    <3> QED
      BY <1>1, <1>2, <3>1 DEF IInv, DiskOK
  <2>3. ASSUME NEW c \in Unopened'
        PROVE  leo' \in Unopened' /\ \A i \in 1 .. n + 1 : segments'[i].base < leo'
    <3>1. \A i \in 1 .. n + 1 : segments'[i].base < leo' /\ segments'[i].base \in Nat
      <4>1. \A i \in 1 .. n + 1 : i \in 1 .. n \/ i = n + 1
        BY <1>6
      <4>2. b < leo' /\ b \in Nat /\ leo' \in Nat
        BY <1>2, <2>2, <2>3
      <4>3. segments'[n + 1].base = b
        BY <1>5, <1>6
      <4>4. ASSUME NEW i \in 1 .. n
            PROVE  segments'[i].base < leo' /\ segments'[i].base \in Nat
        <5>1. segments'[i].base < b /\ segments'[i].base \in Nat
          BY <1>6, <1>8
        <5> QED
          BY <4>2, <5>1, OffsetOrder, Zenon
      <4> HIDE DEF n
      <4> QED
        BY <4>1, <4>2, <4>3, <4>4
    <3> QED
      <4>1. Unopened' = {d \in DOMAIN disk' : \A i \in 1 .. n + 1 : segments'[i].base # d}
        BY <1>6 DEF Unopened
      <4>2. leo' \in DOMAIN disk' /\ leo' \in Nat
        BY <1>4, <2>2, <2>3
      <4>3. \A i \in 1 .. n + 1 : segments'[i].base # leo'
        BY <3>1, <4>2
      <4> QED
        BY <3>1, <4>1, <4>2, <4>3, SMTT(30)
  <2> QED
    BY <1>6, <1>7, <2>2, <2>3 DEF UnopenedOK
<1>12. PcOK'
  BY <1>7 DEF PcOK
<1>13. AckedRetained'
  BY <1>4, <1>7, StillRetained DEF IInv
<1> QED
  BY <1>4, <1>9, <1>10, <1>11, <1>12, <1>13 DEF IInv

\* The store is open; an empty directory has its first file.
LEMMA OpenDoneIInv == IInv /\ OpenDone => IInv'
<1> SUFFICES ASSUME IInv, OpenDone PROVE IInv'
  OBVIOUS
<1>1. /\ phase = "opening" /\ phase' = "open" /\ Unopened = {} /\ ~writeFailed /\ ~writeFailed'
      /\ pc = "idle" /\ pc' = "idle" /\ acked' = acked
  BY DEF OpenDone, IInv, UnopenedOK, PcOK
<1>2. PcOK'
  BY <1>1 DEF PcOK
<1>3. CASE segments = <<>>
  <2> DEFINE s == [base |-> 0, next |-> 0, size |-> 0, maxTs |-> 0]
  <2>1. disk' = Created(disk, 0) /\ segments' = <<s>> /\ leo' = 0 /\ earliest' = 0
    BY <1>3 DEF OpenDone
  <2>2. DOMAIN disk = {}
    <3>1. DOMAIN segments = {}
      BY <1>3
    <3> QED
      BY <1>1, <3>1, Zenon DEF Unopened
  <2>3. DiskOK(disk') /\ DOMAIN disk' = {0} /\ disk'[0] = EmptyFile
    BY <2>1, <2>2, FirstFile
  <2>4. /\ s \in Segment /\ segments' \in Seq(Segment) /\ Len(segments') = 1
        /\ DOMAIN segments' = {1} /\ segments'[1] = s /\ segments' # <<>>
    BY <2>1 DEF Segment
  <2>5. MemoryTypeOK'
    <3>1. pending' \in Seq(DirChange)
      BY <1>3, PendingTypes, Zenon DEF OpenDone, IInv, MemoryTypeOK
    <3> QED
      BY <2>1, <2>4, <3>1 DEF OpenDone, IInv, MemoryTypeOK
  <2>6. Matches(s, disk'[s.base])
    <3>1. s.base = 0 /\ s.next = 0 /\ s.size = 0 /\ s.maxTs = 0
      OBVIOUS
    <3>2. /\ End(0, EmptyFile) = 0 /\ Bytes(0, EmptyFile) = 0 /\ IsMaxTimestamp(0, EmptyFile)
          /\ Continuous(0, EmptyFile.batches) /\ EmptyFile.tail = "none"
      BY EmptyFileOK DEF FileOK
    <3> QED
      BY <2>3, <3>1, <3>2 DEF Matches
  <2>7. s.base = 0 /\ s.next = 0
    OBVIOUS
  <2> HIDE DEF s
  <2>8. segments' # <<>> /\ Active' = s
    <3>1. Active' = segments'[Len(segments')]
      BY DEF Active
    <3> QED
      BY <2>4, <3>1
  <2>9. SegmentsOK'
    BY <1>1, <2>1, <2>3, <2>4, <2>6, <2>7, <2>8 DEF SegmentsOK
  <2>10. UnopenedOK'
    BY <1>1, <2>3, <2>4, <2>7 DEF UnopenedOK, Unopened
  <2>11. AckedRetained'
    BY <1>1, <2>2 DEF IInv, AckedRetained
  <2> QED
    BY <1>2, <2>3, <2>5, <2>9, <2>10, <2>11 DEF IInv
<1>4. CASE segments # <<>>
  <2>1. UNCHANGED <<disk, pending, segments, leo, earliest>>
    BY <1>4 DEF OpenDone
  <2>2. MemoryTypeOK' /\ AckedRetained'
    BY <1>1, <2>1, Zenon DEF OpenDone, IInv, MemoryTypeOK, AckedRetained
  <2>3. SegmentsOK'
    BY <1>1, <1>4, <2>1, Zenon DEF IInv, SegmentsOK, Active
  <2>4. UnopenedOK'
    BY <1>1, <2>1 DEF UnopenedOK, Unopened
  <2> QED
    BY <1>2, <2>1, <2>2, <2>3, <2>4 DEF IInv
<1> QED
  BY <1>3, <1>4

\* OpenStore fails.
LEMMA OpenFailIInv == IInv /\ OpenFail => IInv'
<1> SUFFICES ASSUME IInv, OpenFail PROVE IInv'
  OBVIOUS
<1>1. phase' = "down" /\ pc' = "idle"
  BY DEF OpenFail, IInv, PcOK
<1>2. SegmentsOK' /\ UnopenedOK' /\ PcOK'
  BY <1>1 DEF SegmentsOK, UnopenedOK, PcOK
<1>3. MemoryTypeOK'
  <2>1. pending' \in Seq(DirChange)
    BY PendingTypes, Zenon DEF OpenFail, IInv, MemoryTypeOK
  <2> QED
    BY <2>1 DEF OpenFail, memory, IInv, MemoryTypeOK
<1>4. DiskOK(disk')
  BY FirstFile DEF OpenFail, IInv
<1>5. AckedRetained'
  BY DEF OpenFail, IInv, AckedRetained
<1> QED
  BY <1>2, <1>3, <1>4, <1>5 DEF IInv
-----------------------------------------------------------------------------
(***************************************************************************)
(* Steps that leave the files or their batches alone.                      *)
(***************************************************************************)
\* Neither the files nor the segments change.
LEMMA NothingStored ==
  ASSUME IInv, disk' = disk, segments' = segments, leo' = leo, earliest' = earliest,
         acked' = acked, ~writeFailed' => ~writeFailed,
         phase' = phase \/ phase' = "down" \/ (phase = "open" /\ phase' = "closed"),
         phase = "opening" => ~writeFailed' \/ phase' = "down"
  PROVE  DiskOK(disk') /\ SegmentsOK' /\ UnopenedOK' /\ AckedRetained' /\ Active' = Active
<1>1. Active' = Active /\ Unopened' = Unopened /\ DiskOK(disk') /\ AckedRetained'
  BY DEF Active, Unopened, IInv, AckedRetained
<1>2. SegmentsOK'
  BY <1>1, SMTT(30) DEF IInv, SegmentsOK
<1>3. UnopenedOK'
  BY <1>1 DEF IInv, UnopenedOK
<1> QED
  BY <1>1, <1>2, <1>3

\* The active log file is fsynced or gets another tail.
LEMMA ActiveTouched ==
  ASSUME IInv, phase = "open", NEW g \in File, g.batches = disk[Active.base].batches,
         g.synced <= Len(g.batches), g.tail \in {"none", "short"},
         g.tail = disk[Active.base].tail \/ (~writeFailed /\ (writeFailed' \/ phase' = "down")),
         disk' = [disk EXCEPT ![Active.base] = g],
         segments' = segments, leo' = leo, earliest' = earliest, ~writeFailed' => ~writeFailed,
         phase' \in {"open", "closed", "down"}
  PROVE  /\ DiskOK(disk') /\ SegmentsOK' /\ UnopenedOK'
         /\ Active' = Active /\ DOMAIN disk' = DOMAIN disk
         /\ \A b \in DOMAIN disk : disk'[b].batches = disk[b].batches
<1> DEFINE a == Active.base
<1>1. segments # <<>> /\ a \in DOMAIN disk
  BY SegmentTypes DEF IInv, SegmentsOK, Active
<1>2. g.tail \in {"none", disk[a].tail} \/ \A c \in DOMAIN disk : c <= a
  BY ActiveIsLast
<1>3. /\ DiskOK(disk) /\ g.batches = disk[a].batches /\ disk' = [disk EXCEPT ![a] = g]
      /\ g.synced <= Len(g.batches) /\ g.tail \in {"none", "short"}
  BY DEF IInv
<1> HIDE DEF a
<1>4. /\ DiskOK(disk') /\ DOMAIN disk' = DOMAIN disk /\ disk'[a] = g
      /\ \A b \in DOMAIN disk : disk'[b].batches = disk[b].batches /\ (b # a => disk'[b] = disk[b])
  <2>1. Touched(disk, a, disk') /\ disk'[a] = g
    BY <1>1, <1>2, <1>3 DEF Touched
  <2> QED
    BY <1>3, <2>1, TouchedDisk
<1>5. Active' = Active
  BY DEF Active
<1>6. Unopened' = Unopened
  BY <1>4 DEF Unopened
<1>7. ASSUME phase' = "open", ~writeFailed', NEW i \in DOMAIN segments
      PROVE  Matches(segments[i], disk'[segments[i].base])
  <2>1. Matches(segments[i], disk[segments[i].base]) /\ segments[i].base \in DOMAIN disk
    BY <1>7 DEF IInv, SegmentsOK
  <2>2. g.tail = disk[a].tail
    BY <1>7 DEF a
  <2>3. disk'[segments[i].base].tail = "none"
    BY <1>4, <2>1, <2>2, Zenon DEF Matches
  <2> QED
    BY <1>4, <2>1, <2>3, StillMatches, Zenon
<1>8. SegmentsOK'
  BY <1>1, <1>4, <1>5, <1>7 DEF IInv, SegmentsOK
<1>9. UnopenedOK'
  BY <1>6, Zenon DEF IInv, UnopenedOK
<1> QED
  BY <1>4, <1>5, <1>8, <1>9
-----------------------------------------------------------------------------
(***************************************************************************)
(* Every step of Append preserves the inductive invariant.                 *)
(***************************************************************************)
\* The batch gets its base offset.
LEMMA AppendStartIInv ==
  ASSUME NEW n \in 1 .. MaxRecords, NEW ts \in Times, IInv, AppendStart(n, ts)
  PROVE  IInv'
<1>1. DiskOK(disk') /\ SegmentsOK' /\ UnopenedOK' /\ AckedRetained' /\ Active' = Active
  BY NothingStored DEF AppendStart, memory
<1>2. n \in Nat /\ n > 0 /\ ts \in Nat /\ leo \in Nat /\ sent \in Nat
  BY BoundAssumption, RetentionAssumption DEF IInv, MemoryTypeOK
<1>3. cur' \in Batch /\ cur'.base = leo /\ cur'.n = n /\ cur'.ts = ts
  BY <1>2 DEF AppendStart, Batch
<1>4. MemoryTypeOK'
  BY <1>2, <1>3 DEF AppendStart, memory, IInv, MemoryTypeOK
<1>5. PcOK'
  BY <1>1, <1>2, <1>3, Zenon DEF AppendStart, memory, NeedsRoll, PcOK
<1> QED
  BY <1>1, <1>4, <1>5 DEF IInv

\* The directory while the store rolls to a new segment.
LEMMA RollingDisk ==
  ASSUME IInv, pc = "roll"
  PROVE  /\ phase = "open" /\ ~writeFailed /\ Active.base < leo
         /\ leo \notin DOMAIN disk
         /\ DiskOK(RollFlushed) /\ DOMAIN RollFlushed = DOMAIN disk
         /\ DiskOK(Created(RollFlushed, leo))
         /\ DOMAIN Created(RollFlushed, leo) = DOMAIN disk \cup {leo}
         /\ Created(RollFlushed, leo)[leo] = EmptyFile
         /\ \A b \in DOMAIN disk :
              /\ RollFlushed[b].batches = disk[b].batches /\ RollFlushed[b].tail = disk[b].tail
              /\ Created(RollFlushed, leo)[b] = RollFlushed[b]
<1> DEFINE a == Active.base
           f == disk[a]
           d == RollFlushed
<1>1. phase = "open" /\ ~writeFailed /\ Active.size > 0 /\ leo \in Nat /\ DiskOK(disk)
  BY DEF IInv, PcOK, MemoryTypeOK
<1>2. /\ a \in Nat /\ a \in DOMAIN disk /\ \A c \in DOMAIN disk : c <= a
      /\ Matches(Active, f) /\ End(a, f) = leo /\ FileOK(a, f)
  BY <1>1, ActiveIsLast
<1>3. a < leo /\ f.tail = "none"
  BY <1>1, <1>2, FileBytes DEF Matches
<1>4. /\ Synced(f) \in File /\ Synced(f).batches = f.batches /\ Synced(f).tail = f.tail
      /\ Synced(f).synced <= Len(f.batches)
  <2> HIDE DEF a, f
  <2> QED
    BY <1>2, FileUpdates, Zenon
<1> DEFINE g == Synced(f)
<1>5. /\ d = [disk EXCEPT ![a] = g] /\ g \in File /\ g.batches = disk[a].batches
      /\ g.synced <= Len(g.batches) /\ g.tail = "none" /\ disk[a].tail = "none"
  BY <1>3, <1>4 DEF RollFlushed
<1> HIDE DEF a, d, g
<1>6. /\ DiskOK(d) /\ DOMAIN d = DOMAIN disk /\ d[a] = g
      /\ \A b \in DOMAIN disk : d[b].batches = disk[b].batches /\ (b # a => d[b] = disk[b])
      /\ \A b \in DOMAIN disk : End(b, d[b]) = End(b, disk[b])
  <2>1. Touched(disk, a, d) /\ d[a] = g
    BY <1>2, <1>5 DEF Touched
  <2> QED
    BY <1>1, <2>1, TouchedDisk
<1>7. \A b \in DOMAIN disk : d[b].tail = disk[b].tail
  BY <1>5, <1>6
<1>8. /\ leo \notin DOMAIN d /\ DiskOK(Created(d, leo))
      /\ DOMAIN Created(d, leo) = DOMAIN d \cup {leo} /\ Created(d, leo)[leo] = EmptyFile
      /\ \A b \in DOMAIN d : Created(d, leo)[b] = d[b]
  <2>1. a \in DOMAIN d /\ \A c \in DOMAIN d : c <= a
    BY <1>2, <1>6
  <2>2. End(a, d[a]) = leo /\ d[a].tail = "none"
    BY <1>2, <1>3, <1>6, <1>7
  <2> HIDE DEF f
  <2> QED
    BY <1>1, <1>3, <1>6, <2>1, <2>2, CreatedDisk, SMTT(30)
<1> QED
  BY <1>1, <1>3, <1>6, <1>7, <1>8 DEF a, d

\* A new segment becomes the active one.
LEMMA RollIInv == IInv /\ Roll => IInv'
<1> SUFFICES ASSUME IInv, Roll PROVE IInv'
  OBVIOUS
<1> DEFINE n == Len(segments)
           s == [base |-> leo, next |-> leo, size |-> 0, maxTs |-> 0]
<1>1. /\ phase = "open" /\ ~writeFailed /\ Active.base < leo /\ leo \notin DOMAIN disk
      /\ phase' = "open" /\ ~writeFailed' /\ leo' = leo /\ earliest' = earliest
      /\ pc' = "write" /\ cur' = cur /\ acked' = acked /\ leo \in Nat
  BY RollingDisk DEF Roll, IInv, MemoryTypeOK
<1>2. /\ DiskOK(disk') /\ DOMAIN disk' = DOMAIN disk \cup {leo} /\ disk'[leo] = EmptyFile
      /\ \A b \in DOMAIN disk : disk'[b].batches = disk[b].batches /\ disk'[b].tail = disk[b].tail
  BY RollingDisk, Zenon DEF Roll
<1>3. s \in Segment /\ s.base = leo /\ s.next = leo /\ s.size = 0 /\ s.maxTs = 0
  BY <1>1 DEF Segment
<1>4. segments' = Append(segments, s)
  BY DEF Roll
<1> HIDE DEF s
<1>5. /\ n \in Nat /\ DOMAIN segments = 1 .. n
      /\ segments' \in Seq(Segment) /\ Len(segments') = n + 1 /\ DOMAIN segments' = 1 .. n + 1
      /\ segments'[n + 1] = s /\ \A i \in 1 .. n : segments'[i] = segments[i]
  BY <1>3, <1>4, SMTT(30) DEF IInv, MemoryTypeOK
<1>6. /\ segments # <<>> /\ Active.next = leo /\ n \in 1 .. n /\ 1 \in 1 .. n
      /\ DOMAIN disk = {segments[i].base : i \in 1 .. n}
      /\ \A c \in DOMAIN disk : c <= Active.base
  BY <1>1, <1>5, ActiveIsLast, SegmentTypes, SMTT(30) DEF IInv
<1>7. \A i \in 1 .. n : /\ segments[i].base \in Nat /\ segments[i].base \in DOMAIN disk
                       /\ Matches(segments[i], disk[segments[i].base])
  BY <1>1, <1>5, SegmentTypes, Zenon DEF IInv, SegmentsOK
<1>8. \A i \in 1 .. n : segments[i].base < leo
  <2>1. Active.base \in Nat
    BY <1>1, ActiveIsLast
  <2>2. \A i \in 1 .. n : segments[i].base <= Active.base
    BY <1>6, <1>7, Zenon
  <2> HIDE DEF n
  <2> QED
    BY <1>1, <1>7, <2>1, <2>2
<1>9. MemoryTypeOK'
  <2>1. pending' \in Seq(DirChange)
    BY <1>1, PendingTypes DEF Roll, IInv, MemoryTypeOK
  <2> QED
    BY <1>5, <2>1 DEF Roll, IInv, MemoryTypeOK
<1>10. SegmentsOK'
  <2>1. ASSUME NEW i \in 1 .. n PROVE segments'[i].next = segments'[i + 1].base
    <3>1. CASE i = n
      BY <1>3, <1>5, <1>6, <3>1, Zenon DEF Active
    <3>2. CASE i # n
      <4>1. i \in 1 .. n - 1 /\ i + 1 \in 1 .. n
        <5>1. n \in Nat
          BY <1>5
        <5> HIDE DEF n
        <5> QED
          BY <3>2, <5>1
      <4> QED
        BY <1>1, <1>5, <4>1 DEF IInv, SegmentsOK
    <3> QED
      BY <3>1, <3>2
  <2>2. ASSUME NEW i \in 1 .. n + 1, NEW j \in 1 .. n + 1, i < j
        PROVE  segments'[i].base < segments'[j].base
    <3>1. i \in 1 .. n /\ (j = n + 1 \/ j \in 1 .. n)
      <4>1. n \in Nat
        BY <1>5, Zenon
      <4> HIDE DEF n
      <4> QED
        BY <2>2, <4>1
    <3>2. CASE j = n + 1
      BY <1>3, <1>5, <1>8, <3>1, <3>2, SMTT(30)
    <3>3. CASE j \in 1 .. n
      BY <1>1, <1>5, <2>2, <3>1, <3>3 DEF IInv, SegmentsOK
    <3> QED
      BY <3>1, <3>2, <3>3
  <2>3. segments' # <<>> /\ Active' = s
    BY <1>5 DEF Active
  <2>4. segments'[1].base = earliest'
    BY <1>1, <1>5, <1>6 DEF IInv, SegmentsOK
  <2>5. ASSUME NEW i \in 1 .. n + 1
        PROVE  /\ segments'[i].base \in DOMAIN disk'
               /\ Matches(segments'[i], disk'[segments'[i].base])
    <3>1. CASE i \in 1 .. n
      <4>1. disk'[segments[i].base].tail = "none"
        BY <1>2, <1>7, <3>1, Zenon DEF Matches
      <4> QED
        BY <1>2, <1>5, <1>7, <3>1, <4>1, StillMatches, Zenon
    <3>2. CASE i = n + 1
      BY <1>1, <1>2, <1>3, <1>5, <3>2, EmptyFileOK DEF Matches, FileOK
    <3> QED
      BY <1>5, <3>1, <3>2, SMTT(30)
  <2>6. Len(segments') - 1 = n
    BY <1>5
  <2> HIDE DEF n
  <2> QED
    BY <1>1, <1>3, <1>5, <2>1, <2>2, <2>3, <2>4, <2>5, <2>6 DEF SegmentsOK
<1>11. UnopenedOK'
  <2>1. ASSUME NEW c \in DOMAIN disk' PROVE \E i \in 1 .. n + 1 : segments'[i].base = c
    <3>1. n + 1 \in 1 .. n + 1 /\ \A i \in 1 .. n : i \in 1 .. n + 1
      BY <1>5
    <3> QED
      BY <1>2, <1>3, <1>5, <1>6, <3>1
  <2>2. Unopened' = {}
    BY <1>5, <2>1 DEF Unopened
  <2> QED
    BY <1>1, <2>2, Zenon DEF UnopenedOK
<1>12. PcOK'
  BY <1>1 DEF Roll, IInv, PcOK
<1>13. AckedRetained'
  BY <1>1, <1>2, StillRetained DEF IInv
<1> QED
  BY <1>2, <1>9, <1>10, <1>11, <1>12, <1>13 DEF IInv

\* A roll that fails leaves the new file behind or not.
LEMMA RollFailIInv == IInv /\ RollFail => IInv'
<1> SUFFICES ASSUME IInv, RollFail PROVE IInv'
  OBVIOUS
<1>1. /\ phase = "open" /\ phase' = "open" /\ writeFailed' /\ segments' = segments /\ leo' = leo
      /\ earliest' = earliest /\ pc' = "idle" /\ acked' = acked
  BY RollingDisk DEF RollFail, FailStore, Return
<1>2. /\ DiskOK(disk') /\ DOMAIN disk \subseteq DOMAIN disk'
      /\ \A b \in DOMAIN disk : disk'[b].batches = disk[b].batches
  <2>1. CASE disk' = disk
    BY <2>1 DEF IInv
  <2>2. CASE disk' = RollFlushed
    BY <2>2, RollingDisk DEF RollFail
  <2>3. CASE disk' = Created(RollFlushed, leo)
    BY <2>3, RollingDisk DEF RollFail
  <2> QED
    BY <2>1, <2>2, <2>3 DEF RollFail
<1>3. MemoryTypeOK'
  <2>1. pending' \in Seq(DirChange) /\ NoBatch \in Batch
    BY PendingTypes, Zenon DEF RollFail, IInv, MemoryTypeOK, NoBatch, Batch
  <2> QED
    BY <2>1 DEF RollFail, FailStore, Return, IInv, MemoryTypeOK
<1>4. SegmentsOK'
  BY <1>1, <1>2 DEF IInv, SegmentsOK, Active
<1>5. UnopenedOK' /\ PcOK'
  BY <1>1 DEF UnopenedOK, PcOK
<1>6. AckedRetained'
  BY <1>1, <1>2, StillRetained DEF IInv
<1> QED
  BY <1>2, <1>3, <1>4, <1>5, <1>6 DEF IInv

\* An Append that fails before the write.
LEMMA RelativeOverflowIInv == IInv /\ RelativeOverflow => IInv'
<1> SUFFICES ASSUME IInv, RelativeOverflow PROVE IInv'
  OBVIOUS
<1>1. phase = "open"
  BY DEF RelativeOverflow, IInv, PcOK
<1>2. DiskOK(disk') /\ SegmentsOK' /\ UnopenedOK' /\ AckedRetained'
  BY <1>1, NothingStored DEF RelativeOverflow, FailStore
<1>3. MemoryTypeOK'
  <2>1. NoBatch \in Batch
    BY DEF NoBatch, Batch
  <2> QED
    BY <2>1 DEF RelativeOverflow, FailStore, Return, IInv, MemoryTypeOK
<1>4. PcOK'
  BY DEF RelativeOverflow, Return, PcOK
<1> QED
  BY <1>2, <1>3, <1>4 DEF IInv

\* The batch becomes the last one of the active segment.
LEMMA WriteIInv == IInv /\ Write => IInv'
<1> SUFFICES ASSUME IInv, Write PROVE IInv'
  OBVIOUS
<1> DEFINE n == Len(segments)
           a == Active.base
           f == disk[a]
           g == WithBatch(f, cur)
           s == Extended(Active, cur)
<1>1. /\ phase = "open" /\ ~writeFailed /\ phase' = "open" /\ ~writeFailed'
      /\ earliest' = earliest /\ leo' = BatchEnd(cur) /\ cur.base = leo /\ cur.n > 0
      /\ cur \in Batch /\ leo \in Nat /\ DiskOK(disk)
  BY DEF Write, IInv, PcOK, MemoryTypeOK
<1>2. /\ segments # <<>> /\ Active \in Segment /\ a \in Nat /\ a \in DOMAIN disk
      /\ \A c \in DOMAIN disk : c <= a
      /\ Matches(Active, f) /\ End(a, f) = leo /\ FileOK(a, f)
      /\ DOMAIN disk = {segments[i].base : i \in DOMAIN segments}
  BY <1>1, ActiveIsLast
<1>3. /\ FileOK(a, g) /\ End(a, g) = BatchEnd(cur) /\ g.tail = f.tail
      /\ Bytes(a, g) = Bytes(a, f) + BatchBytes(cur.n)
      /\ Range(f.batches) \subseteq Range(g.batches) /\ cur \in Range(g.batches)
      /\ \A m \in Nat : IsMaxTimestamp(m, f) => IsMaxTimestamp(Newest(m, cur.ts), g)
  <2>1. cur.base = End(a, f)
    BY <1>1, <1>2, Zenon
  <2> HIDE DEF a, f
  <2> QED
    BY <1>1, <1>2, <2>1, AppendedBatch, Zenon
<1>4. /\ DiskOK(disk') /\ DOMAIN disk' = DOMAIN disk /\ disk'[a] = g
      /\ \A b \in DOMAIN disk : b # a => disk'[b] = disk[b]
  <2>1. disk' = [disk EXCEPT ![a].batches = Append(@, cur)] /\ cur.base = End(a, disk[a])
    BY <1>1, <1>2 DEF Write
  <2>2. /\ DOMAIN disk' = DOMAIN disk /\ disk'[a] = g
        /\ \A b \in DOMAIN disk : b # a => disk'[b] = disk[b]
    BY <1>2, <2>1, SMTT(30) DEF WithBatch
  <2>3. Grown(disk, a, cur, disk')
    BY <1>1, <1>2, <2>1, <2>2 DEF Grown
  <2> QED
    BY <1>1, <2>2, <2>3, GrownDisk, Zenon
<1>5. /\ n \in Nat /\ DOMAIN segments = 1 .. n /\ n \in 1 .. n /\ 1 \in 1 .. n
      /\ segments \in Seq(Segment) /\ segments[n] = Active
  BY <1>2, SegmentTypes, Zenon DEF IInv, MemoryTypeOK, Active
<1>6. /\ s.base = a /\ s.next = BatchEnd(cur) /\ s.size = Active.size + BatchBytes(cur.n)
      /\ s.maxTs = Newest(Active.maxTs, cur.ts) /\ s \in Segment
  <2>1. /\ Active.base \in Nat /\ Active.size \in Nat /\ Active.maxTs \in Nat
        /\ cur.n \in Nat /\ cur.ts \in Nat /\ BatchEnd(cur) \in Nat
    BY <1>1, <1>2, SegmentFields, BatchFields
  <2>2. BatchBytes(cur.n) \in Nat
    <3>1. cur.n * RecordBytes \in Nat
      BY <2>1, SizeAssumption
    <3> QED
      BY <3>1, SizeAssumption DEF BatchBytes
  <2>3. Newest(Active.maxTs, cur.ts) \in Nat /\ Active.size + BatchBytes(cur.n) \in Nat
    BY <2>1, <2>2 DEF Newest
  <2> QED
    BY <1>2, <2>1, <2>3, Zenon DEF Segment, Extended
<1>7. /\ segments' \in Seq(Segment) /\ Len(segments') = n /\ DOMAIN segments' = 1 .. n
      /\ segments'[n] = s /\ \A i \in 1 .. n : i # n => segments'[i] = segments[i]
  <2>1. segments' = [segments EXCEPT ![n] = s]
    BY <1>5 DEF Write, Active
  <2>2. s \in Segment /\ n \in 1 .. Len(segments) /\ segments \in Seq(Segment)
    BY <1>5, <1>6
  <2> HIDE DEF s
  <2>3. /\ segments' \in Seq(Segment) /\ Len(segments') = Len(segments)
        /\ \A i \in 1 .. n : segments'[i] = IF i = n THEN s ELSE segments[i]
    BY <2>1, <2>2, ExceptSeq
  <2>4. DOMAIN segments' = 1 .. Len(segments')
    BY <2>3
  <2>5. Len(segments') = n /\ n \in 1 .. n
    BY <1>5, <2>3, Zenon
  <2> HIDE DEF n
  <2> QED
    BY <2>3, <2>4, <2>5
<1>8. Matches(s, g)
  <2>1. Active.maxTs \in Nat
    BY <1>2, SegmentFields, Zenon
  <2> HIDE DEF s, g, f
  <2> QED
    BY <1>2, <1>3, <1>6, <2>1, Zenon DEF Matches, FileOK
<1> HIDE DEF s, g
<1>9. MemoryTypeOK'
  <2>1. leo' \in Nat /\ NoBatch \in Batch
    BY <1>1, BatchFields DEF NoBatch, Batch
  <2>2. cur' \in Batch /\ acked' \subseteq Batch /\ pc' \in {"idle", "flush"}
    BY <2>1 DEF Write, Return, IInv, MemoryTypeOK
  <2> QED
    BY <1>7, <2>1, <2>2 DEF Write, IInv, MemoryTypeOK
<1>10. SegmentsOK'
  <2>1. \A i \in 1 .. n : segments'[i].base = segments[i].base
    BY <1>5, <1>6, <1>7, Zenon
  <2>2. \A i \in 1 .. n - 1 : i \in 1 .. n /\ i # n /\ i + 1 \in 1 .. n
    <3>1. n \in Nat
      BY <1>5
    <3> HIDE DEF n
    <3> QED
      BY <3>1
  <2>3. \A i \in 1 .. n - 1 : segments'[i].next = segments'[i + 1].base
    BY <1>1, <1>7, <2>1, <2>2, Zenon DEF IInv, SegmentsOK
  <2>4. segments' # <<>> /\ Active' = s
    <3>1. Active' = segments'[Len(segments')]
      BY DEF Active
    <3>2. Len(segments') = n /\ n \in Nat /\ n \in 1 .. n /\ segments'[n] = s
      BY <1>5, <1>7, Zenon
    <3> HIDE DEF n
    <3>3. Len(segments') # 0
      BY <3>2
    <3> QED
      BY <3>1, <3>2, <3>3
  <2>5. ASSUME NEW i \in 1 .. n
        PROVE  /\ segments'[i].base \in DOMAIN disk'
               /\ Matches(segments'[i], disk'[segments'[i].base])
    <3>1. CASE i = n
      BY <1>2, <1>4, <1>6, <1>7, <1>8, <3>1, Zenon
    <3>2. CASE i # n
      <4>1. i < n
        <5>1. n \in Nat
          BY <1>5
        <5> HIDE DEF n
        <5> QED
          BY <3>2, <5>1
      <4>2. segments[i].base < a /\ segments[i].base \in Nat
        BY <1>1, <1>5, <4>1, SegmentTypes DEF IInv, SegmentsOK
      <4>3. segments[i].base # a
        BY <1>2, <4>2
      <4>4. segments[i].base \in DOMAIN disk /\ Matches(segments[i], disk[segments[i].base])
        BY <1>1, <1>5, Zenon DEF IInv, SegmentsOK
      <4> QED
        BY <1>4, <1>7, <3>2, <4>3, <4>4, Zenon
    <3> QED
      BY <3>1, <3>2
  <2>6. \A i, j \in 1 .. n : i < j => segments'[i].base < segments'[j].base
    BY <1>1, <1>5, <2>1 DEF IInv, SegmentsOK
  <2>7. segments'[1].base = earliest' /\ Active'.next = leo'
    BY <1>1, <1>2, <1>5, <1>6, <2>1, <2>4, Zenon DEF IInv, SegmentsOK
  <2> HIDE DEF n
  <2> QED
    BY <1>1, <1>7, <2>3, <2>4, <2>5, <2>6, <2>7, Zenon DEF SegmentsOK
<1>11. UnopenedOK'
  <2>1. \A i \in 1 .. n : segments'[i].base = segments[i].base
    BY <1>5, <1>6, <1>7, Zenon
  <2>2. \A c \in DOMAIN disk : \E i \in 1 .. n : segments[i].base = c
    BY <1>2, <1>5
  <2>3. \A c \in DOMAIN disk' : \E i \in DOMAIN segments' : segments'[i].base = c
    BY <1>4, <1>7, <2>1, <2>2, Zenon
  <2>4. Unopened' = {}
    BY <2>3 DEF Unopened
  <2> QED
    BY <1>1, <2>4, Zenon DEF UnopenedOK
<1>12. PcOK'
  <2>1. Active' = s
    BY <1>5, <1>7, Zenon DEF Active
  <2>2. disk'[Active'.base] = g
    BY <1>4, <1>6, <2>1
  <2>3. pc' = "idle" \/ (pc' = "flush" /\ cur' = cur)
    BY DEF Write, Return
  <2> QED
    BY <1>1, <1>3, <2>2, <2>3, Zenon DEF Write, IInv, PcOK
<1>13. AckedRetained'
  <2>1. \A b \in DOMAIN disk : Range(disk[b].batches) \subseteq Range(disk'[b].batches)
    BY <1>3, <1>4, Zenon
  <2>2. acked' \subseteq acked \cup {cur}
    BY DEF Write
  <2> QED
    BY <1>2, <1>3, <1>4, <2>1, <2>2, Zenon DEF IInv, AckedRetained
<1> QED
  BY <1>4, <1>9, <1>10, <1>11, <1>12, <1>13 DEF IInv

\* A write that fails.
LEMMA WriteFailIInv == IInv /\ WriteFail => IInv'
<1> SUFFICES ASSUME IInv, WriteFail PROVE IInv'
  OBVIOUS
<1>1. phase = "open" /\ ~writeFailed
  BY DEF WriteFail, IInv, PcOK
<1>2. PICK t \in {"none", "short"} : disk' = [disk EXCEPT ![Active.base].tail = t]
  BY Zenon DEF WriteFail
<1> DEFINE g == [disk[Active.base] EXCEPT !.tail = t]
<1>3. FileOK(Active.base, disk[Active.base])
  BY <1>1, ActiveIsLast, Zenon
<1>4. /\ g \in File /\ g.batches = disk[Active.base].batches /\ g.synced <= Len(g.batches)
      /\ g.tail \in {"none", "short"}
  BY <1>3, FileUpdates, Zenon
<1>5. disk' = [disk EXCEPT ![Active.base] = g]
  BY <1>2
<1>6. /\ writeFailed' /\ segments' = segments /\ leo' = leo /\ earliest' = earliest
      /\ acked' = acked /\ pc' = "idle" /\ phase' = "open"
  BY <1>1 DEF WriteFail, FailStore, Return
<1>7. /\ DiskOK(disk') /\ SegmentsOK' /\ UnopenedOK' /\ DOMAIN disk' = DOMAIN disk
      /\ \A b \in DOMAIN disk : disk'[b].batches = disk[b].batches
  <2> HIDE DEF g
  <2> QED
    BY <1>1, <1>4, <1>5, <1>6, ActiveTouched, Zenon
<1>8. MemoryTypeOK'
  <2>1. NoBatch \in Batch
    BY DEF NoBatch, Batch
  <2> QED
    BY <2>1 DEF WriteFail, FailStore, Return, IInv, MemoryTypeOK
<1>9. PcOK' /\ AckedRetained'
  BY <1>6, <1>7, StillRetained DEF PcOK, IInv
<1> QED
  BY <1>7, <1>8, <1>9 DEF IInv

\* The fsync succeeds: the batch is acknowledged.
LEMMA FlushIInv == IInv /\ Flush => IInv'
<1> SUFFICES ASSUME IInv, Flush PROVE IInv'
  OBVIOUS
<1>1. /\ phase = "open" /\ ~writeFailed /\ cur \in Range(disk[Active.base].batches)
      /\ cur \in Batch
  BY DEF Flush, IInv, PcOK, MemoryTypeOK
<1> DEFINE g == Synced(disk[Active.base])
<1>2. FileOK(Active.base, disk[Active.base]) /\ Active.base \in DOMAIN disk
  BY <1>1, ActiveIsLast
<1>3. /\ g \in File /\ g.batches = disk[Active.base].batches /\ g.synced <= Len(g.batches)
      /\ g.tail \in {"none", "short"} /\ g.tail = disk[Active.base].tail
  BY <1>2, FileUpdates, Zenon DEF FileOK
<1>4. disk' = [disk EXCEPT ![Active.base] = g]
  BY DEF Flush
<1>5. /\ ~writeFailed' /\ segments' = segments /\ leo' = leo /\ earliest' = earliest
      /\ pc' = "idle" /\ phase' = "open" /\ acked' = acked \cup {cur}
  BY <1>1 DEF Flush, Return, memory
<1>6. /\ DiskOK(disk') /\ SegmentsOK' /\ UnopenedOK' /\ DOMAIN disk' = DOMAIN disk
      /\ \A b \in DOMAIN disk : disk'[b].batches = disk[b].batches
  <2> HIDE DEF g
  <2> QED
    BY <1>1, <1>3, <1>4, <1>5, ActiveTouched, Zenon
<1>7. MemoryTypeOK'
  <2>1. NoBatch \in Batch /\ pending' \in Seq(DirChange)
    BY PendingTypes, Zenon DEF NoBatch, Batch, Flush, IInv, MemoryTypeOK
  <2> QED
    BY <1>1, <1>5, <2>1 DEF Flush, memory, Return, IInv, MemoryTypeOK
<1>8. AckedRetained'
  BY <1>1, <1>2, <1>5, <1>6 DEF IInv, AckedRetained
<1>9. PcOK'
  BY <1>5 DEF PcOK
<1> QED
  BY <1>6, <1>7, <1>8, <1>9 DEF IInv

\* The fsync fails.
LEMMA FlushFailIInv == IInv /\ FlushFail => IInv'
<1> SUFFICES ASSUME IInv, FlushFail PROVE IInv'
  OBVIOUS
<1>1. phase = "open" /\ ~writeFailed
  BY DEF FlushFail, IInv, PcOK
<1>2. /\ writeFailed' /\ segments' = segments /\ leo' = leo /\ earliest' = earliest
      /\ pc' = "idle" /\ phase' = "open" /\ acked' = acked
  BY <1>1 DEF FlushFail, FailStore, Return
<1>3. MemoryTypeOK'
  <2>1. NoBatch \in Batch /\ pending' \in Seq(DirChange)
    BY PendingTypes DEF NoBatch, Batch, FlushFail, IInv, MemoryTypeOK
  <2> QED
    BY <2>1 DEF FlushFail, FailStore, Return, IInv, MemoryTypeOK
<1>4. PcOK'
  BY <1>2 DEF PcOK
<1>5. DiskOK(disk') /\ SegmentsOK' /\ UnopenedOK' /\ AckedRetained'
  <2>1. CASE disk' = disk
    BY <1>1, <1>2, <2>1, NothingStored
  <2>2. CASE disk' = [disk EXCEPT ![Active.base] = Synced(@)]
    <3> DEFINE g == Synced(disk[Active.base])
    <3>1. FileOK(Active.base, disk[Active.base])
      BY <1>1, ActiveIsLast
    <3>2. /\ g \in File /\ g.batches = disk[Active.base].batches /\ g.synced <= Len(g.batches)
          /\ g.tail \in {"none", "short"} /\ g.tail = disk[Active.base].tail
      BY <3>1, FileUpdates, Zenon DEF FileOK
    <3>3. disk' = [disk EXCEPT ![Active.base] = g]
      BY <2>2
    <3> HIDE DEF g
    <3>4. /\ DiskOK(disk') /\ SegmentsOK' /\ UnopenedOK' /\ DOMAIN disk' = DOMAIN disk
          /\ \A b \in DOMAIN disk : disk'[b].batches = disk[b].batches
      BY <1>1, <1>2, <3>2, <3>3, ActiveTouched, Zenon
    <3> QED
      BY <1>2, <3>4, StillRetained, Zenon DEF IInv
  <2> QED
    BY <2>1, <2>2 DEF FlushFail
<1> QED
  BY <1>3, <1>4, <1>5 DEF IInv
-----------------------------------------------------------------------------
(***************************************************************************)
(* Every step of ApplyRetention preserves the inductive invariant.         *)
(***************************************************************************)
\* The steps of ApplyRetention that delete nothing.
LEMMA RetentionIdle ==
  ASSUME IInv, RetentionUnchanged, pc' \in {"idle", "age", "size"}, cutoff' \in Int,
         pc \in {"age", "size"} \/ (phase = "open" /\ ~writeFailed)
  PROVE  IInv'
<1>1. DiskOK(disk') /\ SegmentsOK' /\ UnopenedOK' /\ AckedRetained'
  BY NothingStored DEF RetentionUnchanged, memory, IInv, UnopenedOK
<1>2. MemoryTypeOK'
  BY DEF RetentionUnchanged, memory, IInv, MemoryTypeOK
<1>3. PcOK'
  BY DEF RetentionUnchanged, memory, IInv, PcOK
<1> QED
  BY <1>1, <1>2, <1>3, Zenon DEF IInv

\* The oldest segment is deleted, and with it no batch that is kept.
LEMMA DeleteOldestIInv ==
  ASSUME NEW ok, IInv, pc \in {"age", "size"}, HasClosedSegment, DeleteOldest(ok),
         pc' \in {"idle", "age", "size"}, cutoff' \in Int
  PROVE  IInv'
<1> DEFINE n == Len(segments)
           b == segments[1].base
<1>1. /\ phase = "open" /\ ~writeFailed /\ phase' = "open" /\ ~writeFailed'
      /\ leo' = leo /\ earliest' = segments[2].base /\ DiskOK(disk) /\ MemoryTypeOK
      /\ segments \in Seq(Segment)
  BY DEF DeleteOldest, EarliestAfterDelete, IInv, PcOK, MemoryTypeOK
<1>2. n \in Nat /\ n > 1 /\ DOMAIN segments = 1 .. n /\ segments # <<>>
  BY <1>1, SegmentTypes DEF HasClosedSegment
<1>3. /\ segments' \in Seq(Segment) /\ Len(segments') = n - 1 /\ DOMAIN segments' = 1 .. n - 1
      /\ \A i \in 1 .. n - 1 : segments'[i] = segments[i + 1]
  <2>1. segments' = Tail(segments)
    BY DEF DeleteOldest
  <2>2. /\ segments' \in Seq(Segment) /\ Len(segments') = n - 1
        /\ \A i \in 1 .. Len(segments') : segments'[i] = segments[i + 1]
    BY <1>1, <1>2, <2>1, HeadTailProperties
  <2>3. DOMAIN segments' = 1 .. Len(segments')
    BY <2>2
  <2> QED
    BY <2>2, <2>3
<1>4. /\ \A i \in 1 .. n : /\ segments[i].base \in DOMAIN disk /\ segments[i].base \in Nat
                         /\ Matches(segments[i], disk[segments[i].base])
      /\ DOMAIN disk = {segments[i].base : i \in 1 .. n}
      /\ \A i, j \in 1 .. n : i < j => segments[i].base < segments[j].base
      /\ \A i \in 1 .. n - 1 : segments[i].next = segments[i + 1].base
      /\ Active.next = leo
  <2>1. \A i \in 1 .. n : segments[i].base \in Nat
    BY <1>1, <1>2, SegmentTypes
  <2>2. DOMAIN disk = {segments[i].base : i \in 1 .. n} /\ Active.next = leo
    BY <1>1, <1>2, ActiveIsLast
  <2> QED
    BY <1>1, <1>2, <2>1, <2>2, Zenon DEF IInv, SegmentsOK
<1>5. n \in Nat /\ n > 1 /\ n - 1 \in 1 .. n - 1 /\ n - 1 + 1 = n /\ 1 \in 1 .. n /\ 2 \in 1 .. n
  BY <1>2
<1> HIDE DEF n
<1>6. \A i \in 1 .. n - 1 : i + 1 \in 1 .. n /\ 1 < i + 1 /\ i + 1 # 1
  BY <1>5
<1>7. \A i \in 1 .. n : i = 1 \/ (i - 1 \in 1 .. n - 1 /\ i - 1 + 1 = i)
  BY <1>5
<1>8. b \in DOMAIN disk /\ \A c \in DOMAIN disk : b <= c
  <2>1. \A i \in 1 .. n : i = 1 \/ 1 < i
    BY <1>5
  <2>2. \A i \in 1 .. n : b <= segments[i].base
    BY <1>4, <1>5, <2>1
  <2> QED
    BY <1>4, <1>5, <2>2
<1>9. /\ DiskOK(disk') /\ DOMAIN disk' = DOMAIN disk \ {b}
      /\ \A c \in DOMAIN disk \ {b} : disk'[c] = disk[c]
  <2>1. disk' = Without(disk, b)
    BY DEF DeleteOldest
  <2> HIDE DEF b
  <2> QED
    BY <1>1, <1>8, <2>1, WithoutDisk, Zenon
<1>10. \A i \in 1 .. n - 1 : /\ segments'[i].base \in DOMAIN disk' /\ segments'[i].base # b
                            /\ segments'[i].base \in Nat
  <2> SUFFICES ASSUME NEW i \in 1 .. n - 1
               PROVE  /\ segments[i + 1].base \in DOMAIN disk' /\ segments[i + 1].base # b
                      /\ segments[i + 1].base \in Nat
    BY <1>3
  <2>1. i + 1 \in 1 .. n /\ 1 < i + 1
    BY <1>6
  <2>2. b < segments[i + 1].base /\ b \in Nat /\ segments[i + 1].base \in Nat
    BY <1>4, <1>5, <2>1, SMTT(30)
  <2> QED
    <3>1. segments[i + 1].base # b
      BY <2>2
    <3>2. segments[i + 1].base \in DOMAIN disk
      BY <1>4, <2>1
    <3> HIDE DEF b
    <3> QED
      BY <1>9, <2>2, <3>1, <3>2
<1>11. MemoryTypeOK'
  <2>1. disk[b] \in File /\ b \in Nat
    BY <1>1, <1>8, Zenon DEF DiskOK, FileOK
  <2>2. pending' \in Seq(DirChange)
    BY <1>1, <2>1, PendingTypes, Zenon DEF DeleteOldest, MemoryTypeOK
  <2>3. earliest' \in Nat
    BY <1>1, <1>4, <1>5, Zenon
  <2>4. acked' \subseteq Batch
    BY <1>1, Zenon DEF DeleteOldest, MemoryTypeOK
  <2> QED
    BY <1>1, <1>3, <2>2, <2>3, <2>4 DEF DeleteOldest, MemoryTypeOK
<1>12. SegmentsOK'
  <2>1. \A i \in 1 .. n - 2 : i \in 1 .. n - 1 /\ i + 1 \in 1 .. n - 1
    BY <1>5
  <2>2. \A i \in 1 .. n - 2 : segments'[i].next = segments'[i + 1].base
    BY <1>3, <1>4, <1>6, <2>1, Zenon
  <2>3. ASSUME NEW i \in 1 .. n - 1, NEW j \in 1 .. n - 1, i < j
        PROVE  segments'[i].base < segments'[j].base
    <3>1. i + 1 \in 1 .. n /\ j + 1 \in 1 .. n /\ i + 1 < j + 1
      BY <1>5, <2>3
    <3> QED
      BY <1>3, <1>4, <3>1, SMTT(30)
  <2>4. segments' # <<>> /\ Active' = Active
    <3>1. Active' = segments'[Len(segments')] /\ Active = segments[n]
      BY DEF Active, n
    <3>2. Len(segments') # 0
      BY <1>3, <1>5
    <3> QED
      BY <1>3, <1>5, <3>1, <3>2
  <2>5. segments'[1].base = earliest'
    BY <1>1, <1>3, <1>5, SMTT(30)
  <2>6. \A i \in 1 .. n - 1 : Matches(segments'[i], disk'[segments'[i].base])
    <3> SUFFICES ASSUME NEW i \in 1 .. n - 1
                 PROVE  Matches(segments[i + 1], disk'[segments[i + 1].base])
      BY <1>3
    <3>1. i + 1 \in 1 .. n /\ segments'[i] = segments[i + 1]
      BY <1>3, <1>6
    <3>2. segments[i + 1].base \in DOMAIN disk \ {b}
      BY <1>4, <1>10, <3>1
    <3> QED
      BY <1>4, <1>9, <3>1, <3>2
  <2>7. Len(segments') - 1 = n - 2
    BY <1>3, <1>5
  <2> QED
    BY <1>1, <1>3, <1>4, <1>10, <2>2, <2>3, <2>4, <2>5, <2>6, <2>7, Zenon DEF SegmentsOK
<1>13. UnopenedOK'
  <2>1. ASSUME NEW c \in DOMAIN disk' PROVE \E i \in 1 .. n - 1 : segments'[i].base = c
    <3>1. PICK i \in 1 .. n : segments[i].base = c
      BY <1>4, <1>9
    <3>2. i # 1
      BY <1>9, <3>1
    <3> QED
      BY <1>3, <1>7, <3>1, <3>2
  <2>2. Unopened' = {}
    BY <1>3, <2>1 DEF Unopened
  <2> QED
    BY <1>1, <2>2 DEF UnopenedOK
<1>14. PcOK'
  BY <1>1 DEF PcOK
<1>15. AckedRetained'
  <2> SUFFICES ASSUME NEW x \in acked' PROVE \E c \in DOMAIN disk' : x \in Range(disk'[c].batches)
    BY DEF AckedRetained
  <2>1. x \in acked /\ x \in Batch /\ x.base >= segments[2].base
    BY <1>1 DEF DeleteOldest, MemoryTypeOK
  <2>2. PICK c \in DOMAIN disk : x \in Range(disk[c].batches)
    BY <2>1 DEF IInv, AckedRetained
  <2>3. c # b
    <3> SUFFICES ASSUME c = b PROVE FALSE
      OBVIOUS
    <3>1. FileOK(b, disk[b])
      BY <1>1, <1>8 DEF DiskOK
    <3>2. x.n > 0 /\ BatchEnd(x) <= End(b, disk[b])
      BY <2>2, <3>1, Zenon DEF FileOK, Range
    <3>3. End(b, disk[b]) = segments[2].base /\ segments[2].base \in Nat
      <4>1. 1 \in 1 .. n - 1 /\ 1 \in 1 .. n /\ 2 \in 1 .. n /\ 1 + 1 = 2
        <5>1. n \in Nat /\ n > 1
          BY <1>5
        <5> QED
          BY <5>1
      <4>2. segments[1].next = segments[2].base
        BY <1>4, <4>1
      <4>3. Matches(segments[1], disk[b]) /\ segments[2].base \in Nat
        BY <1>4, <4>1, SMTT(30)
      <4>4. segments[1].next = End(b, disk[b])
        BY <4>3 DEF Matches
      <4> QED
        BY <4>2, <4>3, <4>4, Zenon
    <3> QED
      BY <2>1, <3>2, <3>3, BatchFields DEF BatchEnd
  <2> QED
    BY <1>9, <2>2, <2>3
<1> QED
  BY <1>9, <1>11, <1>12, <1>13, <1>14, <1>15, Zenon DEF IInv
-----------------------------------------------------------------------------
(***************************************************************************)
(* Close and the end of the process.                                       *)
(***************************************************************************)
\* The store is closed, flushed or not.
LEMMA CloseIInv == IInv /\ Close => IInv'
<1> SUFFICES ASSUME IInv, Close PROVE IInv'
  OBVIOUS
<1>1. /\ phase = "open" /\ phase' = "closed" /\ segments' = segments /\ leo' = leo
      /\ earliest' = earliest /\ writeFailed' = writeFailed /\ pc' = "idle" /\ acked' = acked
  BY DEF Close, memory
<1>2. MemoryTypeOK'
  <2>1. pending' \in Seq(DirChange)
    BY PendingTypes DEF Close, IInv, MemoryTypeOK
  <2> QED
    BY <1>1, <2>1 DEF Close, memory, IInv, MemoryTypeOK
<1>3. PcOK'
  BY <1>1 DEF PcOK
<1>4. DiskOK(disk') /\ SegmentsOK' /\ UnopenedOK' /\ AckedRetained'
  <2>1. CASE disk' = disk
    BY <1>1, <2>1, NothingStored
  <2>2. CASE disk' = [disk EXCEPT ![Active.base] = Synced(@)]
    <3> DEFINE g == Synced(disk[Active.base])
    <3>1. FileOK(Active.base, disk[Active.base])
      BY <1>1, SegmentTypes DEF IInv, SegmentsOK, Active, DiskOK
    <3>2. /\ g \in File /\ g.batches = disk[Active.base].batches /\ g.synced <= Len(g.batches)
          /\ g.tail \in {"none", "short"} /\ g.tail = disk[Active.base].tail
      BY <3>1, FileUpdates, Zenon DEF FileOK
    <3>3. disk' = [disk EXCEPT ![Active.base] = g]
      BY <2>2
    <3> HIDE DEF g
    <3>4. /\ DiskOK(disk') /\ SegmentsOK' /\ UnopenedOK' /\ DOMAIN disk' = DOMAIN disk
          /\ \A b \in DOMAIN disk : disk'[b].batches = disk[b].batches
      BY <1>1, <3>2, <3>3, ActiveTouched, Zenon
    <3> QED
      BY <1>1, <3>4, StillRetained, Zenon DEF IInv
  <2> QED
    BY <2>1, <2>2 DEF Close
<1> QED
  BY <1>2, <1>3, <1>4 DEF IInv

\* The process ends, in the middle of a write or elsewhere.
LEMMA CrashIInv == IInv /\ Crash => IInv'
<1> SUFFICES ASSUME IInv, Crash PROVE IInv'
  OBVIOUS
<1>1. /\ phase' = "down" /\ segments' = segments /\ leo' = leo /\ earliest' = earliest
      /\ writeFailed' = writeFailed /\ pc' = "idle" /\ acked' = acked
  BY DEF Crash, ProcessEnds, memory
<1>2. MemoryTypeOK'
  <2>1. NoBatch \in Batch
    BY DEF NoBatch, Batch
  <2> QED
    BY <1>1, <2>1 DEF Crash, ProcessEnds, memory, IInv, MemoryTypeOK
<1>3. PcOK'
  BY <1>1 DEF PcOK
<1>4. DiskOK(disk') /\ SegmentsOK' /\ UnopenedOK' /\ AckedRetained'
  <2>1. CASE disk' = disk
    BY <1>1, <2>1, NothingStored
  <2>2. CASE pc = "write" /\ disk' = [disk EXCEPT ![Active.base].tail = "short"]
    <3> DEFINE g == [disk[Active.base] EXCEPT !.tail = "short"]
    <3>1. phase = "open" /\ ~writeFailed
      BY <2>2 DEF IInv, PcOK
    <3>2. FileOK(Active.base, disk[Active.base])
      BY <3>1, ActiveIsLast
    <3>3. /\ g \in File /\ g.batches = disk[Active.base].batches /\ g.synced <= Len(g.batches)
          /\ g.tail \in {"none", "short"}
      BY <3>2, FileUpdates, Zenon
    <3>4. disk' = [disk EXCEPT ![Active.base] = g]
      BY <2>2
    <3> HIDE DEF g
    <3>5. /\ DiskOK(disk') /\ SegmentsOK' /\ UnopenedOK' /\ DOMAIN disk' = DOMAIN disk
          /\ \A b \in DOMAIN disk : disk'[b].batches = disk[b].batches
      BY <1>1, <3>1, <3>3, <3>4, ActiveTouched, Zenon
    <3> QED
      BY <1>1, <3>5, StillRetained DEF IInv
  <2> QED
    BY <2>1, <2>2 DEF Crash
<1> QED
  BY <1>2, <1>3, <1>4 DEF IInv
-----------------------------------------------------------------------------
(***************************************************************************)
(* The theorems.                                                           *)
(***************************************************************************)
\* Every step preserves the inductive invariant.
LEMMA NextIInv == IInv /\ [Next]_vars => IInv'
<1> SUFFICES ASSUME IInv, [Next]_vars PROVE IInv'
  OBVIOUS
<1>1. ASSUME NEW now \in Times, RetentionStart(now) PROVE IInv'
  <2>1. cutoff' \in Int
    BY <1>1, RetentionAssumption DEF RetentionStart
  <2> QED
    BY <1>1, <2>1, RetentionIdle DEF RetentionStart, RetentionUnchanged
<1>2. cutoff \in Int
  BY DEF IInv, MemoryTypeOK
<1>3. CASE RetainByAge
  <2>1. HasClosedSegment
    BY <1>3 DEF RetainByAge, Expired
  <2> QED
    BY <1>2, <1>3, <2>1, DeleteOldestIInv, RetentionIdle DEF RetainByAge
<1>4. CASE AgeDone
  BY <1>2, <1>4, RetentionIdle DEF AgeDone
<1>5. CASE RetainBySize
  <2>1. HasClosedSegment
    BY <1>5 DEF RetainBySize, MayBeTooLarge
  <2> QED
    <3>1. pc = "size" /\ cutoff' \in Int /\ pc' \in {"idle", "size"}
      <4>1. pc = "size" /\ cutoff' \in {cutoff, 0} /\ pc' \in {"idle", "size"}
        BY <1>5, Zenon DEF RetainBySize
      <4> QED
        BY <1>2, <4>1
    <3>2. DeleteOldest(TRUE) \/ DeleteOldest(FALSE) \/ RetentionUnchanged
      BY <1>5, Zenon DEF RetainBySize
    <3> QED
      BY <2>1, <3>1, <3>2, DeleteOldestIInv, RetentionIdle, Zenon
<1>6. CASE SizeDone
  BY <1>6, RetentionIdle DEF SizeDone
<1>7. CASE UNCHANGED vars
  <2>1. DiskOK(disk') /\ SegmentsOK' /\ UnopenedOK' /\ AckedRetained' /\ Active' = Active
    BY <1>7, NothingStored DEF vars, IInv, UnopenedOK
  <2> QED
    BY <1>7, <2>1, Zenon DEF vars, IInv, MemoryTypeOK, PcOK
<1> QED
  BY <1>1, <1>3, <1>4, <1>5, <1>6, <1>7, OpenStartIInv, RecoverSegmentIInv, OpenDoneIInv,
     OpenFailIInv, AppendStartIInv, RollIInv, RollFailIInv, RelativeOverflowIInv, WriteIInv,
     WriteFailIInv, FlushIInv, FlushFailIInv, CloseIInv, CrashIInv DEF Next

\* The inductive invariant holds in every reachable state.
THEOREM Invariance == Spec => []IInv
  BY InitIInv, NextIInv, PTL DEF Spec

\* The inductive invariant includes the types.
LEMMA InvTypes == IInv => TypeOK
  BY DEF IInv, DiskOK, FileOK, MemoryTypeOK, TypeOK

\* The fields of Store, Segment and the log files keep their types.
THEOREM TypeCorrect == Spec => []TypeOK
  BY Invariance, InvTypes, PTL

\* The inductive invariant makes the segment list contiguous.
LEMMA InvContiguous == IInv => SegmentsContiguous
<1> SUFFICES ASSUME IInv, phase \in {"open", "closed"} PROVE SegmentsContiguous
  BY Zenon DEF SegmentsContiguous
<1>1. Len(segments) \in Nat /\ DOMAIN segments = 1 .. Len(segments)
  BY SegmentTypes, Zenon DEF IInv
<1>2. \A i \in 1 .. Len(segments) - 1 : i \in DOMAIN segments /\ i + 1 \in DOMAIN segments /\ i < i + 1
  BY <1>1
<1> QED
  BY <1>2 DEF IInv, SegmentsOK, SegmentsContiguous

\* Store.segments covers the log without a gap or an overlap.
THEOREM SegmentsAlwaysContiguous == Spec => []SegmentsContiguous
  BY Invariance, InvContiguous, PTL

\* The inductive invariant makes memory agree with the files.
LEMMA InvMatches == IInv => MemoryMatchesDisk
  BY ActiveIsLast, Zenon DEF IInv, SegmentsOK, MemoryMatchesDisk

\* What OpenStore would rebuild from the files is what the store holds.
THEOREM MemoryAlwaysMatches == Spec => []MemoryMatchesDisk
  BY Invariance, InvMatches, PTL

\* The inductive invariant makes recovery accept the next file.
LEMMA InvAccepts == IInv => RecoveryAccepts
<1> SUFFICES ASSUME IInv, phase = "opening", NEW b \in Unopened, IsNext(b)
             PROVE  b = leo /\ Accepts(b, disk[b], Unopened = {b})
  BY DEF RecoveryAccepts
<1>1. b \in DOMAIN disk /\ FileOK(b, disk[b]) /\ b \in Nat /\ leo \in Nat
  BY DEF Unopened, IInv, DiskOK, MemoryTypeOK
<1>2. b = leo
  BY <1>1 DEF IsNext, IInv, UnopenedOK
<1>3. Continuous(b, disk[b].batches) /\ disk[b].tail \in {"none", "short"}
  BY <1>1 DEF FileOK
<1>4. ASSUME Unopened # {b} PROVE disk[b].tail = "none"
  <2>1. PICK c \in Unopened : c # b
    BY <1>4, Zenon
  <2>2. c \in DOMAIN disk /\ c \in Nat /\ b <= c
    BY DEF Unopened, IsNext, IInv, DiskOK
  <2>3. b < c
    BY <1>1, <2>1, <2>2
  <2> QED
    BY <1>1, <2>2, <2>3 DEF IInv, DiskOK
<1> QED
  BY <1>2, <1>3, <1>4 DEF Accepts

\* Recovery refuses no directory that a process can leave behind.
THEOREM RecoveryAlwaysAccepts == Spec => []RecoveryAccepts
  BY Invariance, InvAccepts, PTL

\* An acknowledged batch stays until retention deletes its segment.
THEOREM AckedAlwaysRetained == Spec => []AckedRetained
<1>1. IInv => AckedRetained
  BY DEF IInv
<1> QED
  BY Invariance, <1>1, PTL

\* The step part of DeletesOnlyExpired.
DeletionJustified ==
  \A b \in DOMAIN disk \ DOMAIN disk' :
    /\ \E c \in DOMAIN disk' : c > b
    /\ pc = "age" => \A x \in Range(disk[b].batches) : x.ts <= cutoff

\* What deleteSegmentAtIndex removes is the oldest of several files.
LEMMA DeleteJustified ==
  ASSUME NEW ok, IInv, pc \in {"age", "size"}, HasClosedSegment, DeleteOldest(ok),
         pc = "age" => Expired
  PROVE  DeletionJustified
<1> DEFINE b == segments[1].base
           c == segments[2].base
<1>1. phase = "open" /\ ~writeFailed /\ MemoryTypeOK
  BY DEF IInv, PcOK
<1>2. Len(segments) \in Nat /\ DOMAIN segments = 1 .. Len(segments) /\ Len(segments) > 1
  BY <1>1, SegmentTypes DEF HasClosedSegment
<1>3. 1 \in DOMAIN segments /\ 2 \in DOMAIN segments
  BY <1>2
<1>4. b \in Nat /\ c \in Nat /\ b < c /\ c \in DOMAIN disk /\ b \in DOMAIN disk
  <2>1. b \in Nat /\ c \in Nat
    BY <1>1, <1>3, SegmentTypes
  <2>2. \A i, j \in DOMAIN segments : i < j => segments[i].base < segments[j].base
    BY <1>1 DEF IInv, SegmentsOK
  <2>3. b < c
    BY <1>3, <2>2
  <2>4. \A i \in DOMAIN segments : segments[i].base \in DOMAIN disk
    BY <1>1 DEF IInv, SegmentsOK
  <2> QED
    BY <1>3, <2>1, <2>3, <2>4
<1>5. DOMAIN disk' = DOMAIN disk \ {b}
  BY DEF DeleteOldest, Without
<1>6. ASSUME pc = "age", NEW x \in Range(disk[b].batches) PROVE x.ts <= cutoff
  <2>1. segments[1].maxTs <= cutoff /\ segments[1].maxTs \in Nat /\ cutoff \in Int
    BY <1>1, <1>3, <1>6, SegmentTypes, Zenon DEF Expired, MemoryTypeOK
  <2>2. IsMaxTimestamp(segments[1].maxTs, disk[b])
    BY <1>1, <1>3, Zenon DEF IInv, SegmentsOK, Matches
  <2>3. disk[b] \in File
    BY <1>4 DEF IInv, DiskOK, FileOK
  <2>4. x.ts <= segments[1].maxTs /\ x.ts \in Nat
    BY <2>2, <2>3, FileFields, BatchFields, Zenon DEF IsMaxTimestamp, Range
  <2> QED
    BY <2>1, <2>4
<1> QED
  BY <1>4, <1>5, <1>6 DEF DeletionJustified

\* Retention deletes neither the active segment nor, by age, a record that
\* is newer than the cutoff, and no other operation deletes a file.
THEOREM DeletesOnlyExpiredFiles == Spec => DeletesOnlyExpired
<1>1. ASSUME IInv, [Next]_vars PROVE DeletionJustified \/ UNCHANGED vars
  <2>1. CASE RetainByAge
    <3>1. HasClosedSegment /\ Expired /\ pc = "age"
      BY <2>1 DEF RetainByAge, Expired
    <3>2. CASE RetentionUnchanged
      BY <3>2 DEF RetentionUnchanged, DeletionJustified
    <3>3. ASSUME NEW ok \in BOOLEAN, DeleteOldest(ok) PROVE DeletionJustified
      BY <1>1, <3>1, <3>3, DeleteJustified
    <3> QED
      BY <2>1, <3>2, <3>3, Zenon DEF RetainByAge
  <2>2. CASE RetainBySize
    <3>1. HasClosedSegment /\ pc = "size"
      BY <2>2 DEF RetainBySize, MayBeTooLarge
    <3>2. CASE RetentionUnchanged
      BY <3>2 DEF RetentionUnchanged, DeletionJustified
    <3>3. ASSUME NEW ok \in BOOLEAN, DeleteOldest(ok) PROVE DeletionJustified
      BY <1>1, <3>1, <3>3, DeleteJustified
    <3> QED
      BY <2>2, <3>2, <3>3, Zenon DEF RetainBySize
  <2>3. ASSUME DOMAIN disk \subseteq DOMAIN disk' PROVE DeletionJustified
    BY <2>3 DEF DeletionJustified
  <2>4. CASE OpenStart \/ RecoverSegment \/ RelativeOverflow \/ Write \/ WriteFail \/ Flush
             \/ FlushFail \/ AgeDone \/ SizeDone \/ Close \/ Crash
    <3>1. DOMAIN disk' = DOMAIN disk
      BY <2>4, Zenon DEF OpenStart, RecoverSegment, RelativeOverflow, Write, WriteFail, Flush, FlushFail,
         AgeDone, SizeDone, RetentionUnchanged, Close, Crash
    <3> QED
      BY <2>3, <3>1
  <2>5. CASE OpenDone \/ OpenFail \/ Roll \/ RollFail
    <3>1. \A d, b : DOMAIN d \subseteq DOMAIN Created(d, b)
      BY DEF Created
    <3>2. DOMAIN RollFlushed = DOMAIN disk
      BY SMTT(30) DEF RollFlushed
    <3>3. DOMAIN disk \subseteq DOMAIN disk'
      BY <2>5, <3>1, <3>2 DEF OpenDone, OpenFail, Roll, RollFail
    <3> QED
      BY <2>3, <3>3
  <2>6. ASSUME NEW n, NEW ts, AppendStart(n, ts) PROVE DeletionJustified
    BY <2>3, <2>6 DEF AppendStart
  <2>7. ASSUME NEW now, RetentionStart(now) PROVE DeletionJustified
    BY <2>3, <2>7 DEF RetentionStart
  <2> QED
    BY <1>1, <2>1, <2>2, <2>4, <2>5, <2>6, <2>7 DEF Next
<1>2. IInv /\ [Next]_vars => [DeletionJustified]_vars
  BY <1>1
<1>3. DeletesOnlyExpired <=> [][DeletionJustified]_vars
  BY PTL DEF DeletesOnlyExpired, DeletionJustified
<1> QED
  BY Invariance, <1>2, <1>3, PTL DEF Spec
=============================================================================
