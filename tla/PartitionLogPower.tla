-------------------------- MODULE PartitionLogPower --------------------------
(***************************************************************************)
(* Proofs about PartitionLog when the machine may lose power at any step,  *)
(* in sync mode and on a file system that keeps directory changes in       *)
(* order: an acknowledged batch stays until retention deletes its segment, *)
(* only the end of the active segment can be damaged, and a store that     *)
(* opens again agrees with its files.                                      *)
(***************************************************************************)
EXTENDS PartitionLogProofs

\* The setting of these proofs.
Durable == Journaled /\ FlushMode = "sync"

\* A file as FileOK has it, whatever follows its batches.
BatchesOK(b, f) ==
  /\ f \in File /\ f.synced <= Len(f.batches)
  /\ Continuous(b, f.batches)
  /\ End(b, f) \in Nat /\ b <= End(b, f)
  /\ f.batches # <<>> => b < End(b, f)
  /\ \A i \in DOMAIN f.batches : f.batches[i].n > 0 /\ BatchEnd(f.batches[i]) <= End(b, f)
  /\ \A i, j \in DOMAIN f.batches :
       i <= j => BatchEnd(f.batches[i]) <= BatchEnd(f.batches[j])

\* Directory d as DiskOK has it, whatever follows the batches of its last
\* file; the other files are on stable storage.
OrderOK(d) ==
  /\ DOMAIN d \subseteq Nat
  /\ \A b \in DOMAIN d : BatchesOK(b, d[b])
  /\ \A b, c \in DOMAIN d : b < c =>
       /\ End(b, d[b]) <= c
       /\ End(b, d[b]) \in DOMAIN d
       /\ b < End(b, d[b])
       /\ d[b].tail = "none" /\ d[b].synced = Len(d[b].batches)

\* The acknowledged batches are on stable storage in directory d.
AckedIn(d) ==
  \A x \in acked : \E b \in DOMAIN d : \E i \in 1 .. d[b].synced : d[b].batches[i] = x

\* A file that was removed: whole, on stable storage and not empty.
RemovedOK(r) ==
  /\ BatchesOK(r.base, r.file)
  /\ r.file.tail = "none" /\ r.file.synced = Len(r.file.batches)
  /\ r.base < End(r.base, r.file)

\* The directory changes that may be lost: the creation of the last file,
\* of which nothing is on stable storage, and then removals at the front,
\* each of a file that the next one or the first file that is left continues.
PendingOK ==
  /\ DOMAIN disk = {} => pending = <<>>
  /\ \A i \in DOMAIN pending : pending[i].op = "create" =>
       /\ i = 1
       /\ pending[i].base \in DOMAIN disk /\ \A c \in DOMAIN disk : c <= pending[i].base
       /\ disk[pending[i].base].synced = 0
  /\ \A i \in DOMAIN pending : pending[i].op = "remove" =>
       LET end == End(pending[i].base, pending[i].file) IN
       /\ RemovedOK(pending[i])
       /\ \A c \in DOMAIN disk : end <= c
       /\ \A j \in DOMAIN pending : i < j => end <= pending[j].base
       /\ IF i = Len(pending) THEN end \in DOMAIN disk ELSE end = pending[i + 1].base

\* A power failure left bytes behind the last batch that OpenStore refuses:
\* it opens the other files, again and again, and never gets further.
Damaged ==
  /\ MemoryTypeOK /\ pending = <<>> /\ pc = "idle" /\ phase \in {"down", "opening"}
  /\ \E l \in DOMAIN disk :
       /\ disk[l].tail = "bad" /\ \A c \in DOMAIN disk : c <= l
       /\ phase = "opening" =>
            /\ l \in Unopened /\ leo \in Unopened /\ \A b \in Unopened : leo <= b
            /\ \A i \in DOMAIN segments : segments[i].base < leo

\* What is on stable storage.
Stable == OrderOK(disk) /\ AckedIn(disk) /\ PendingOK

\* The inductive invariant with power failures.
PowerInv == Stable /\ (IInv \/ Damaged)
-----------------------------------------------------------------------------
(***************************************************************************)
(* What a power failure leaves of a file and of a directory.               *)
(***************************************************************************)
\* FileOK is BatchesOK and an acceptable end.
LEMMA FileIsBatches ==
  ASSUME NEW b, NEW f
  PROVE  FileOK(b, f) <=> BatchesOK(b, f) /\ f.tail \in {"none", "short"}
  BY DEF FileOK, BatchesOK

\* A file cut after its first k batches is in order.
LEMMA CutFile ==
  ASSUME NEW b \in Nat, NEW f, BatchesOK(b, f), NEW k \in 0 .. Len(f.batches),
         NEW t \in {"none", "short", "bad"},
         NEW g, g = [batches |-> SubSeq(f.batches, 1, k), tail |-> t, synced |-> k]
  PROVE  /\ BatchesOK(b, g) /\ g.synced = k /\ g.tail = t /\ Len(g.batches) = k
         /\ \A i \in 1 .. k : g.batches[i] = f.batches[i]
<1>f. /\ f \in File /\ f.batches \in Seq(Batch) /\ f.synced \in Nat /\ Len(f.batches) \in Nat
      /\ DOMAIN f.batches = 1 .. Len(f.batches)
      /\ \A i \in 1 .. Len(f.batches) : f.batches[i] \in Batch
  BY FileFields DEF BatchesOK
<1> DEFINE s == f.batches
           u == SubSeq(f.batches, 1, k)
<1>k. k \in Nat /\ k <= Len(s) /\ \A i \in 1 .. k : i \in 1 .. Len(s)
  BY <1>f
<1>1. u \in Seq(Batch) /\ Len(u) = k /\ \A i \in 1 .. k : u[i] = s[i]
  <2>1. 1 \in 1 .. Len(s) + 1 /\ k \in 1 - 1 .. Len(s)
    BY <1>f, <1>k
  <2>2. u \in Seq(Batch)
    BY <1>f, <1>k, <2>1, SubSeqProperties
  <2>3. Len(u) = IF 1 <= k THEN k - 1 + 1 ELSE 0
    BY <1>f, <1>k, <2>1, SubSeqProperties
  <2>4. Len(u) = k
    BY <1>k, <2>3
  <2>5. \A i \in 1 .. k - 1 + 1 : u[i] = s[1 + i - 1]
    BY <1>f, <1>k, <2>1, SubSeqProperties
  <2>6. \A i \in 1 .. k : i \in 1 .. k - 1 + 1 /\ 1 + i - 1 = i
    BY <1>k
  <2> QED
    BY <2>2, <2>4, <2>5, <2>6
<1> HIDE DEF u
<1>2. g.batches = u /\ g.tail = t /\ g.synced = k /\ g \in File
  BY <1>1, <1>k, Zenon DEF u, File
<1>3. DOMAIN u = 1 .. k
  BY <1>1
<1>4. Continuous(b, u)
  <2> SUFFICES ASSUME NEW i \in 1 .. k
               PROVE  u[i].base = IF i = 1 THEN b ELSE BatchEnd(u[i - 1])
    BY <1>1 DEF Continuous
  <2>1. i \in 1 .. Len(s) /\ (i # 1 => i - 1 \in 1 .. k)
    BY <1>k
  <2>2. s[i].base = IF i = 1 THEN b ELSE BatchEnd(s[i - 1])
    BY <2>1 DEF BatchesOK, Continuous
  <2> QED
    BY <1>1, <2>1, <2>2
<1>5. \A i \in 1 .. k : u[i].n > 0 /\ BatchEnd(u[i]) \in Nat
  BY <1>1, <1>f, <1>k, BatchFields, Zenon DEF BatchesOK
<1>o. \A i, j \in 1 .. k : i <= j => BatchEnd(u[i]) <= BatchEnd(u[j])
  BY <1>1, <1>f, <1>k, Zenon DEF BatchesOK
<1>6. CASE k = 0
  <2>1. u = <<>>
    BY <1>1, <1>6, EmptySeq
  <2>2. End(b, g) = b
    BY <1>2, <2>1 DEF End
  <2>3. DOMAIN u = {}
    BY <1>3, <1>6
  <2>5. g.synced <= Len(g.batches) /\ End(b, g) \in Nat /\ b <= End(b, g)
    BY <1>1, <1>2, <1>k, <2>2
  <2>4. BatchesOK(b, g)
    BY <1>2, <1>4, <2>1, <2>3, <2>5, Zenon DEF BatchesOK
  <2> QED
    BY <1>1, <1>2, <2>4
<1>7. CASE k # 0
  <2>1. k \in 1 .. k /\ 1 \in 1 .. k /\ u # <<>>
    BY <1>1, <1>k, <1>7, EmptySeq
  <2>2. End(b, g) = BatchEnd(u[k])
    BY <1>1, <1>2, <2>1, Zenon DEF End
  <2>3. \A i \in 1 .. k : BatchEnd(u[i]) <= BatchEnd(u[k])
    <3> SUFFICES ASSUME NEW i \in 1 .. k PROVE BatchEnd(u[i]) <= BatchEnd(u[k])
      OBVIOUS
    <3>1. i \in 1 .. Len(s) /\ k \in 1 .. Len(s) /\ i <= k
      BY <1>k, <2>1
    <3>2. BatchEnd(s[i]) <= BatchEnd(s[k])
      BY <1>f, <3>1, Zenon DEF BatchesOK
    <3> QED
      BY <1>1, <2>1, <3>2
  <2>4. b < BatchEnd(u[1])
    <3>1. u[1].base = b /\ u[1] \in Batch /\ u[1].n > 0
      BY <1>1, <1>4, <1>5, <1>f, <1>k, <2>1, Zenon DEF Continuous
    <3>2. u[1].n \in Nat /\ BatchEnd(u[1]) = b + u[1].n
      BY <3>1, BatchFields DEF BatchEnd
    <3> QED
      BY <3>1, <3>2
  <2>5. BatchEnd(u[1]) \in Nat /\ BatchEnd(u[k]) \in Nat /\ BatchEnd(u[1]) <= BatchEnd(u[k])
    BY <1>5, <2>1, <2>3
  <2>6. End(b, g) \in Nat /\ b < End(b, g)
    BY <2>2, <2>4, <2>5
  <2>7. b <= End(b, g) /\ g.synced <= Len(g.batches)
    BY <1>1, <1>2, <1>k, <2>6
  <2>8. BatchesOK(b, g)
    BY <1>2, <1>3, <1>4, <1>5, <1>o, <2>2, <2>3, <2>6, <2>7, Zenon DEF BatchesOK
  <2> QED
    BY <1>1, <1>2, <2>8
<1> QED
  BY <1>6, <1>7

\* A power failure leaves a file in order, with every batch that was fsynced.
LEMMA OutcomeOK ==
  ASSUME NEW b \in Nat, NEW f, BatchesOK(b, f), NEW g \in Outcomes(f)
  PROVE  /\ BatchesOK(b, g) /\ f.synced <= g.synced
         /\ \A i \in 1 .. f.synced : i \in 1 .. g.synced /\ g.batches[i] = f.batches[i]
<1>1. f.synced \in Nat /\ Len(f.batches) \in Nat
  BY FileFields, Zenon DEF BatchesOK
<1>2. PICK k \in f.synced .. Len(f.batches), t \in {"none", "short", "bad"} :
        g = [batches |-> SubSeq(f.batches, 1, k), tail |-> t, synced |-> k]
  BY DEF Outcomes
<1>3. k \in 0 .. Len(f.batches) /\ f.synced <= k /\ \A i \in 1 .. f.synced : i \in 1 .. k
  BY <1>1, SMTT(30)
<1>4. /\ BatchesOK(b, g) /\ g.synced = k
      /\ \A i \in 1 .. k : g.batches[i] = f.batches[i]
  <2>1. k \in 0 .. Len(f.batches) /\ t \in {"none", "short", "bad"}
    BY <1>3, Zenon
  <2>2. g = [batches |-> SubSeq(f.batches, 1, k), tail |-> t, synced |-> k]
    BY <1>2
  <2> QED
    BY <2>1, <2>2, CutFile
<1> QED
  BY <1>3, <1>4

\* What a power failure leaves of a directory in order is in order, and holds
\* the acknowledged batches.
LEMMA ExposedOrder ==
  ASSUME NEW d, OrderOK(d), AckedIn(d), NEW g, NEW e,
         LET exposed == {b \in DOMAIN d : Unsynced(d[b])} IN
         /\ \A b \in exposed : g[b] \in Outcomes(d[b])
         /\ e = [b \in DOMAIN d |-> IF b \in exposed THEN g[b] ELSE d[b]]
  PROVE  OrderOK(e) /\ AckedIn(e)
<1> DEFINE exposed == {b \in DOMAIN d : Unsynced(d[b])}
<1>1. /\ DOMAIN e = DOMAIN d /\ DOMAIN d \subseteq Nat
      /\ \A b \in exposed : e[b] = g[b] /\ g[b] \in Outcomes(d[b])
      /\ \A b \in DOMAIN d : b \notin exposed => e[b] = d[b]
  BY Zenon DEF OrderOK
<1>2. ASSUME NEW b \in DOMAIN d
      PROVE  /\ BatchesOK(b, e[b]) /\ d[b].synced <= e[b].synced
             /\ \A i \in 1 .. d[b].synced : i \in 1 .. e[b].synced /\ e[b].batches[i] = d[b].batches[i]
  <2>1. b \in Nat /\ BatchesOK(b, d[b])
    BY Zenon DEF OrderOK
  <2>2. CASE b \in exposed
    BY <1>1, <2>1, <2>2, OutcomeOK, SMTT(30)
  <2>3. CASE b \notin exposed
    <3>1. d[b].synced \in Nat
      BY <2>1, FileFields, Zenon DEF BatchesOK
    <3> QED
      BY <1>1, <2>1, <2>3, <3>1, SMTT(30)
  <2> QED
    BY <2>2, <2>3, Zenon
<1>3. ASSUME NEW b \in DOMAIN d, NEW c \in DOMAIN d, b < c PROVE e[b] = d[b]
  <2>1. d[b].tail = "none" /\ d[b].synced = Len(d[b].batches)
    BY <1>3, Zenon DEF OrderOK
  <2>2. Len(d[b].batches) \in Nat
    BY FileFields, Zenon DEF OrderOK, BatchesOK
  <2>3. ~ Unsynced(d[b])
    BY <2>1, <2>2, SMTT(30) DEF Unsynced
  <2> QED
    BY <1>1, <2>3, Zenon
<1> HIDE DEF exposed
<1>4. OrderOK(e)
  <2>1. \A b \in DOMAIN e : BatchesOK(b, e[b])
    BY <1>1, <1>2, Zenon
  <2>2. ASSUME NEW b \in DOMAIN e, NEW c \in DOMAIN e, b < c
        PROVE  /\ End(b, e[b]) <= c
               /\ End(b, e[b]) \in DOMAIN e
               /\ b < End(b, e[b])
               /\ e[b].tail = "none" /\ e[b].synced = Len(e[b].batches)
    BY <1>1, <1>3, <2>2, Zenon DEF OrderOK
  <2> QED
    BY <1>1, <2>1, <2>2, Zenon DEF OrderOK
<1>5. AckedIn(e)
  <2> SUFFICES ASSUME NEW x \in acked
               PROVE  \E b \in DOMAIN e : \E i \in 1 .. e[b].synced : e[b].batches[i] = x
    BY DEF AckedIn
  <2>1. PICK b \in DOMAIN d : \E i \in 1 .. d[b].synced : d[b].batches[i] = x
    BY DEF AckedIn
  <2>2. PICK i \in 1 .. d[b].synced : d[b].batches[i] = x
    BY <2>1, Zenon
  <2>3. i \in 1 .. e[b].synced /\ e[b].batches[i] = x
    BY <1>2, <2>2
  <2> QED
    BY <1>1, <2>3
<1> QED
  BY <1>4, <1>5, Zenon

\* The directory with changes of the end of the journal lost: the last file,
\* if its creation is lost, is missing, and the last of the removed files are
\* back.
LEMMA RestoredOrder ==
  ASSUME OrderOK(disk), AckedIn(disk), PendingOK, pending \in Seq(DirChange),
         NEW kept, kept \subseteq DOMAIN disk,
         NEW undone, undone \subseteq DOMAIN pending,
         \A i \in undone : pending[i].op = "remove",
         \A i \in undone : \A j \in DOMAIN pending : i < j => j \in undone,
         \A l \in DOMAIN disk \ kept : disk[l].synced = 0 /\ \A c \in DOMAIN disk : c <= l,
         NEW whole,
         DOMAIN whole = kept \cup {pending[i].base : i \in undone},
         \A b \in kept : whole[b] = disk[b],
         \A i \in undone : whole[pending[i].base] = pending[i].file
  PROVE  OrderOK(whole) /\ AckedIn(whole)
<1>p. /\ Len(pending) \in Nat /\ DOMAIN pending = 1 .. Len(pending)
      /\ \A i \in DOMAIN pending : pending[i].base \in Nat
  <2>1. \A i \in DOMAIN pending : pending[i] \in DirChange
    BY ElementOfSeq, LenProperties
  <2> QED
    BY <2>1, LenProperties DEF DirChange
<1>d. \A b \in DOMAIN disk : b \in Nat /\ BatchesOK(b, disk[b]) /\ End(b, disk[b]) \in Nat
  BY Zenon DEF OrderOK, BatchesOK
<1>r. \A i \in undone :
        LET end == End(pending[i].base, pending[i].file) IN
        /\ RemovedOK(pending[i]) /\ end \in Nat /\ pending[i].base < end
        /\ \A c \in DOMAIN disk : end <= c
        /\ \A j \in DOMAIN pending : i < j => end <= pending[j].base
        /\ IF i = Len(pending) THEN end \in DOMAIN disk ELSE end = pending[i + 1].base
  BY Zenon DEF PendingOK, RemovedOK, BatchesOK
<1>1. DOMAIN whole \subseteq Nat
  BY <1>p, <1>d, Zenon
<1>2. \A b \in DOMAIN whole : BatchesOK(b, whole[b])
  BY <1>d, <1>r DEF RemovedOK
<1>n. ASSUME NEW i \in undone, NEW j \in undone, i < j
      PROVE  End(pending[i].base, pending[i].file) \in DOMAIN whole
  <2>1. i \in Nat /\ j \in Nat /\ i + 1 \in DOMAIN pending /\ i # Len(pending) /\ i < i + 1
    BY <1>p, <1>n
  <2>2. i + 1 \in undone
    BY <2>1, Zenon
  <2>3. End(pending[i].base, pending[i].file) = pending[i + 1].base
    BY <1>r, <2>1
  <2> QED
    BY <2>2, <2>3
<1>3. ASSUME NEW b \in DOMAIN whole, NEW c \in DOMAIN whole, b < c
      PROVE  /\ End(b, whole[b]) <= c
             /\ End(b, whole[b]) \in DOMAIN whole
             /\ b < End(b, whole[b])
             /\ whole[b].tail = "none" /\ whole[b].synced = Len(whole[b].batches)
  <2>1. CASE b \in kept /\ c \in kept
    <3>1. /\ End(b, disk[b]) <= c /\ End(b, disk[b]) \in DOMAIN disk /\ b < End(b, disk[b])
          /\ disk[b].tail = "none" /\ disk[b].synced = Len(disk[b].batches)
      BY <1>3, <2>1, Zenon DEF OrderOK
    <3>2. ASSUME End(b, disk[b]) \notin kept PROVE FALSE
      <4>1. c <= End(b, disk[b])
        BY <2>1, <3>1, <3>2, Zenon
      <4>2. c = End(b, disk[b])
        BY <1>d, <2>1, <3>1, <4>1, SMTT(30)
      <4> QED
        BY <2>1, <3>2, <4>2, Zenon
    <3> QED
      BY <2>1, <3>1, <3>2, Zenon
  <2>2. CASE b \in kept /\ c \notin kept
    <3>1. PICK j \in undone : c = pending[j].base
      BY <2>2, Zenon
    <3>2. /\ c < End(pending[j].base, pending[j].file)
          /\ End(pending[j].base, pending[j].file) \in Nat
          /\ End(pending[j].base, pending[j].file) <= b
      BY <1>r, <2>2, <3>1, Zenon
    <3>3. b \in Nat /\ c \in Nat /\ b < c
      BY <1>1, <1>3
    <3>4. FALSE
      BY <3>2, <3>3, OffsetOrder, ZenonT(30)
    <3> QED
      BY <3>4, Zenon
  <2>3. CASE b \notin kept /\ c \in kept
    <3>1. PICK i \in undone : b = pending[i].base
      BY <2>3, Zenon
    <3> DEFINE end == End(pending[i].base, pending[i].file)
    <3>2. /\ RemovedOK(pending[i]) /\ end \in Nat /\ b < end /\ end <= c
          /\ IF i = Len(pending) THEN end \in DOMAIN disk ELSE end = pending[i + 1].base
      BY <1>r, <2>3, <3>1
    <3>3. CASE i = Len(pending)
      <4>1. ASSUME end \notin kept PROVE FALSE
        <5>1. c <= end
          BY <2>3, <3>2, <3>3, <4>1, Zenon
        <5>2. c = end
          BY <1>1, <3>2, <5>1
        <5> QED
          BY <2>3, <4>1, <5>2
      <4> QED
        BY <3>1, <3>2, <4>1, ZenonT(30) DEF RemovedOK
    <3>4. CASE i # Len(pending)
      <4>1. i + 1 \in DOMAIN pending /\ i < i + 1 /\ i \in DOMAIN pending
        BY <1>p, <3>4, NextIndex, Zenon
      <4>2. i + 1 \in undone
        BY <4>1
      <4> QED
        BY <3>1, <3>2, <3>4, <4>2, Zenon DEF RemovedOK
    <3> QED
      BY <3>3, <3>4, Zenon
  <2>4. CASE b \notin kept /\ c \notin kept
    <3>1. PICK i \in undone : b = pending[i].base
      BY <2>4
    <3>2. PICK j \in undone : c = pending[j].base
      BY <2>4, Zenon
    <3> DEFINE end(k) == End(pending[k].base, pending[k].file)
    <3>3. i \in Nat /\ j \in Nat /\ i \in DOMAIN pending /\ j \in DOMAIN pending
      BY <1>p
    <3>4. i # j
      BY <1>1, <1>3, <3>1, <3>2, SMTT(30)
    <3>5. ~ (j < i)
      <4> SUFFICES ASSUME j < i PROVE FALSE
        BY Zenon
      <4>1. end(j) <= b /\ c < end(j) /\ end(j) \in Nat
        BY <1>r, <3>1, <3>2, <3>3, Zenon
      <4> QED
        BY <1>1, <1>3, <4>1, SMTT(30)
    <3>6. i < j
      BY <3>3, <3>4, <3>5, OffsetOrder, Zenon
    <3>7. end(i) <= c /\ b < end(i) /\ RemovedOK(pending[i])
      BY <1>r, <3>1, <3>2, <3>3, <3>6, Zenon
    <3>8. end(i) \in DOMAIN whole
      BY <1>n, <3>6
    <3> QED
      BY <3>1, <3>7, <3>8, Zenon DEF RemovedOK
  <2> QED
    BY <2>1, <2>2, <2>3, <2>4, Zenon
<1>4. OrderOK(whole)
  BY <1>1, <1>2, <1>3, Zenon DEF OrderOK
<1>5. AckedIn(whole)
  <2> SUFFICES ASSUME NEW x \in acked
               PROVE  \E b \in DOMAIN whole : \E i \in 1 .. whole[b].synced : whole[b].batches[i] = x
    BY DEF AckedIn
  <2>1. PICK b \in DOMAIN disk : \E i \in 1 .. disk[b].synced : disk[b].batches[i] = x
    BY DEF AckedIn
  <2>2. b \in kept
    BY <2>1
  <2> QED
    BY <2>1, <2>2, Zenon
<1> QED
  BY <1>4, <1>5

\* The process is down and all directory changes are on stable storage.
Down ==
  /\ OrderOK(disk) /\ AckedIn(disk) /\ MemoryTypeOK
  /\ pending = <<>> /\ pc = "idle" /\ phase = "down"

\* With the process down, the directory decides between the two cases.
LEMMA DownCases == Down => PowerInv
<1> SUFFICES ASSUME Down PROVE PowerInv
  OBVIOUS
<1> USE DEF Down
<1>1. PendingOK
  BY DEF PendingOK
<1>2. CASE \E l \in DOMAIN disk : disk[l].tail = "bad"
  <2>1. PICK l \in DOMAIN disk : disk[l].tail = "bad"
    BY <1>2
  <2>2. ASSUME NEW c \in DOMAIN disk PROVE c <= l
    <3>1. l \in Nat /\ c \in Nat /\ ~ (l < c)
      BY <2>1 DEF OrderOK
    <3> QED
      BY <3>1
  <2>3. Damaged
    BY <2>1, <2>2 DEF Damaged
  <2> QED
    BY <1>1, <2>3 DEF PowerInv, Stable
<1>3. CASE \A l \in DOMAIN disk : disk[l].tail # "bad"
  <2>1. ASSUME NEW b \in DOMAIN disk PROVE FileOK(b, disk[b])
    <3>1. BatchesOK(b, disk[b]) /\ disk[b] \in File /\ disk[b].tail # "bad"
      BY <1>3, Zenon DEF OrderOK, BatchesOK
    <3>2. disk[b].tail \in {"none", "short"}
      BY <3>1, Zenon DEF File
    <3> QED
      BY <3>1, <3>2, FileIsBatches
  <2>2. DiskOK(disk)
    BY <2>1 DEF DiskOK, OrderOK
  <2>3. SegmentsOK /\ UnopenedOK /\ PcOK
    BY DEF SegmentsOK, UnopenedOK, PcOK
  <2>4. AckedRetained
    <3> SUFFICES ASSUME NEW x \in acked
                 PROVE  \E b \in DOMAIN disk : x \in Range(disk[b].batches)
      BY DEF AckedRetained
    <3>1. PICK b \in DOMAIN disk : \E i \in 1 .. disk[b].synced : disk[b].batches[i] = x
      BY DEF AckedIn
    <3>2. PICK i \in 1 .. disk[b].synced : disk[b].batches[i] = x
      BY <3>1, Zenon
    <3>3. /\ disk[b] \in File /\ disk[b].synced <= Len(disk[b].batches)
      BY Zenon DEF OrderOK, BatchesOK
    <3>4. /\ disk[b].synced \in Nat /\ Len(disk[b].batches) \in Nat
          /\ DOMAIN disk[b].batches = 1 .. Len(disk[b].batches)
      BY <3>3, FileFields, Zenon
    <3>5. i \in DOMAIN disk[b].batches
      BY <3>3, <3>4
    <3> QED
      BY <3>2, <3>5 DEF Range
  <2>5. IInv
    BY <2>2, <2>3, <2>4 DEF IInv
  <2> QED
    BY <1>1, <2>5 DEF PowerInv, Stable
<1> QED
  BY <1>2, <1>3

\* A power failure, whatever was running.
LEMMA PowerFailureInv ==
  ASSUME PowerInv, Durable, PowerFailure
  PROVE  PowerInv'
<1>m. MemoryTypeOK /\ pending \in Seq(DirChange)
  BY DEF PowerInv, IInv, Damaged, MemoryTypeOK
<1>p. /\ Len(pending) \in Nat /\ DOMAIN pending = 1 .. Len(pending)
      /\ \A i \in DOMAIN pending : pending[i].op \in {"create", "remove"}
  <2>1. \A i \in DOMAIN pending : pending[i] \in DirChange
    BY <1>m, ElementOfSeq, LenProperties
  <2> QED
    BY <1>m, <2>1, LenProperties DEF DirChange
<1>1. PICK lost \in Losses :
       LET gone == {pending[i].base : i \in {j \in lost : pending[j].op = "create"}}
           undone == {i \in lost : pending[i].op = "remove" /\ pending[i].base \notin gone}
           left == [b \in DOMAIN disk \ gone |-> disk[b]]
           back == [b \in {pending[i].base : i \in undone} |->
                      (CHOOSE r \in Range(pending) : r.op = "remove" /\ r.base = b).file]
           whole == [b \in DOMAIN left \cup DOMAIN back |->
                       IF b \in DOMAIN left THEN left[b] ELSE back[b]]
           exposed == {b \in DOMAIN whole : Unsynced(whole[b])}
       IN  \E g \in [exposed -> UNION {Outcomes(whole[b]) : b \in exposed}] :
             /\ \A b \in exposed : g[b] \in Outcomes(whole[b])
             /\ disk' = [b \in DOMAIN whole |->
                           IF b \in exposed THEN g[b] ELSE whole[b]]
  BY Zenon DEF PowerFailure
<1> DEFINE gone == {pending[i].base : i \in {j \in lost : pending[j].op = "create"}}
           undone == {i \in lost : pending[i].op = "remove" /\ pending[i].base \notin gone}
           left == [b \in DOMAIN disk \ gone |-> disk[b]]
           back == [b \in {pending[i].base : i \in undone} |->
                      (CHOOSE r \in Range(pending) : r.op = "remove" /\ r.base = b).file]
           whole == [b \in DOMAIN left \cup DOMAIN back |->
                       IF b \in DOMAIN left THEN left[b] ELSE back[b]]
           kept == DOMAIN disk \ gone
<1>2. /\ lost \subseteq DOMAIN pending
      /\ \A i \in lost, j \in DOMAIN pending : j > i => j \in lost
  BY DEF Losses, Durable
<1>c. \A i \in DOMAIN pending : pending[i].op = "create" =>
        /\ i = 1 /\ pending[i].base \in DOMAIN disk
        /\ \A c \in DOMAIN disk : c <= pending[i].base
        /\ disk[pending[i].base].synced = 0
  BY DEF PowerInv, Stable, PendingOK
<1>r. \A i \in DOMAIN pending : pending[i].op = "remove" =>
        LET end == End(pending[i].base, pending[i].file) IN
        /\ RemovedOK(pending[i]) /\ end \in Nat /\ pending[i].base < end
        /\ \A c \in DOMAIN disk : end <= c
        /\ \A j \in DOMAIN pending : i < j => end <= pending[j].base
  BY Zenon DEF PowerInv, Stable, PendingOK, RemovedOK, BatchesOK
<1>b. \A i \in DOMAIN pending : pending[i].base \in Nat
  <2>1. \A i \in DOMAIN pending : pending[i] \in DirChange
    BY <1>m, ElementOfSeq, LenProperties
  <2> QED
    BY <2>1, Zenon DEF DirChange
\* A removed file lies before every file there is.
<1>d. DOMAIN disk \subseteq Nat
  BY DEF PowerInv, Stable, OrderOK
<1>3. ASSUME NEW i \in DOMAIN pending, pending[i].op = "remove", pending[i].base \in DOMAIN disk
      PROVE  FALSE
  <2> DEFINE end == End(pending[i].base, pending[i].file)
  <2>1. end \in Nat /\ pending[i].base < end /\ end <= pending[i].base /\ pending[i].base \in Nat
    BY <1>3, <1>b, <1>r
  <2> HIDE DEF end
  <2> QED
    BY <2>1
<1>4. undone \subseteq DOMAIN pending /\ \A i \in undone : pending[i].op = "remove"
  BY <1>2
<1>5. ASSUME NEW i \in undone, NEW j \in DOMAIN pending, i < j PROVE j \in undone
  <2>1. j > i /\ j \in lost /\ j # 1
    BY <1>2, <1>5, <1>p
  <2>2. pending[j].op = "remove"
    BY <1>c, <1>p, <2>1
  <2>3. pending[j].base \notin gone
    BY <1>2, <1>3, <1>c, <2>2, Zenon
  <2> QED
    BY <2>1, <2>2, <2>3
<1>6. \A l \in DOMAIN disk \ kept : disk[l].synced = 0 /\ \A c \in DOMAIN disk : c <= l
  BY <1>2, <1>c
<1>7. /\ DOMAIN whole = kept \cup {pending[i].base : i \in undone}
      /\ \A b \in kept : whole[b] = disk[b]
  BY Zenon
<1>8. ASSUME NEW i \in undone PROVE whole[pending[i].base] = pending[i].file
  <2> DEFINE b == pending[i].base
             P(r) == r \in Range(pending) /\ r.op = "remove" /\ r.base = b
  <2>1. i \in DOMAIN pending /\ pending[i].op = "remove"
    BY <1>4
  <2>2. b \notin kept
    BY <1>3, <2>1
  <2>3. whole[b] = (CHOOSE r \in Range(pending) : r.op = "remove" /\ r.base = b).file
    BY <2>2, Zenon
  <2>4. P(pending[i])
    BY <2>1 DEF Range
  <2>5. ASSUME NEW r, P(r) PROVE r = pending[i]
    <3>1. PICK j \in DOMAIN pending : pending[j] = r
      BY <2>5 DEF Range
    <3> DEFINE end(k) == End(pending[k].base, pending[k].file)
    <3>2. /\ i \in Nat /\ j \in Nat /\ pending[j].base = pending[i].base
          /\ pending[j].op = "remove" /\ b \in Nat
      BY <1>b, <1>p, <2>1, <2>5, <3>1, SMTT(30)
    <3>3. /\ end(i) \in Nat /\ b < end(i) /\ end(j) \in Nat /\ b < end(j)
          /\ i < j => end(i) <= b
          /\ j < i => end(j) <= b
      BY <1>r, <2>1, <3>2, Zenon
    <3> HIDE DEF end
    <3>4. ~ (i < j) /\ ~ (j < i)
      BY <3>2, <3>3
    <3>5. i = j
      BY <3>2, <3>4
    <3> QED
      BY <3>1, <3>5
  <2>6. (CHOOSE r \in Range(pending) : r.op = "remove" /\ r.base = b) = pending[i]
    BY <2>4, <2>5
  <2> QED
    BY <2>3, <2>6, Zenon
<1>9. OrderOK(whole) /\ AckedIn(whole)
  <2> HIDE DEF whole, kept, undone
  <2>1. kept \subseteq DOMAIN disk
    BY DEF kept
  <2>2. \A i \in undone : \A j \in DOMAIN pending : i < j => j \in undone
    BY <1>5
  <2> QED
    BY <1>4, <1>6, <1>7, <1>8, <1>m, <2>1, <2>2, RestoredOrder, Zenon DEF PowerInv, Stable
<1>10. PICK g :
         LET exposed == {b \in DOMAIN whole : Unsynced(whole[b])} IN
         /\ \A b \in exposed : g[b] \in Outcomes(whole[b])
         /\ disk' = [b \in DOMAIN whole |-> IF b \in exposed THEN g[b] ELSE whole[b]]
  <2> DEFINE exposed == {b \in DOMAIN whole : Unsynced(whole[b])}
  <2>1. \E g \in [exposed -> UNION {Outcomes(whole[b]) : b \in exposed}] :
          /\ \A b \in exposed : g[b] \in Outcomes(whole[b])
          /\ disk' = [b \in DOMAIN whole |-> IF b \in exposed THEN g[b] ELSE whole[b]]
    BY <1>1, Zenon
  <2> HIDE DEF whole
  <2> QED
    BY <2>1
<1>11. OrderOK(disk') /\ AckedIn(disk')
  <2> HIDE DEF whole
  <2> QED
    BY <1>9, <1>10, ExposedOrder, Zenon
<1>12. /\ phase' = "down" /\ pc' = "idle" /\ pending' = <<>>
       /\ cur' = NoBatch /\ cutoff' = 0
       /\ UNCHANGED <<segments, leo, earliest, writeFailed, sent, acked>>
  BY Zenon DEF PowerFailure, ProcessEnds, memory
<1>13. NoBatch \in Batch
  BY DEF NoBatch, Batch
<1>14. MemoryTypeOK'
  BY <1>m, <1>12, <1>13, SMTT(30) DEF MemoryTypeOK
<1>15. (OrderOK(disk) /\ AckedIn(disk))'
  BY <1>11, <1>12 DEF OrderOK, AckedIn
<1>16. Down'
  BY <1>12, <1>14, <1>15 DEF Down
<1> QED
  BY <1>16, DownCases, PTL

-----------------------------------------------------------------------------
(***************************************************************************)
(* What the steps of the store leave on stable storage.                    *)
(***************************************************************************)
\* An fsync, or a change of what follows the batches.
LEMMA TouchedStable ==
  ASSUME Stable, DOMAIN disk' = DOMAIN disk,
         \A b \in DOMAIN disk :
           /\ disk'[b] \in File /\ disk'[b].batches = disk[b].batches
           /\ disk'[b].synced \in {disk[b].synced, Len(disk[b].batches)}
           /\ disk'[b].tail \in {"none", disk[b].tail} \/ \A c \in DOMAIN disk : c <= b,
         \A x \in acked' \ acked : \E b \in DOMAIN disk :
           \E i \in 1 .. disk'[b].synced : disk'[b].batches[i] = x,
         \/ pending' = <<>>
         \/ pending' = pending /\ \A b \in DOMAIN disk : disk'[b].synced = disk[b].synced
  PROVE  Stable'
<1>d. \A b \in DOMAIN disk :
        /\ b \in Nat /\ BatchesOK(b, disk[b]) /\ disk[b].synced \in Nat
        /\ Len(disk[b].batches) \in Nat /\ disk[b].synced <= Len(disk[b].batches)
  BY FileFields, Zenon DEF Stable, OrderOK, BatchesOK
<1>1. ASSUME NEW b \in DOMAIN disk
      PROVE  /\ BatchesOK(b, disk'[b]) /\ End(b, disk'[b]) = End(b, disk[b])
             /\ disk[b].synced <= disk'[b].synced /\ disk'[b].synced \in Nat
  <2>1. End(b, disk'[b]) = End(b, disk[b])
    BY Zenon DEF End
  <2>2. disk'[b].synced <= Len(disk[b].batches) /\ disk[b].synced <= disk'[b].synced
    BY <1>d
  <2> QED
    BY <1>d, <2>1, <2>2, Zenon DEF BatchesOK
<1>2. OrderOK(disk')
  <2>1. ASSUME NEW b \in DOMAIN disk, NEW c \in DOMAIN disk, b < c
        PROVE  /\ End(b, disk'[b]) <= c /\ End(b, disk'[b]) \in DOMAIN disk
               /\ b < End(b, disk'[b])
               /\ disk'[b].tail = "none" /\ disk'[b].synced = Len(disk'[b].batches)
    <3>1. /\ End(b, disk[b]) <= c /\ End(b, disk[b]) \in DOMAIN disk /\ b < End(b, disk[b])
          /\ disk[b].tail = "none" /\ disk[b].synced = Len(disk[b].batches)
      BY <2>1, Zenon DEF Stable, OrderOK
    <3>2. ~ (c <= b)
      BY <1>d, <2>1, OffsetOrder, Zenon
    <3> QED
      BY <1>1, <3>1, <3>2, Zenon
  <2>2. DOMAIN disk \subseteq Nat
    BY <1>d
  <2> QED
    BY <1>1, <2>1, <2>2, Zenon DEF OrderOK
<1>3. AckedIn(disk)'
  <2> SUFFICES ASSUME NEW x \in acked'
               PROVE  \E b \in DOMAIN disk' : \E i \in 1 .. disk'[b].synced : disk'[b].batches[i] = x
    BY DEF AckedIn
  <2>1. CASE x \in acked
    <3>1. PICK b \in DOMAIN disk : \E i \in 1 .. disk[b].synced : disk[b].batches[i] = x
      BY <2>1 DEF Stable, AckedIn
    <3>2. PICK i \in 1 .. disk[b].synced : disk[b].batches[i] = x
      BY <3>1
    <3>3. i \in 1 .. disk'[b].synced
      <4>1. disk[b].synced \in Nat /\ disk'[b].synced \in Nat /\ disk[b].synced <= disk'[b].synced
        BY <1>1, <1>d, Zenon
      <4> QED
        BY <4>1, LongerRange
    <3> QED
      BY <3>2, <3>3, Zenon
  <2>2. CASE x \notin acked
    BY <2>2
  <2> QED
    BY <2>1, <2>2
<1>4. PendingOK'
  <2>1. CASE pending' = <<>>
    <3>1. DOMAIN <<>> = {}
      OBVIOUS
    <3> QED
      BY <2>1, <3>1, Zenon DEF PendingOK
  <2>2. CASE pending' = pending /\ \A b \in DOMAIN disk : disk'[b].synced = disk[b].synced
    BY <2>2 DEF Stable, PendingOK
  <2> QED
    BY <2>1, <2>2, Zenon
<1> QED
  BY <1>2, <1>3, <1>4, Zenon DEF Stable, OrderOK

\* The files are left alone.
LEMMA SameStable ==
  ASSUME Stable, disk' = disk, acked' = acked, pending' \in {pending, <<>>}
  PROVE  Stable'
<1>1. OrderOK(disk)' /\ AckedIn(disk)'
  BY DEF Stable, OrderOK, AckedIn
<1>2. CASE pending' = <<>>
  <2>1. PendingOK'
    BY <1>2 DEF PendingOK
  <2> QED
    BY <1>1, <2>1 DEF Stable
<1>3. CASE pending' = pending
  BY <1>1, <1>3, Zenon DEF Stable, PendingOK
<1> QED
  BY <1>2, <1>3, Zenon

\* A log file is fsynced, and with it the directory.
LEMMA SyncedStable ==
  ASSUME Stable, NEW a \in DOMAIN disk, disk' = [disk EXCEPT ![a] = Synced(@)],
         pending' = <<>>,
         \A x \in acked' \ acked : x \in Range(disk[a].batches)
  PROVE  Stable'
<1>1. \A b \in DOMAIN disk : disk[b] \in File
  BY DEF Stable, OrderOK, BatchesOK
<1>2. /\ disk[a].batches \in Seq(Batch) /\ Len(disk[a].batches) \in Nat
      /\ DOMAIN disk[a].batches = 1 .. Len(disk[a].batches)
  BY <1>1, FileFields
<1>3. /\ Synced(disk[a]) \in File /\ Synced(disk[a]).batches = disk[a].batches
      /\ Synced(disk[a]).synced = Len(disk[a].batches) /\ Synced(disk[a]).tail = disk[a].tail
  BY <1>1, <1>2 DEF Synced, File
<1>4. /\ DOMAIN disk' = DOMAIN disk /\ disk'[a] = Synced(disk[a])
      /\ \A b \in DOMAIN disk : b # a => disk'[b] = disk[b]
  OBVIOUS
<1>5. \A b \in DOMAIN disk :
        /\ disk'[b] \in File /\ disk'[b].batches = disk[b].batches
        /\ disk'[b].synced \in {disk[b].synced, Len(disk[b].batches)}
        /\ disk'[b].tail = disk[b].tail
  BY <1>1, <1>3, <1>4
<1>6. \A x \in acked' \ acked : \E b \in DOMAIN disk :
        \E i \in 1 .. disk'[b].synced : disk'[b].batches[i] = x
  BY <1>2, <1>3, <1>4 DEF Range
<1> QED
  BY <1>4, <1>5, <1>6, TouchedStable, Zenon

\* What follows the batches of the last file changes.
LEMMA TailStable ==
  ASSUME Stable, NEW a \in DOMAIN disk, NEW t \in {"none", "short"},
         t = "none" \/ \A c \in DOMAIN disk : c <= a,
         disk' = [disk EXCEPT ![a].tail = t], acked' = acked, pending' \in {pending, <<>>}
  PROVE  Stable'
<1>1. \A b \in DOMAIN disk : disk[b] \in File
  BY DEF Stable, OrderOK, BatchesOK
<1> DEFINE g == [disk[a] EXCEPT !.tail = t]
<1>2. g \in File /\ g.batches = disk[a].batches /\ g.synced = disk[a].synced /\ g.tail = t
  BY <1>1 DEF File
<1>3. /\ DOMAIN disk' = DOMAIN disk /\ disk'[a] = g
      /\ \A b \in DOMAIN disk : b # a => disk'[b] = disk[b]
  OBVIOUS
<1> HIDE DEF g
<1>4. \A b \in DOMAIN disk :
        /\ disk'[b] \in File /\ disk'[b].batches = disk[b].batches
        /\ disk'[b].synced = disk[b].synced
        /\ disk'[b].tail \in {"none", disk[b].tail} \/ \A c \in DOMAIN disk : c <= b
  BY <1>1, <1>2, <1>3, Zenon
<1> QED
  BY <1>3, <1>4, TouchedStable

\* A directory in order whose closed files are on stable storage.
LEMMA SyncedOrder ==
  ASSUME NEW d, DiskOK(d),
         \A b, c \in DOMAIN d : b < c => d[b].synced = Len(d[b].batches)
  PROVE  OrderOK(d)
<1>1. \A b \in DOMAIN d : BatchesOK(b, d[b])
  BY FileIsBatches, Zenon DEF DiskOK
<1> QED
  BY <1>1, Zenon DEF DiskOK, OrderOK

\* The creation of a file is the only directory change that may be lost.
LEMMA CreationPending ==
  ASSUME NEW a \in Nat, pending' = Append(<<>>, DirCreate(a)),
         a \in DOMAIN disk', \A c \in DOMAIN disk' : c <= a, disk'[a] = EmptyFile
  PROVE  PendingOK'
<1>1. DirCreate(a) \in {DirCreate(a)} /\ DirCreate(a).op = "create" /\ DirCreate(a).base = a
  BY DEF DirCreate
<1>2. Len(pending') = 1 /\ DOMAIN pending' = {1} /\ pending'[1] = DirCreate(a)
  BY <1>1
<1>3. disk'[a].synced = 0
  BY DEF EmptyFile
<1>4. /\ DOMAIN disk' # {}
      /\ \A i \in DOMAIN pending' : i = 1 /\ pending'[i].op = "create" /\ pending'[i].base = a
  BY <1>1, <1>2
<1> QED
  BY <1>3, <1>4 DEF PendingOK

\* An empty directory gets its first file.
LEMMA FirstFileStable ==
  ASSUME Stable, DOMAIN disk = {}, disk' = Created(disk, 0),
         pending' = Append(pending, DirCreate(0)), acked' = acked
  PROVE  Stable'
<1>1. DiskOK(disk') /\ DOMAIN disk' = {0} /\ disk'[0] = EmptyFile
  BY FirstFile
<1>2. OrderOK(disk')
  <2>1. \A b, c \in DOMAIN disk' : b < c => disk'[b].synced = Len(disk'[b].batches)
    BY <1>1
  <2> QED
    BY <1>1, <2>1, SyncedOrder
<1>3. AckedIn(disk)'
  BY DEF Stable, AckedIn
<1>4. pending' = Append(<<>>, DirCreate(0))
  BY Zenon DEF Stable, PendingOK
<1>5. PendingOK'
  <2>1. 0 \in Nat /\ 0 \in DOMAIN disk' /\ \A c \in DOMAIN disk' : c <= 0
    BY <1>1
  <2> QED
    BY <1>1, <1>4, <2>1, CreationPending
<1> QED
  BY <1>2, <1>3, <1>5, Zenon DEF Stable, OrderOK

\* Roll flushes the active segment before it creates the next one.
LEMMA RolledStable ==
  ASSUME Stable, IInv, pc = "roll", Durable, disk' = Created(RollFlushed, leo),
         pending' = Append(AfterFsync(pending), DirCreate(leo)), acked' = acked
  PROVE  Stable'
<1> DEFINE a == Active.base
<1>1. /\ phase = "open" /\ ~writeFailed /\ a < leo /\ leo \notin DOMAIN disk
      /\ DiskOK(disk') /\ DOMAIN disk' = DOMAIN disk \cup {leo} /\ disk'[leo] = EmptyFile
      /\ \A b \in DOMAIN disk : disk'[b] = RollFlushed[b] /\ disk'[b].batches = disk[b].batches
  BY RollingDisk
<1>2. a \in DOMAIN disk /\ a \in Nat /\ leo \in Nat /\ \A c \in DOMAIN disk : c <= a
  BY <1>1, ActiveIsLast, Zenon DEF IInv, MemoryTypeOK
<1>3. DOMAIN disk \subseteq Nat /\ \A b \in DOMAIN disk : disk[b] \in File
  BY Zenon DEF Stable, OrderOK, BatchesOK
<1>4. /\ RollFlushed[a].synced = Len(disk[a].batches)
      /\ \A b \in DOMAIN disk : b # a => RollFlushed[b] = disk[b]
  <2>1. RollFlushed = [disk EXCEPT ![a] = Synced(disk[a])]
    BY DEF RollFlushed
  <2>2. Synced(disk[a]).synced = Len(disk[a].batches)
    BY <1>2, <1>3 DEF Synced, File
  <2> HIDE DEF a
  <2> QED
    BY <1>2, <2>1, <2>2
<1>d. \A b \in DOMAIN disk :
        /\ disk[b].synced \in Nat /\ Len(disk[b].batches) \in Nat
        /\ disk[b].synced <= Len(disk[b].batches)
  BY FileFields, Zenon DEF Stable, OrderOK, BatchesOK
<1> HIDE DEF a
<1>5. ASSUME NEW b \in DOMAIN disk
      PROVE  /\ disk'[b].synced = Len(disk'[b].batches) /\ disk[b].synced <= disk'[b].synced
             /\ disk'[b].synced \in Nat
  <2>1. CASE b = a
    BY <1>1, <1>4, <1>d, <2>1, Zenon
  <2>2. CASE b # a
    <3>1. b < a
      BY <1>2, <1>3, <2>2, SMTT(30)
    <3>2. disk[b].synced = Len(disk[b].batches)
      BY <1>2, <3>1, Zenon DEF Stable, OrderOK
    <3> QED
      BY <1>1, <1>4, <1>d, <2>2, <3>2, Zenon
  <2> QED
    BY <2>1, <2>2, Zenon
<1>6. \A c \in DOMAIN disk' : c <= leo
  BY <1>1, <1>2, <1>3, SMTT(30)
<1>7. OrderOK(disk')
  <2>1. ASSUME NEW b \in DOMAIN disk', NEW c \in DOMAIN disk', b < c
        PROVE  disk'[b].synced = Len(disk'[b].batches)
    <3>1. b # leo
      BY <1>1, <1>2, <1>3, <1>6, <2>1
    <3> QED
      BY <1>1, <1>5, <3>1, Zenon
  <2> QED
    BY <1>1, <2>1, SyncedOrder, Zenon
<1>8. AckedIn(disk)'
  <2> SUFFICES ASSUME NEW x \in acked
               PROVE  \E b \in DOMAIN disk' : \E i \in 1 .. disk'[b].synced : disk'[b].batches[i] = x
    BY DEF AckedIn
  <2>1. PICK b \in DOMAIN disk : \E i \in 1 .. disk[b].synced : disk[b].batches[i] = x
    BY Zenon DEF Stable, AckedIn
  <2>2. PICK i \in 1 .. disk[b].synced : disk[b].batches[i] = x
    BY <2>1
  <2>3. i \in 1 .. disk'[b].synced
    BY <1>5, <1>d
  <2> QED
    BY <1>1, <2>2, <2>3, Zenon
<1>9. PendingOK'
  <2>1. pending' = Append(<<>>, DirCreate(leo))
    BY DEF AfterFsync, Durable
  <2> QED
    BY <1>1, <1>2, <1>6, <2>1, CreationPending
<1> QED
  BY <1>7, <1>8, <1>9, Zenon DEF Stable, OrderOK

\* A batch is written behind what is on stable storage.
LEMMA WriteStable ==
  ASSUME Stable, IInv, IInv', Durable, Write
  PROVE  Stable'
<1> DEFINE a == Active.base
           g == [disk[a] EXCEPT !.batches = Append(@, cur)]
<1>1. /\ phase = "open" /\ ~writeFailed /\ acked' = acked /\ pending' = pending
      /\ cur \in Batch
  BY Zenon DEF Write, IInv, PcOK, MemoryTypeOK, Durable
<1>2. a \in DOMAIN disk /\ a \in Nat /\ \A c \in DOMAIN disk : c <= a
  BY <1>1, ActiveIsLast
<1>d. \A b \in DOMAIN disk :
        /\ b \in Nat /\ disk[b] \in File /\ disk[b].synced \in Nat
        /\ disk[b].batches \in Seq(Batch) /\ Len(disk[b].batches) \in Nat
        /\ disk[b].synced <= Len(disk[b].batches)
  BY FileFields, Zenon DEF Stable, OrderOK, BatchesOK
<1>3. g.batches = Append(disk[a].batches, cur) /\ g.synced = disk[a].synced
  BY <1>2, <1>d DEF File
<1>4. /\ DOMAIN disk' = DOMAIN disk /\ disk'[a] = g
      /\ \A b \in DOMAIN disk : b # a => disk'[b] = disk[b]
  BY <1>2 DEF Write
<1> HIDE DEF a, g
<1>5. ASSUME NEW b \in DOMAIN disk
      PROVE  /\ disk'[b].synced = disk[b].synced
             /\ \A i \in 1 .. disk[b].synced : disk'[b].batches[i] = disk[b].batches[i]
  <2>1. CASE b = a
    <3>1. \A i \in 1 .. Len(disk[a].batches) : g.batches[i] = disk[a].batches[i]
      BY <1>1, <1>2, <1>3, <1>d
    <3>2. \A i \in 1 .. disk[a].synced : i \in 1 .. Len(disk[a].batches)
      BY <1>2, <1>d
    <3> QED
      BY <1>3, <1>4, <2>1, <3>1, <3>2, Zenon
  <2>2. CASE b # a
    BY <1>4, <2>2
  <2> QED
    BY <2>1, <2>2, Zenon
<1>6. OrderOK(disk')
  <2>1. DiskOK(disk')
    BY Zenon DEF IInv, DiskOK
  <2>2. ASSUME NEW b \in DOMAIN disk', NEW c \in DOMAIN disk', b < c
        PROVE  disk'[b].synced = Len(disk'[b].batches)
    <3>1. b # a
      BY <1>2, <1>4, <1>d, <2>2, SMTT(30)
    <3> QED
      BY <1>4, <2>2, <3>1, Zenon DEF Stable, OrderOK
  <2> QED
    BY <2>1, <2>2, SyncedOrder
<1>7. AckedIn(disk)'
  BY <1>1, <1>4, <1>5 DEF Stable, AckedIn
<1>8. PendingOK'
  BY <1>1, <1>4, <1>5, Zenon DEF Stable, PendingOK
<1> QED
  BY <1>6, <1>7, <1>8, Zenon DEF Stable, OrderOK

\* The oldest file is removed: it is whole and on stable storage, and the
\* file that is the first one now continues it.
LEMMA DeleteStable ==
  ASSUME Stable, IInv, pc \in {"age", "size"}, HasClosedSegment,
         NEW ok, DeleteOldest(ok), DiskOK(disk')
  PROVE  Stable'
<1> DEFINE n == Len(segments)
           b == segments[1].base
           c2 == segments[2].base
           f == disk[b]
<1>1. phase = "open" /\ ~writeFailed /\ MemoryTypeOK /\ pending \in Seq(DirChange)
  BY Zenon DEF IInv, PcOK, MemoryTypeOK
<1>2. n \in Nat /\ n > 1 /\ DOMAIN segments = 1 .. n /\ segments # <<>>
  BY <1>1, SegmentTypes DEF HasClosedSegment
<1>3. /\ \A i \in 1 .. n : segments[i].base \in Nat
      /\ DOMAIN disk = {segments[i].base : i \in 1 .. n}
      /\ \A i, j \in 1 .. n : i < j => segments[i].base < segments[j].base
      /\ 1 \in 1 .. n /\ 2 \in 1 .. n
  <2>1. \A i \in 1 .. n : segments[i].base \in Nat
    BY <1>1, <1>2, SegmentTypes, Zenon
  <2>2. DOMAIN disk = {segments[i].base : i \in 1 .. n}
    BY <1>1, <1>2, ActiveIsLast, Zenon
  <2>3. \A i, j \in 1 .. n : i < j => segments[i].base < segments[j].base
    BY <1>1, <1>2, Zenon DEF IInv, SegmentsOK
  <2>4. 1 \in 1 .. n /\ 2 \in 1 .. n
    <3> HIDE DEF n
    <3> QED
      BY <1>2, SMTT(30)
  <2> QED
    BY <2>1, <2>2, <2>3, <2>4, Zenon
<1>4. /\ b \in DOMAIN disk /\ c2 \in DOMAIN disk /\ b < c2 /\ b \in Nat /\ c2 \in Nat
      /\ \A c \in DOMAIN disk : b <= c /\ (c # b => b < c)
  <2>1. \A i \in 1 .. n : i = 1 \/ 1 < i
    BY <1>2
  <2>2. \A i \in 1 .. n : b <= segments[i].base /\ (i # 1 => b < segments[i].base)
    BY <1>3, <2>1, SMTT(30)
  <2> QED
    BY <1>3, <2>2
<1> HIDE DEF n, b, c2
<1>d. DOMAIN disk \subseteq Nat /\ \A c \in DOMAIN disk : BatchesOK(c, disk[c])
  BY Zenon DEF Stable, OrderOK
<1>5. /\ DOMAIN disk' = DOMAIN disk \ {b}
      /\ \A c \in DOMAIN disk \ {b} : disk'[c] = disk[c]
  BY Zenon DEF DeleteOldest, Without, b
<1>6. /\ BatchesOK(b, f) /\ f.tail = "none" /\ f.synced = Len(f.batches)
      /\ b < End(b, f) /\ End(b, f) \in DOMAIN disk /\ End(b, f) \in Nat
      /\ \A c \in DOMAIN disk \ {b} : End(b, f) <= c
  <2>1. \A c \in DOMAIN disk \ {b} : b < c
    BY <1>4, Zenon
  <2> QED
    BY <1>4, <1>d, <2>1, Zenon DEF Stable, OrderOK
<1> HIDE DEF f
<1>7. /\ End(b, f) \in DOMAIN disk' /\ \A c \in DOMAIN disk' : End(b, f) <= c
      /\ c2 \in DOMAIN disk'
  BY <1>4, <1>5, <1>6
<1>8. OrderOK(disk')
  <2>1. \A x, y \in DOMAIN disk' : x < y => disk'[x].synced = Len(disk'[x].batches)
    BY <1>5, Zenon DEF Stable, OrderOK
  <2> QED
    BY <2>1, SyncedOrder
<1>9. AckedIn(disk)'
  <2> SUFFICES ASSUME NEW x \in acked'
               PROVE  \E c \in DOMAIN disk' : \E i \in 1 .. disk'[c].synced : disk'[c].batches[i] = x
    BY Zenon DEF AckedIn
  <2>1. x \in acked /\ x.base >= c2
    BY DEF DeleteOldest, c2
  <2>2. PICK c \in DOMAIN disk : \E i \in 1 .. disk[c].synced : disk[c].batches[i] = x
    BY <2>1 DEF Stable, AckedIn
  <2>3. c # b
    <3> SUFFICES ASSUME c = b PROVE FALSE
      OBVIOUS
    <3>1. PICK i \in 1 .. f.synced : f.batches[i] = x
      BY <2>2 DEF f
    <3>2. i \in DOMAIN f.batches /\ x \in Batch
      BY <1>6, <3>1, FileFields, Zenon DEF BatchesOK
    <3>3. x.n > 0 /\ BatchEnd(x) <= End(b, f)
      BY <1>6, <3>1, <3>2, Zenon DEF BatchesOK
    <3>4. x.base \in Nat /\ x.n \in Nat /\ BatchEnd(x) = x.base + x.n
      BY <3>2, BatchFields, Zenon DEF BatchEnd
    <3>5. End(b, f) <= c2
      BY <1>5, <1>7, Zenon
    <3> QED
      BY <1>4, <1>6, <2>1, <3>3, <3>4, <3>5, SMTT(30)
  <2> QED
    BY <1>5, <2>2, <2>3, Zenon
<1>10. PendingOK'
  <2>1. CASE pending' = <<>>
    BY <2>1 DEF PendingOK
  <2>2. CASE pending' = Append(pending, DirRemove(b, f))
    <3> DEFINE r == DirRemove(b, f)
               k == Len(pending)
    <3>1. r.op = "remove" /\ r.base = b /\ r.file = f /\ r \in DirChange
      BY <1>4, <1>6, Zenon DEF DirRemove, DirChange, BatchesOK
    <3> HIDE DEF r
    <3>2. /\ k \in Nat /\ DOMAIN pending = 1 .. k /\ Len(pending') = k + 1
          /\ DOMAIN pending' = 1 .. k + 1 /\ pending'[k + 1] = r
          /\ \A i \in 1 .. k : pending'[i] = pending[i]
      <4>1. pending \in Seq(DirChange) /\ pending' = Append(pending, r)
        BY <1>1, <2>2 DEF r
      <4> QED
        BY <3>1, <4>1, AppendedElement
    <3> HIDE DEF k
    <3>3. \A i \in 1 .. k + 1 : i \in 1 .. k \/ i = k + 1
      BY <3>2
    <3>4. DOMAIN disk' # {}
      BY <1>7
    <3>5. ASSUME NEW i \in 1 .. k + 1, pending'[i].op = "create"
          PROVE  /\ i = 1
                 /\ pending'[i].base \in DOMAIN disk'
                 /\ \A c \in DOMAIN disk' : c <= pending'[i].base
                 /\ disk'[pending'[i].base].synced = 0
      <4>1. i \in 1 .. k /\ pending'[i] = pending[i] /\ pending[i].op = "create"
        BY <3>1, <3>2, <3>3, <3>5
      <4>2. /\ i = 1 /\ pending[i].base \in DOMAIN disk
            /\ \A c \in DOMAIN disk : c <= pending[i].base
            /\ disk[pending[i].base].synced = 0
        BY <3>2, <4>1, Zenon DEF Stable, PendingOK
      <4>3. pending[i].base # b
        <5>1. c2 <= pending[i].base
          BY <1>4, <4>2
        <5> QED
          BY <1>4, <5>1, SMTT(30)
      <4> QED
        BY <1>5, <4>1, <4>2, <4>3, Zenon
    <3>6. ASSUME NEW i \in 1 .. k + 1, pending'[i].op = "remove"
          PROVE  LET end == End(pending'[i].base, pending'[i].file) IN
                 /\ RemovedOK(pending'[i])
                 /\ \A c \in DOMAIN disk' : end <= c
                 /\ \A j \in 1 .. k + 1 : i < j => end <= pending'[j].base
                 /\ IF i = k + 1 THEN end \in DOMAIN disk' ELSE end = pending'[i + 1].base
      <4>1. CASE i = k + 1
        <5>1. RemovedOK(r)
          BY <1>6, <3>1 DEF RemovedOK
        <5>2. \A j \in 1 .. k + 1 : ~ (i < j)
          BY <3>2, <4>1
        <5> QED
          BY <1>7, <3>1, <3>2, <4>1, <5>1, <5>2, ZenonT(30)
      <4>2. CASE i \in 1 .. k
        <5> DEFINE end == End(pending[i].base, pending[i].file)
        <5>1. /\ RemovedOK(pending[i]) /\ \A c \in DOMAIN disk : end <= c
              /\ \A j \in 1 .. k : i < j => end <= pending[j].base
              /\ IF i = k THEN end \in DOMAIN disk ELSE end = pending[i + 1].base
          BY <3>2, <3>6, <4>2, Zenon DEF Stable, PendingOK, k
        <5>2. \A j \in 1 .. k + 1 : i < j => end <= pending'[j].base
          BY <1>4, <3>1, <3>2, <3>3, <5>1, Zenon
        <5>3. end \in Nat
          BY <5>1, Zenon DEF RemovedOK, BatchesOK
        <5>4. i # k + 1
          BY <3>2, <4>2
        <5>5. end = pending'[i + 1].base
          <6>1. CASE i = k
            <7>1. end <= b /\ b <= end
              BY <1>4, <5>1, <6>1, Zenon
            <7>2. end = b
              BY <1>4, <5>3, <7>1, OffsetOrder, Zenon
            <7> QED
              BY <3>1, <3>2, <6>1, <7>2, Zenon
          <6>2. CASE i # k
            <7>1. i + 1 \in 1 .. k
              BY <3>2, <4>2, <6>2, SMTT(30)
            <7> QED
              BY <3>2, <5>1, <6>2, <7>1, Zenon
          <6> QED
            BY <6>1, <6>2, SMTT(30)
        <5> QED
          BY <1>5, <3>2, <4>2, <5>1, <5>2, <5>4, <5>5, Zenon
      <4> QED
        BY <3>3, <4>1, <4>2, Zenon
    <3> QED
      BY <3>2, <3>4, <3>5, <3>6, Zenon DEF PendingOK
  <2> QED
    BY <2>1, <2>2, Zenon DEF DeleteOldest, b, f
<1> QED
  BY <1>8, <1>9, <1>10, Zenon DEF Stable, OrderOK

\* Every step of a store that can be opened again.
LEMMA NextStable ==
  ASSUME Stable, IInv, Durable, [Next]_vars
  PROVE  Stable' /\ IInv'
<1>i. IInv' /\ DiskOK(disk')
  BY NextIInv, Zenon DEF IInv, DiskOK
<1>a. \A p : AfterFsync(p) = <<>>
  BY Zenon DEF AfterFsync, Durable
<1>o. phase = "open" => Active.base \in DOMAIN disk
  BY SegmentTypes DEF IInv, SegmentsOK, Active
<1>l. pc # "idle" => /\ phase = "open" /\ ~writeFailed /\ Active.base \in DOMAIN disk
                     /\ \A c \in DOMAIN disk : c <= Active.base
  BY ActiveIsLast, Zenon DEF IInv, PcOK
<1>1. CASE UNCHANGED <<disk, pending, acked>>
  BY <1>1, <1>i, SameStable
<1>2. CASE RecoverSegment
  <2>1. PICK b \in Unopened : disk' = [disk EXCEPT ![b] = Truncated(disk[b])]
    BY <1>2, Zenon DEF RecoverSegment
  <2>2. b \in DOMAIN disk /\ disk' = [disk EXCEPT ![b].tail = "none"]
    BY <2>1, Zenon DEF Unopened, Truncated
  <2>3. acked' = acked /\ pending' \in {pending, <<>>}
    BY <1>2 DEF RecoverSegment
  <2>4. Stable'
    BY <2>2, <2>3, TailStable, Zenon
  <2> QED
    BY <1>i, <2>4
<1>3. CASE OpenDone
  <2>1. CASE segments = <<>>
    <3>0. DOMAIN segments = {}
      BY <2>1
    <3>1. DOMAIN disk = {}
      BY <1>3, <3>0, Zenon DEF OpenDone, Unopened
    <3>2. Stable'
      BY <1>3, <2>1, <3>1, FirstFileStable, Zenon DEF OpenDone
    <3> QED
      BY <1>i, <3>2
  <2>2. CASE segments # <<>>
    BY <1>1, <1>3, <2>2, <1>i, Zenon DEF OpenDone
  <2> QED
    BY <2>1, <2>2
<1>4. CASE OpenFail
  <2>1. Stable'
    BY <1>4, SameStable, FirstFileStable, Zenon DEF OpenFail
  <2> QED
    BY <1>i, <2>1
<1>5. CASE Roll
  <2>1. Stable'
    BY <1>5, RolledStable DEF Roll
  <2> QED
    BY <1>i, <2>1
<1>6. ASSUME phase = "open", disk' = [disk EXCEPT ![Active.base] = Synced(@)],
             pending' = AfterFsync(pending), acked' = acked
      PROVE  Stable'
  BY <1>6, <1>a, <1>o, SyncedStable, Zenon
<1>7. CASE RollFail
  <2>1. Stable'
    BY <1>6, <1>7, <1>l, SameStable, RolledStable DEF RollFail, RollFlushed
  <2> QED
    BY <1>i, <2>1
<1>8. CASE Write
  BY <1>8, <1>i, WriteStable
<1>9. CASE WriteFail
  <2>1. PICK t \in {"none", "short"} : disk' = [disk EXCEPT ![Active.base].tail = t]
    BY <1>9, Zenon DEF WriteFail
  <2>2. acked' = acked /\ pending' = pending /\ pc # "idle"
    BY <1>9 DEF WriteFail
  <2>3. Stable'
    BY <1>l, <2>1, <2>2, TailStable, Zenon
  <2> QED
    BY <1>i, <2>3
<1>10. CASE Flush
  <2>1. \A x \in acked' \ acked : x \in Range(disk[Active.base].batches)
    BY <1>10 DEF Flush, IInv, PcOK
  <2>2. Active.base \in DOMAIN disk /\ pending' = <<>>
    BY <1>10, <1>a, <1>l DEF Flush
  <2>3. disk' = [disk EXCEPT ![Active.base] = Synced(@)]
    BY <1>10 DEF Flush
  <2>4. Stable'
    BY <2>1, <2>2, <2>3, SyncedStable, Zenon
  <2> QED
    BY <1>i, <2>4
<1>11. CASE FlushFail
  <2>1. Stable'
    BY <1>6, <1>11, <1>l, SameStable DEF FlushFail
  <2> QED
    BY <1>i, <2>1
<1>12. CASE RetainByAge
  <2>1. HasClosedSegment /\ pc = "age"
    BY <1>12 DEF RetainByAge, Expired
  <2>2. DeleteOldest(TRUE) \/ DeleteOldest(FALSE) \/ UNCHANGED <<disk, pending, acked>>
    BY <1>12 DEF RetainByAge, RetentionUnchanged
  <2> QED
    BY <1>1, <1>i, <2>1, <2>2, DeleteStable
<1>13. CASE RetainBySize
  <2>1. HasClosedSegment /\ pc = "size"
    BY <1>13 DEF RetainBySize, MayBeTooLarge
  <2>2. DeleteOldest(TRUE) \/ DeleteOldest(FALSE) \/ UNCHANGED <<disk, pending, acked>>
    BY <1>13, Zenon DEF RetainBySize, RetentionUnchanged
  <2> QED
    BY <1>1, <1>i, <2>1, <2>2, DeleteStable
<1>14. CASE Close
  <2>1. Stable'
    BY <1>6, <1>14, SameStable DEF Close
  <2> QED
    BY <1>i, <2>1
<1>15. CASE Crash
  <2>1. acked' = acked /\ pending' = pending
    BY <1>15 DEF Crash, ProcessEnds
  <2>2. CASE disk' = disk
    BY <1>1, <1>i, <2>1, <2>2, Zenon
  <2>3. CASE pc = "write" /\ disk' = [disk EXCEPT ![Active.base].tail = "short"]
    <3>1. Stable'
      BY <1>l, <2>1, <2>3, TailStable, Zenon
    <3> QED
      BY <1>i, <3>1
  <2> QED
    BY <1>15, <2>2, <2>3 DEF Crash
<1>16. CASE OpenStart \/ AgeDone \/ SizeDone \/ RelativeOverflow \/ UNCHANGED vars
  <2>1. UNCHANGED <<disk, pending, acked>>
    BY <1>16, Zenon DEF OpenStart, AgeDone, SizeDone, RetentionUnchanged, RelativeOverflow, vars
  <2> QED
    BY <1>1, <1>i, <2>1, Zenon
<1>17. CASE \/ \E n \in 1 .. MaxRecords, ts \in Times : AppendStart(n, ts)
            \/ \E now \in Times : RetentionStart(now)
  <2>1. UNCHANGED <<disk, pending, acked>>
    BY <1>17 DEF AppendStart, RetentionStart
  <2> QED
    BY <1>1, <1>i, <2>1
<1> QED
  BY <1>2, <1>3, <1>4, <1>5, <1>7, <1>8, <1>9, <1>10, <1>11, <1>12, <1>13, <1>14, <1>15,
     <1>16, <1>17, SMTT(30) DEF Next

\* OpenStore opens a file that precedes the damaged one.
LEMMA RecoverDamaged ==
  ASSUME Stable, Damaged, RecoverSegment
  PROVE  Stable' /\ Damaged'
<1>1. PICK b \in Unopened, m \in Times \cup {0} :
        /\ b = leo /\ Accepts(b, disk[b], Unopened = {b})
        /\ disk' = [disk EXCEPT ![b] = Truncated(disk[b])]
        /\ segments' = Append(segments, [base |-> b, next |-> End(b, disk[b]),
                                         size |-> Bytes(b, disk[b]), maxTs |-> m])
        /\ leo' = End(b, disk[b])
  BY Zenon DEF RecoverSegment
<1> DEFINE f == disk[b]
           s == [base |-> b, next |-> End(b, f), size |-> Bytes(b, f), maxTs |-> m]
           n == Len(segments)
<1>2. PICK l \in DOMAIN disk :
        /\ disk[l].tail = "bad" /\ \A c \in DOMAIN disk : c <= l
        /\ l \in Unopened /\ \A c \in Unopened : leo <= c
        /\ \A i \in DOMAIN segments : segments[i].base < leo
  BY Zenon DEF Damaged, RecoverSegment
<1>3. /\ phase = "opening" /\ phase' = "opening" /\ pc' = "idle" /\ pending' = <<>>
      /\ UNCHANGED <<earliest, writeFailed, pc, cur, cutoff, sent, acked>>
      /\ MemoryTypeOK /\ segments \in Seq(Segment)
  BY Zenon DEF Damaged, RecoverSegment, MemoryTypeOK
<1>4. b \in DOMAIN disk /\ f.tail # "bad" /\ b # l
  BY <1>1, <1>2, Zenon DEF Unopened, Accepts
<1>d. DOMAIN disk \subseteq Nat /\ BatchesOK(b, f) /\ b \in Nat
  BY <1>4 DEF Stable, OrderOK
<1>5. b < l
  BY <1>2, <1>4, <1>d
<1>6. /\ End(b, f) \in DOMAIN disk /\ b < End(b, f) /\ End(b, f) \in Nat
      /\ \A c \in DOMAIN disk : b < c => End(b, f) <= c
  BY <1>4, <1>5, <1>d, Zenon DEF Stable, OrderOK, BatchesOK
<1>7. Stable'
  <2>1. disk' = [disk EXCEPT ![b].tail = "none"] /\ pending' \in {pending, <<>>} /\ acked' = acked
    BY <1>1, <1>3 DEF Truncated
  <2> QED
    BY <1>4, <2>1, TailStable, Zenon
<1>8. /\ DOMAIN disk' = DOMAIN disk /\ disk'[l] = disk[l]
  BY <1>1, <1>4, Zenon
<1>9. s \in Segment /\ s.base = b
  <2>1. m \in Nat
    BY RetentionAssumption
  <2>2. Bytes(b, f) \in Nat
    <3>1. Len(f.batches) \in Nat /\ End(b, f) - b \in Nat
      BY <1>6, <1>d, FileFields, OffsetOrder, Zenon DEF BatchesOK
    <3>2. HeaderBytes \in Nat /\ RecordBytes \in Nat
      BY SizeAssumption
    <3>3. \A x, y \in Nat : x * y \in Nat
      OBVIOUS
    <3>4. Len(f.batches) * HeaderBytes \in Nat /\ (End(b, f) - b) * RecordBytes \in Nat
      BY <3>1, <3>2, <3>3, Zenon
    <3> QED
      BY <3>4 DEF Bytes
  <2> QED
    BY <1>6, <1>d, <2>1, <2>2 DEF Segment
<1>10. /\ n \in Nat /\ DOMAIN segments = 1 .. n
       /\ segments' \in Seq(Segment) /\ DOMAIN segments' = 1 .. n + 1
       /\ segments'[n + 1] = s /\ \A i \in 1 .. n : segments'[i] = segments[i]
  <2>1. segments' = Append(segments, s)
    BY <1>1
  <2> HIDE DEF s
  <2> QED
    BY <1>3, <1>9, <2>1, SMTT(30)
<1> HIDE DEF s, n
<1>11. \A i \in 1 .. n + 1 : i \in 1 .. n \/ i = n + 1
  BY <1>10
<1>12. \A i \in 1 .. n : i \in 1 .. n + 1
  BY <1>10
<1>13. n + 1 \in 1 .. n + 1
  BY <1>10, SMTT(30)
<1>14. \A c \in DOMAIN disk : c \in Unopened' <=> c \in Unopened /\ c # b
  BY <1>8, <1>9, <1>10, <1>11, <1>12, <1>13, Zenon DEF Unopened
<1>15. Unopened' \subseteq DOMAIN disk /\ l \in Unopened'
  BY <1>2, <1>4, <1>8, <1>14 DEF Unopened
<1>16. ASSUME NEW i \in DOMAIN segments' PROVE segments'[i].base < leo'
  <2>1. segments[i].base \in Nat \/ i = n + 1
    BY <1>3, <1>10, <1>11, SegmentTypes, Zenon
  <2>2. CASE i = n + 1
    BY <1>1, <1>6, <1>9, <1>10, <2>2, Zenon
  <2>3. CASE i \in 1 .. n
    <3>1. segments'[i].base < leo /\ segments'[i].base \in Nat
      BY <1>2, <1>3, <1>10, <2>3, SegmentTypes, Zenon
    <3> QED
      <4>1. segments'[i].base < b /\ b < leo' /\ leo' \in Nat
        <5>1. segments'[i].base < b
          BY <1>1, <3>1, Zenon
        <5>2. b < leo' /\ leo' \in Nat
          BY <1>1, <1>6
        <5> QED
          BY <5>1, <5>2, Zenon
      <4>2. b \in Nat /\ segments'[i].base \in Nat
        BY <1>d, <3>1
      <4> QED
        BY <4>1, <4>2, OffsetOrder, Zenon
  <2> QED
    BY <1>10, <1>11, <2>2, <2>3, Zenon
<1>17. leo' \in Unopened'
  <2>1. \A i \in DOMAIN segments : segments[i].base # leo'
    <3> SUFFICES ASSUME NEW i \in DOMAIN segments PROVE segments[i].base # leo'
      OBVIOUS
    <3>1. segments[i].base \in Nat /\ segments[i].base < leo
      BY <1>2, <1>3, SegmentTypes
    <3> QED
      BY <1>1, <1>6, <1>d, <3>1
  <2>2. leo' \in DOMAIN disk /\ leo' \in Nat /\ b < leo'
    BY <1>1, <1>6, Zenon
  <2>3. leo' # b
    BY <1>d, <2>2, OffsetOrder, Zenon
  <2>4. leo' \in Unopened
    BY <2>1, <2>2, Zenon DEF Unopened
  <2> QED
    BY <1>14, <2>2, <2>3, <2>4, ZenonT(30)
<1>18. ASSUME NEW c \in Unopened' PROVE leo' <= c
  <2>1. c \in DOMAIN disk /\ c \in Unopened /\ c # b
    BY <1>14, <1>15, Zenon
  <2>2. b <= c /\ c \in Nat
    BY <1>1, <1>2, <1>d, <2>1, SMTT(30)
  <2>3. b < c
    <3>1. b \in Nat /\ b # c
      BY <1>d, <2>1, Zenon
    <3> QED
      BY <2>2, <3>1, OffsetOrder, Zenon
  <2> QED
    BY <1>1, <1>6, <2>1, <2>3, SMTT(30)
<1>19. MemoryTypeOK'
  <2>1. leo' \in Nat /\ <<>> \in Seq(DirChange)
    BY <1>1, <1>6, SMTT(30)
  <2> QED
    BY <1>3, <1>10, <2>1, Zenon DEF MemoryTypeOK
<1>20. /\ l \in DOMAIN disk' /\ disk'[l].tail = "bad" /\ \A c \in DOMAIN disk' : c <= l
  BY <1>2, <1>8, Zenon
<1>21. Damaged'
  BY <1>3, <1>15, <1>16, <1>17, <1>18, <1>19, <1>20, Zenon DEF Damaged
<1> QED
  BY <1>7, <1>21

\* The directory stays damaged, and the store stays down or opening.
LEMMA NextDamaged ==
  ASSUME Stable, Damaged, [Next]_vars
  PROVE  Stable' /\ Damaged'
<1>1. /\ MemoryTypeOK /\ pending = <<>> /\ pc = "idle" /\ phase \in {"down", "opening"}
  BY DEF Damaged
<1>2. PICK l \in DOMAIN disk :
       /\ disk[l].tail = "bad" /\ \A c \in DOMAIN disk : c <= l
       /\ phase = "opening" =>
            /\ l \in Unopened /\ leo \in Unopened /\ \A b \in Unopened : leo <= b
            /\ \A i \in DOMAIN segments : segments[i].base < leo
  BY DEF Damaged
<1>d. DOMAIN disk \subseteq Nat
  BY DEF Stable, OrderOK
<1>n. NoBatch \in Batch
  BY DEF NoBatch, Batch
<1>3. ASSUME phase' = "down", pc' = "idle", UNCHANGED <<disk, pending, acked, memory, sent>>,
             cur' \in {cur, NoBatch}, cutoff' \in {cutoff, 0}
      PROVE  Stable' /\ Damaged'
  <2>1. Stable'
    BY <1>3, SameStable
  <2>2. MemoryTypeOK'
    BY <1>1, <1>3, <1>n DEF MemoryTypeOK, memory
  <2> QED
    BY <1>1, <1>2, <1>3, <2>1, <2>2, Zenon DEF Damaged
<1>4. CASE OpenStart
  <2>1. /\ phase' = "opening" /\ segments' = <<>> /\ DOMAIN segments' = {} /\ leo' = earliest'
        /\ UNCHANGED <<disk, pending, pc, cur, cutoff, sent, acked>> /\ writeFailed' = FALSE
    <3>1. DOMAIN <<>> = {}
      OBVIOUS
    <3> QED
      BY <1>4, <3>1, Zenon DEF OpenStart
  <2>2. leo' \in DOMAIN disk /\ \A c \in DOMAIN disk : leo' <= c
    BY <1>2, <1>4, Zenon DEF OpenStart
  <2>3. Unopened' = DOMAIN disk
    BY <2>1, Zenon DEF Unopened
  <2>4. MemoryTypeOK'
    <3>1. segments' \in Seq(Segment) /\ leo' \in Nat
      BY <1>d, <2>1, <2>2
    <3> QED
      BY <1>1, <2>1, <3>1, Zenon DEF MemoryTypeOK
  <2>5. Stable'
    BY <2>1, SameStable, Zenon
  <2>6. Damaged'
    BY <1>1, <1>2, <2>1, <2>2, <2>3, <2>4, Zenon DEF Damaged
  <2> QED
    BY <2>5, <2>6
<1>5. CASE RecoverSegment
  BY <1>5, RecoverDamaged, Zenon
<1>6. CASE OpenDone
  BY <1>2, <1>6 DEF OpenDone
<1>7. CASE OpenFail
  <2>1. UNCHANGED <<disk, pending>>
    BY <1>2, <1>7, Zenon DEF OpenFail
  <2>2. phase' = "down" /\ UNCHANGED <<memory, pc, cur, cutoff, sent, acked>>
    BY <1>7 DEF OpenFail
  <2> QED
    BY <1>1, <1>3, <2>1, <2>2, Zenon
<1>8. CASE Crash
  <2>1. UNCHANGED <<disk, pending>>
    BY <1>1, <1>8 DEF Crash
  <2>2. /\ phase' = "down" /\ pc' = "idle" /\ cur' = NoBatch /\ cutoff' = 0
        /\ UNCHANGED <<memory, sent, acked>>
    BY <1>8 DEF Crash, ProcessEnds
  <2> QED
    BY <1>3, <2>1, <2>2
<1>9. CASE UNCHANGED vars
  <2>1. UNCHANGED <<disk, pending, phase, segments, leo, earliest, writeFailed,
                    pc, cur, cutoff, sent, acked>>
    BY <1>9 DEF vars
  <2>2. Stable'
    BY <2>1, SameStable, Zenon
  <2>3. MemoryTypeOK' /\ Unopened' = Unopened
    BY <1>1, <2>1 DEF MemoryTypeOK, Unopened
  <2> QED
    BY <1>1, <1>2, <2>1, <2>2, <2>3, Zenon DEF Damaged
\* Every other action needs an open store.
<1>10. /\ ~ Roll /\ ~ RollFail /\ ~ RelativeOverflow /\ ~ Write /\ ~ WriteFail
       /\ ~ Flush /\ ~ FlushFail /\ ~ RetainByAge /\ ~ AgeDone /\ ~ RetainBySize /\ ~ SizeDone
  BY <1>1, SMTT(30) DEF Roll, RollFail, RelativeOverflow, Write, WriteFail, Flush, FlushFail,
              RetainByAge, AgeDone, RetainBySize, SizeDone
<1>11. /\ ~ Close
       /\ \A n \in 1 .. MaxRecords, ts \in Times : ~ AppendStart(n, ts)
       /\ \A now \in Times : ~ RetentionStart(now)
  BY <1>1 DEF Close, AppendStart, RetentionStart
<1> QED
  BY <1>4, <1>5, <1>6, <1>7, <1>8, <1>9, <1>10, <1>11, Zenon DEF Next
-----------------------------------------------------------------------------
(***************************************************************************)
(* The theorems about power failures.                                      *)
(***************************************************************************)
\* Init establishes the inductive invariant with power failures.
LEMMA InitPowerInv == Init => PowerInv
<1> SUFFICES ASSUME Init PROVE PowerInv
  OBVIOUS
<1>1. DOMAIN disk = {} /\ acked = {} /\ pending = <<>>
  BY DEF Init
<1>2. Stable
  <2>1. OrderOK(disk) /\ AckedIn(disk)
    BY <1>1, Zenon DEF OrderOK, AckedIn
  <2>2. PendingOK
    BY <1>1 DEF PendingOK
  <2> QED
    BY <2>1, <2>2 DEF Stable
<1> QED
  BY <1>2, InitIInv DEF PowerInv

\* Every step preserves it, power failures included.
LEMMA NextPowerInv ==
  ASSUME Durable
  PROVE  PowerInv /\ [Next \/ PowerFailure]_vars => PowerInv'
<1> SUFFICES ASSUME PowerInv, [Next \/ PowerFailure]_vars PROVE PowerInv'
  OBVIOUS
<1>1. CASE PowerFailure
  BY <1>1, PowerFailureInv
<1>2. CASE [Next]_vars /\ IInv
  BY <1>2, NextStable DEF PowerInv
<1>3. CASE [Next]_vars /\ Damaged
  BY <1>3, NextDamaged DEF PowerInv
<1> QED
  BY <1>1, <1>2, <1>3 DEF PowerInv

\* In sync mode, on a file system that keeps directory changes in order, the
\* inductive invariant survives power failures: a directory is either one
\* that the store accepts or damaged at the very end of its last file.
THEOREM PowerInvariance ==
  ASSUME Durable
  PROVE  PowerSpec => []PowerInv
<1>1. PowerInv /\ [Next \/ PowerFailure]_vars => PowerInv'
  BY NextPowerInv
<1> QED
  BY <1>1, InitPowerInv, PTL DEF PowerSpec

\* After a power failure OpenStore finds every closed segment whole and in
\* its place; only bytes at the end of the active segment can be refused.
THEOREM OnlyTailEverDamaged ==
  ASSUME Durable
  PROVE  PowerSpec => []OnlyActiveTailDamaged
<1>1. PowerInv => OnlyActiveTailDamaged
  <2> SUFFICES ASSUME PowerInv, phase = "opening", NEW b \in Unopened, IsNext(b)
               PROVE  /\ b = leo /\ Continuous(b, disk[b].batches)
                      /\ Unopened # {b} => disk[b].tail = "none"
    BY Zenon DEF OnlyActiveTailDamaged
  <2>1. b \in DOMAIN disk /\ DOMAIN disk \subseteq Nat /\ BatchesOK(b, disk[b])
    BY DEF Unopened, PowerInv, Stable, OrderOK
  <2>2. leo \in Unopened /\ (\A c \in Unopened : leo <= c) /\ leo \in Nat
    BY Zenon DEF PowerInv, IInv, UnopenedOK, Damaged, MemoryTypeOK
  <2>3. b = leo
    BY <2>1, <2>2 DEF IsNext
  <2>4. ASSUME Unopened # {b} PROVE disk[b].tail = "none"
    <3>1. PICK c \in Unopened : c # b
      BY <2>4, Zenon
    <3>2. c \in DOMAIN disk /\ c \in Nat /\ b <= c
      BY <2>1 DEF Unopened, IsNext
    <3>3. b < c
      BY <2>1, <3>1, <3>2, SMTT(30)
    <3> QED
      BY <2>1, <3>2, <3>3, Zenon DEF PowerInv, Stable, OrderOK
  <2> QED
    BY <2>1, <2>3, <2>4, Zenon DEF BatchesOK
<1> QED
  BY <1>1, PowerInvariance, PTL

\* In sync mode, when an fsync of a log file makes the earlier directory
\* changes durable, an acknowledged batch survives power failures too: it
\* stays in the files until retention deletes its segment.
THEOREM AckedSurvivesPowerFailure ==
  ASSUME Durable
  PROVE  PowerSpec => []AckedRetained
<1>1. PowerInv => AckedRetained
  <2> SUFFICES ASSUME PowerInv, NEW x \in acked
               PROVE  \E b \in DOMAIN disk : x \in Range(disk[b].batches)
    BY DEF AckedRetained
  <2>1. PICK b \in DOMAIN disk : \E i \in 1 .. disk[b].synced : disk[b].batches[i] = x
    BY DEF PowerInv, Stable, AckedIn
  <2>2. PICK i \in 1 .. disk[b].synced : disk[b].batches[i] = x
    BY <2>1
  <2>3. disk[b] \in File /\ disk[b].synced <= Len(disk[b].batches)
    BY Zenon DEF PowerInv, Stable, OrderOK, BatchesOK
  <2>4. i \in DOMAIN disk[b].batches
    BY <2>3, FileFields, LongerRange, Zenon
  <2> QED
    BY <2>2, <2>4 DEF Range
<1> QED
  BY <1>1, PowerInvariance, PTL

\* In the same setting, whatever the power failures left, the types hold, and a store that opens
\* again has a contiguous segment list that agrees with the files.
THEOREM OpenAfterPowerFailure ==
  ASSUME Durable
  PROVE  PowerSpec => [](TypeOK /\ SegmentsContiguous /\ MemoryMatchesDisk)
<1>1. Damaged /\ Stable => TypeOK /\ SegmentsContiguous /\ MemoryMatchesDisk
  <2> SUFFICES ASSUME Damaged, Stable PROVE TypeOK /\ SegmentsContiguous /\ MemoryMatchesDisk
    OBVIOUS
  <2>1. TypeOK
    BY Zenon DEF Damaged, Stable, OrderOK, BatchesOK, MemoryTypeOK, TypeOK
  <2>2. SegmentsContiguous /\ MemoryMatchesDisk
    BY DEF Damaged, SegmentsContiguous, MemoryMatchesDisk
  <2> QED
    BY <2>1, <2>2
<1>2. PowerInv => TypeOK /\ SegmentsContiguous /\ MemoryMatchesDisk
  BY <1>1, InvTypes, InvContiguous, InvMatches DEF PowerInv
<1> QED
  BY <1>2, PowerInvariance, PTL
=============================================================================
