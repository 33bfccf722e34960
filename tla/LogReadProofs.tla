--------------------------- MODULE LogReadProofs ---------------------------
(***************************************************************************)
(* Proofs about LogRead, for logs and limits of any size: Read returns     *)
(* exactly the records that it should.  The binary searches rest on        *)
(* SearchCorrect of SegmentIndexProofs.                                    *)
(***************************************************************************)
EXTENDS LogRead, SegmentIndexProofs, FiniteSetTheorems

(***************************************************************************)
(* First, what the sum of record sizes is: MapThenSumSet is                *)
(* defined by a recursive function; counting the bytes satisfies that      *)
(* definition, and nothing else does.                                      *)
(***************************************************************************)
\* The bytes of the records with offsets in s.
BytesOf(s) == UNION {{o} \X (1 .. RecordAt(o).size) : o \in s}

\* A finite set of offsets with records.
Sized(S) == IsFiniteSet(S) /\ \A o \in S : RecordAt(o).size \in Nat

\* What MapThenSumSet says of the function it is defined with.
SumsUp(f, S) ==
  f = [s \in SUBSET S |->
         IF s = {} THEN 0
         ELSE LET x == CHOOSE x \in s : TRUE
              IN  RecordAt(x).size + f[s \ {x}]]

\* One record more has as many bytes more as its size says.
LEMMA BytesStep ==
  ASSUME NEW S, Sized(S), NEW x \in S
  PROVE  /\ Cardinality(BytesOf(S)) \in Nat /\ Cardinality(BytesOf(S \ {x})) \in Nat
         /\ Cardinality(BytesOf(S)) = RecordAt(x).size + Cardinality(BytesOf(S \ {x}))
<1> DEFINE B(o) == {o} \X (1 .. RecordAt(o).size)
<1>1. ASSUME NEW o \in S
      PROVE  IsFiniteSet(B(o)) /\ Cardinality(B(o)) = RecordAt(o).size
  <2> DEFINE n == RecordAt(o).size
  <2>1. n \in Nat
    BY DEF Sized
  <2> HIDE DEF n
  <2>2. IsFiniteSet(1 .. n) /\ Cardinality(1 .. n) = n
    BY <2>1, FS_Interval
  <2>3. IsFiniteSet({o}) /\ Cardinality({o}) = 1
    BY FS_Singleton
  <2>4. IsFiniteSet({o} \X (1 .. n)) /\ Cardinality({o} \X (1 .. n)) = 1 * n
    BY <2>2, <2>3, FS_Product, Zenon
  <2>5. 1 * n = n
    BY <2>1
  <2> QED
    BY <2>4, <2>5 DEF n
<1>2. ASSUME NEW T \in SUBSET S PROVE IsFiniteSet(BytesOf(T))
  <2>1. IsFiniteSet(T)
    BY FS_Subset DEF Sized
  <2> DEFINE U == {B(o) : o \in T}
  <2>2. IsFiniteSet(U)
    <3> DEFINE f == [o \in T |-> B(o)]
    <3>1. f \in Surjection(T, U)
      BY Zenon DEF Surjection
    <3> HIDE DEF f, U
    <3> QED
      BY <2>1, <3>1, FS_Surjection
  <2>3. \A u \in U : IsFiniteSet(u)
    BY <1>1
  <2>4. BytesOf(T) = UNION U
    BY DEF BytesOf
  <2> HIDE DEF U
  <2> QED
    BY <2>2, <2>3, <2>4, FS_UNION
<1>3. BytesOf(S) = B(x) \cup BytesOf(S \ {x})
  BY DEF BytesOf
<1>4. B(x) \cap BytesOf(S \ {x}) = {}
  BY DEF BytesOf
<1>5. IsFiniteSet(B(x)) /\ Cardinality(B(x)) = RecordAt(x).size
  BY <1>1
<1>6. IsFiniteSet(BytesOf(S)) /\ IsFiniteSet(BytesOf(S \ {x}))
  BY <1>2
<1> HIDE DEF B
<1>7. Cardinality(BytesOf(S)) = Cardinality(B(x)) + Cardinality(BytesOf(S \ {x})) - Cardinality({})
  BY <1>3, <1>4, <1>5, <1>6, FS_Union, Zenon
<1>8. /\ Cardinality(BytesOf(S)) \in Nat /\ Cardinality(BytesOf(S \ {x})) \in Nat
      /\ Cardinality({}) = 0 /\ Cardinality(B(x)) \in Nat
  BY <1>5, <1>6, FS_CardinalityType, FS_EmptySet
<1>9. Cardinality(BytesOf(S)) = Cardinality(B(x)) + Cardinality(BytesOf(S \ {x}))
  BY <1>7, <1>8
<1> QED
  BY <1>5, <1>8, <1>9, Zenon

\* A part of a set of offsets with records.
LEMMA SizedPart ==
  ASSUME NEW S, Sized(S), NEW T \in SUBSET S
  PROVE  Sized(T)
<1>1. IsFiniteSet(T)
  BY FS_Subset DEF Sized
<1> QED
  BY <1>1 DEF Sized

\* Counting the bytes satisfies the definition of the sum of the sizes.
LEMMA CountSumsUp ==
  ASSUME NEW S, Sized(S)
  PROVE  SumsUp([s \in SUBSET S |-> Cardinality(BytesOf(s))], S)
<1> DEFINE f == [s \in SUBSET S |-> Cardinality(BytesOf(s))]
<1>1. ASSUME NEW s \in SUBSET S
      PROVE  f[s] = IF s = {} THEN 0
                    ELSE LET x == CHOOSE x \in s : TRUE
                         IN  RecordAt(x).size + f[s \ {x}]
  <2>1. CASE s = {}
    <3>1. BytesOf({}) = {}
      BY DEF BytesOf
    <3> QED
      BY <2>1, <3>1, FS_EmptySet
  <2>2. CASE s # {}
    <3> DEFINE x == CHOOSE x \in s : TRUE
    <3>1. x \in s
      BY <2>2
    <3> HIDE DEF x
    <3>2. Cardinality(BytesOf(s)) = RecordAt(x).size + Cardinality(BytesOf(s \ {x}))
      BY <3>1, SizedPart, BytesStep
    <3>3. f[s] = Cardinality(BytesOf(s)) /\ f[s \ {x}] = Cardinality(BytesOf(s \ {x}))
      OBVIOUS
    <3> HIDE DEF f
    <3>4. f[s] = RecordAt(x).size + f[s \ {x}]
      BY <3>2, <3>3, Zenon
    <3> QED
      BY <2>2, <3>4, Zenon DEF x
  <2> QED
    BY <2>1, <2>2
<1>2. f = [s \in SUBSET S |-> f[s]]
  OBVIOUS
<1> HIDE DEF f
<1>3. SumsUp(f, S)
  BY <1>1, <1>2, Zenon DEF SumsUp
<1> QED
  BY <1>3 DEF f

\* Whatever satisfies the definition of the sum counts the bytes.
LEMMA SumsUpCount ==
  ASSUME NEW S, Sized(S), NEW f, SumsUp(f, S)
  PROVE  \A s \in SUBSET S : f[s] = Cardinality(BytesOf(s))
<1> SUFFICES ASSUME NEW u \in SUBSET S, f[u] # Cardinality(BytesOf(u)) PROVE FALSE
  OBVIOUS
<1> DEFINE Wrong == {s \in SUBSET S : f[s] # Cardinality(BytesOf(s))}
           T == {Cardinality(s) : s \in Wrong}
<1>1. \A s \in SUBSET S : IsFiniteSet(s) /\ Cardinality(s) \in Nat
  BY FS_Subset, FS_CardinalityType DEF Sized
<1>2. T \subseteq Nat /\ T # {}
  BY <1>1
<1>3. PICK m \in T : \A k \in T : m <= k
  <2> HIDE DEF T
  <2> QED
    BY <1>2, LeastElement, Zenon
<1>4. PICK s \in Wrong : \A t \in Wrong : Cardinality(s) <= Cardinality(t)
  BY <1>3
<1>5. f[s] = IF s = {} THEN 0
             ELSE LET x == CHOOSE x \in s : TRUE
                  IN  RecordAt(x).size + f[s \ {x}]
  BY DEF SumsUp
<1>6. CASE s = {}
  <2>1. BytesOf({}) = {}
    BY DEF BytesOf
  <2> QED
    BY <1>5, <1>6, <2>1, FS_EmptySet
<1>7. CASE s # {}
  <2> DEFINE x == CHOOSE x \in s : TRUE
  <2>1. x \in s
    BY <1>7
  <2>2. f[s] = RecordAt(x).size + f[s \ {x}]
    BY <1>5, <1>7
  <2> HIDE DEF x
  <2>3. Cardinality(s \ {x}) = Cardinality(s) - 1
    BY <1>1, <2>1, FS_RemoveElement
  <2>4. Cardinality(s) \in Nat /\ ~(Cardinality(s) <= Cardinality(s \ {x}))
    BY <1>1, <2>3
  <2>5. s \ {x} \notin Wrong
    BY <1>4, <2>4
  <2>6. f[s \ {x}] = Cardinality(BytesOf(s \ {x}))
    BY <2>5
  <2>7. Cardinality(BytesOf(s)) = RecordAt(x).size + Cardinality(BytesOf(s \ {x}))
    BY <2>1, SizedPart, BytesStep, Zenon
  <2> QED
    BY <2>2, <2>6, <2>7, Zenon
<1> QED
  BY <1>6, <1>7

\* The sum of the sizes of the records in an interval of offsets counts their
\* bytes.
LEMMA SizeCounted ==
  ASSUME NEW lo \in Nat, NEW hi \in Nat, Sized(lo .. hi - 1)
  PROVE  SizeOf(lo, hi) = Cardinality(BytesOf(lo .. hi - 1))
<1> DEFINE S == lo .. hi - 1
           f == CHOOSE g : SumsUp(g, S)
<1>1. SumsUp(f, S)
  BY CountSumsUp, Zenon
<1>2. SizeOf(lo, hi) = f[S]
  BY DEF SizeOf, MapThenSumSet, MapThenFoldSet, SumsUp
<1> HIDE DEF f, S
<1>3. f[S] = Cardinality(BytesOf(S))
  BY <1>1, SumsUpCount DEF S
<1> QED
  BY <1>2, <1>3 DEF S

\* The records of the log have sizes.
LEMMA LogSized ==
  ASSUME sizes \in Seq(Nat), NEW lo \in Nat, Earliest <= lo
  PROVE  /\ \A o \in Nat : lo <= o /\ o < LogEnd => RecordAt(o).size \in Nat
         /\ \A hi \in Nat : lo <= hi /\ hi <= LogEnd => Sized(lo .. hi - 1)
<1>1. ASSUME NEW o \in Nat, lo <= o, o < LogEnd PROVE RecordAt(o).size \in Nat
  BY <1>1, ReadAssumption DEF LogEnd, RecordAt
<1>2. ASSUME NEW hi \in Nat, lo <= hi, hi <= LogEnd PROVE Sized(lo .. hi - 1)
  <2>1. IsFiniteSet(lo .. hi - 1)
    BY FS_Interval
  <2>2. ASSUME NEW o \in lo .. hi - 1 PROVE RecordAt(o).size \in Nat
    <3>1. LogEnd \in Nat
      BY ReadAssumption DEF LogEnd
    <3>2. o \in Nat /\ lo <= o /\ o < LogEnd
      BY <1>2, <3>1
    <3> QED
      BY <1>1, <3>2, Zenon
  <2> QED
    BY <2>1, <2>2, Zenon DEF Sized
<1> QED
  BY <1>1, <1>2

\* The bytes of no records, and of one record more.
LEMMA SizeStep ==
  ASSUME sizes \in Seq(Nat), NEW lo \in Nat, Earliest <= lo
  PROVE  /\ SizeOf(lo, lo) = 0
         /\ \A o \in Nat : lo <= o /\ o < LogEnd =>
              /\ SizeOf(lo, o) \in Nat /\ RecordAt(o).size \in Nat
              /\ SizeOf(lo, o + 1) = SizeOf(lo, o) + RecordAt(o).size
<1>1. ASSUME NEW o \in Nat, lo <= o, o < LogEnd PROVE RecordAt(o).size \in Nat
  BY <1>1, LogSized, Zenon
<1>2. ASSUME NEW hi \in Nat, lo <= hi, hi <= LogEnd PROVE Sized(lo .. hi - 1)
  BY <1>2, LogSized, Zenon
<1>3. LogEnd \in Nat
  BY ReadAssumption DEF LogEnd
<1>4. SizeOf(lo, lo) = 0
  <2>1. lo .. lo - 1 = {} /\ BytesOf({}) = {} /\ Sized({})
    BY FS_EmptySet DEF BytesOf, Sized
  <2>2. SizeOf(lo, lo) = Cardinality(BytesOf(lo .. lo - 1))
    BY <2>1, SizeCounted
  <2> QED
    BY <2>1, <2>2, FS_EmptySet, Zenon
<1>5. ASSUME NEW o \in Nat, lo <= o, o < LogEnd
      PROVE  /\ SizeOf(lo, o) \in Nat
             /\ SizeOf(lo, o + 1) = SizeOf(lo, o) + RecordAt(o).size
  <2>1. /\ o + 1 \in Nat /\ lo <= o + 1 /\ o + 1 <= LogEnd /\ o <= LogEnd
        /\ o \in lo .. (o + 1) - 1 /\ (lo .. (o + 1) - 1) \ {o} = lo .. o - 1
    BY <1>3, <1>5
  <2>2. Sized(lo .. o - 1) /\ Sized(lo .. (o + 1) - 1)
    BY <1>2, <1>5, <2>1, Zenon
  <2>3. /\ SizeOf(lo, o) = Cardinality(BytesOf(lo .. o - 1))
        /\ SizeOf(lo, o + 1) = Cardinality(BytesOf(lo .. (o + 1) - 1))
    BY <2>1, <2>2, SizeCounted, Zenon
  <2>4. /\ Cardinality(BytesOf(lo .. o - 1)) \in Nat
        /\ Cardinality(BytesOf(lo .. (o + 1) - 1)) = RecordAt(o).size + Cardinality(BytesOf(lo .. o - 1))
    BY <2>1, <2>2, BytesStep, Zenon
  <2>5. RecordAt(o).size \in Nat
    BY <1>1, <1>5
  <2> QED
    BY <2>3, <2>4, <2>5
<1> QED
  BY <1>1, <1>4, <1>5

-----------------------------------------------------------------------------
(***************************************************************************)
(* The layout of the log: its segments, and in them the batches, hold the  *)
(* records in order and without a gap.                                     *)
(***************************************************************************)
Record == [offset : Nat, size : Nat]
Segment == [base : Nat, next : Nat, batches : Seq(Seq(Record)), index : Seq(IndexEntry)]

\* The record at an offset, and the end, of a log with record sizes zs.
RecordIn(zs, o) == [offset |-> o, size |-> zs[o - Earliest + 1]]
EndOf(zs) == Earliest + Len(zs)

\* Where a batch of a segment begins, and after the last one where it ends.
From(seg, k) == IF k <= Len(seg.batches) THEN seg.batches[k][1].offset ELSE seg.next

BatchOK(seg, zs, k) ==
  /\ Len(seg.batches[k]) > 0
  /\ From(seg, k) + Len(seg.batches[k]) = From(seg, k + 1)
  /\ seg.base <= From(seg, k) /\ From(seg, k + 1) <= seg.next
  /\ \A j \in 1 .. Len(seg.batches[k]) : seg.batches[k][j] = RecordIn(zs, From(seg, k) + (j - 1))

EntryOK(seg, e) ==
  /\ seg.index[e].pos < Len(seg.batches)
  /\ From(seg, seg.index[e].pos + 1) = seg.base + seg.index[e].rel

LaidOut(seg, zs) ==
  /\ seg \in Segment
  /\ From(seg, 1) = seg.base /\ Earliest <= seg.base
  /\ seg.base <= seg.next /\ seg.next <= EndOf(zs)
  /\ \A k \in 1 .. Len(seg.batches) : BatchOK(seg, zs, k)
  /\ \A e \in 1 .. Len(seg.index) : EntryOK(seg, e)
  /\ \A e, f \in 1 .. Len(seg.index) : e <= f => seg.index[e].rel <= seg.index[f].rel

LayoutOf(segs, zs) ==
  /\ zs \in Seq(Nat) /\ segs \in Seq(Segment) /\ Len(segs) > 0
  /\ \A i \in 1 .. Len(segs) : LaidOut(segs[i], zs)
  /\ segs[1].base = Earliest /\ segs[Len(segs)].next = EndOf(zs)
  /\ \A i \in 1 .. Len(segs) - 1 : segs[i + 1].base = segs[i].next
  /\ \A i, j \in 1 .. Len(segs) : i <= j => segs[i].next <= segs[j].next

Layout == LayoutOf(segments, sizes)

\* The record at an offset stays the same when the log grows.
LEMMA RecordKept ==
  ASSUME NEW zs \in Seq(Nat), NEW ns \in Seq(Nat), NEW o \in Nat, Earliest <= o, o < EndOf(zs)
  PROVE  RecordIn(zs \o ns, o) = RecordIn(zs, o)
<1>1. o - Earliest + 1 \in 1 .. Len(zs)
  BY ReadAssumption DEF EndOf
<1>2. (zs \o ns)[o - Earliest + 1] = zs[o - Earliest + 1]
  BY <1>1
<1> QED
  BY <1>2, Zenon DEF RecordIn

\* Batches begin at offsets.
LEMMA BeginsNat ==
  ASSUME NEW zs, NEW seg, LaidOut(seg, zs)
  PROVE  \A k \in 1 .. Len(seg.batches) + 1 : From(seg, k) \in Nat
<1>1. seg.next \in Nat /\ seg.batches \in Seq(Seq(Record))
  BY DEF LaidOut, Segment
<1> SUFFICES ASSUME NEW k \in 1 .. Len(seg.batches) + 1 PROVE From(seg, k) \in Nat
  OBVIOUS
<1>2. CASE k \in 1 .. Len(seg.batches)
  <2> DEFINE b == seg.batches[k]
  <2>1. b \in Seq(Record) /\ Len(b) > 0
    BY <1>1, <1>2 DEF LaidOut, BatchOK
  <2> HIDE DEF b
  <2>2. b[1] \in Record
    BY <2>1
  <2>3. b[1].offset \in Nat
    BY <2>2 DEF Record
  <2>4. k <= Len(seg.batches)
    BY <1>1, <1>2
  <2> QED
    BY <2>3, <2>4, Zenon DEF From, b
<1>3. CASE k \notin 1 .. Len(seg.batches)
  <2>1. ~(k <= Len(seg.batches))
    BY <1>1, <1>3
  <2> QED
    BY <1>1, <2>1, Zenon DEF From
<1> QED
  BY <1>2, <1>3

\* The segments do not notice that the log grows.
LEMMA LaidOutKept ==
  ASSUME NEW zs \in Seq(Nat), NEW ns \in Seq(Nat), NEW seg, LaidOut(seg, zs)
  PROVE  LaidOut(seg, zs \o ns)
<1>1. EndOf(zs) \in Nat /\ EndOf(zs \o ns) \in Nat /\ EndOf(zs) <= EndOf(zs \o ns)
  BY ReadAssumption DEF EndOf
<1>2. seg \in Segment /\ seg.base \in Nat /\ seg.next \in Nat /\ seg.batches \in Seq(Seq(Record))
      /\ Earliest <= seg.base /\ seg.next <= EndOf(zs) /\ Earliest \in Nat
  BY ReadAssumption DEF LaidOut, Segment
<1>3. ASSUME NEW k \in 1 .. Len(seg.batches) PROVE BatchOK(seg, zs \o ns, k)
  <2> DEFINE b == seg.batches[k]
             first == From(seg, k)
             after == From(seg, k + 1)
  <2>1. /\ Len(b) > 0 /\ first + Len(b) = after /\ seg.base <= first /\ after <= seg.next
        /\ \A j \in 1 .. Len(b) : b[j] = RecordIn(zs, first + (j - 1))
    BY DEF LaidOut, BatchOK
  <2>2. b \in Seq(Record)
    BY <1>2
  <2>3. first \in Nat /\ after \in Nat
    <3>1. k + 1 \in 1 .. Len(seg.batches) + 1 /\ k \in 1 .. Len(seg.batches) + 1
      BY <1>2
    <3> QED
      BY <3>1, BeginsNat, Zenon
  <2> HIDE DEF b, first, after
  <2>4. ASSUME NEW j \in 1 .. Len(b) PROVE b[j] = RecordIn(zs \o ns, first + (j - 1))
    <3>1. first + (j - 1) \in Nat /\ Earliest <= first + (j - 1) /\ first + (j - 1) < EndOf(zs)
      <4> DEFINE n == Len(b)
      <4>1. n \in Nat /\ j \in 1 .. n
        BY <2>2
      <4>2. first + n = after /\ seg.base <= first /\ after <= seg.next
        BY <2>1, Zenon
      <4> HIDE DEF n
      <4> QED
        BY <1>1, <1>2, <2>3, <4>1, <4>2
    <3> QED
      BY <2>1, <3>1, RecordKept, Zenon
  <2> QED
    BY <2>1, <2>4, Zenon DEF b, first, after, BatchOK
<1>4. seg.next <= EndOf(zs \o ns)
  BY <1>1, <1>2
<1> QED
  BY <1>3, <1>4, Zenon DEF LaidOut

\* An empty segment at the end of the log.
LEMMA EmptyLaidOut ==
  ASSUME sizes \in Seq(Nat)
  PROVE  LaidOut(EmptySegment, sizes)
<1> DEFINE x == EmptySegment
<1>1. x.base = LogEnd /\ x.next = LogEnd /\ x.batches = <<>> /\ x.index = <<>>
  BY DEF EmptySegment
<1>2. LogEnd \in Nat /\ Earliest <= LogEnd /\ LogEnd <= EndOf(sizes)
  BY ReadAssumption DEF LogEnd, EndOf
<1>3. x \in Segment
  BY <1>2 DEF EmptySegment, Segment
<1> HIDE DEF x
<1>4. From(x, 1) = x.base
  BY <1>1 DEF From
<1> QED
  BY <1>1, <1>2, <1>3, <1>4 DEF LaidOut, x

\* A segment that ends at the end of the log, with one more batch.
LEMMA ExtendedLaidOut ==
  ASSUME sizes \in Seq(Nat), NEW seg, LaidOut(seg, sizes), seg.next = LogEnd,
         NEW ns \in Seq(Nat), Len(ns) > 0, NEW indexed
  PROVE  LaidOut(Extended(seg, ns, indexed), sizes \o ns)
<1> DEFINE x == Extended(seg, ns, indexed)
           b == BatchOf(ns)
           m == Len(seg.batches)
           ws == sizes \o ns
           entry == [rel |-> LogEnd - seg.base, pos |-> m]
<1>1. /\ x.base = seg.base /\ x.next = LogEnd + Len(ns) /\ x.batches = Append(seg.batches, b)
      /\ (x.index = Append(seg.index, entry) \/ x.index = seg.index)
  BY DEF Extended
<1>2. /\ seg \in Segment /\ seg.base \in Nat /\ seg.batches \in Seq(Seq(Record))
      /\ seg.index \in Seq(IndexEntry) /\ seg.base <= LogEnd /\ Earliest <= seg.base /\ m \in Nat
  BY DEF LaidOut, Segment
<1>3. /\ LogEnd \in Nat /\ Len(ns) \in Nat /\ EndOf(ws) = LogEnd + Len(ns) /\ EndOf(sizes) = LogEnd
      /\ Earliest \in Nat /\ Earliest <= LogEnd
  BY ReadAssumption DEF LogEnd, EndOf
<1>4. /\ b \in Seq(Record) /\ Len(b) = Len(ns)
      /\ \A j \in 1 .. Len(ns) : b[j] = RecordIn(ws, LogEnd + (j - 1))
  <2>1. b \in [1 .. Len(ns) -> Record]
    BY <1>3 DEF BatchOf, Record
  <2>2. b \in Seq(Record) /\ Len(b) = Len(ns)
    <3> DEFINE n == Len(ns)
    <3> HIDE DEF b, n
    <3>1. n \in Nat /\ b \in [1 .. n -> Record]
      BY <1>3, <2>1 DEF n
    <3> QED
      BY <3>1 DEF n
  <2>3. ASSUME NEW j \in 1 .. Len(ns) PROVE b[j] = RecordIn(ws, LogEnd + (j - 1))
    <3>1. b[j] = [offset |-> LogEnd + (j - 1), size |-> ns[j]]
      BY <1>3 DEF BatchOf
    <3>2. ((LogEnd + (j - 1)) - Earliest) + 1 = Len(sizes) + j
      BY ReadAssumption DEF LogEnd
    <3>3. ws[Len(sizes) + j] = ns[j]
      OBVIOUS
    <3> QED
      BY <3>1, <3>2, <3>3 DEF RecordIn
  <2> QED
    BY <2>2, <2>3
<1>5. entry \in IndexEntry
  BY <1>2, <1>3 DEF IndexEntry
<1>6. x \in Segment
  <2> HIDE DEF b, m, entry, x
  <2>1. x.batches \in Seq(Seq(Record)) /\ x.base \in Nat /\ x.next \in Nat
    BY <1>1, <1>2, <1>3, <1>4
  <2>2. x.index \in Seq(IndexEntry)
    <3>1. Append(seg.index, entry) \in Seq(IndexEntry)
      BY <1>2, <1>5
    <3> QED
      BY <1>1, <1>2, <3>1, Zenon
  <2> QED
    BY <2>1, <2>2 DEF Extended, Segment, x
<1> HIDE DEF x, b, ws
<1>7. /\ Len(x.batches) = m + 1 /\ x.batches[m + 1] = b
      /\ \A k \in 1 .. m : x.batches[k] = seg.batches[k]
  BY <1>1, <1>2, <1>4
<1>8. b[1].offset = LogEnd
  <2>1. b[1] = RecordIn(ws, LogEnd + (1 - 1)) /\ LogEnd + (1 - 1) = LogEnd
    BY <1>3, <1>4
  <2> QED
    BY <2>1 DEF RecordIn
<1> HIDE DEF m
<1>9. ASSUME NEW k \in 1 .. m + 1 PROVE From(x, k) = From(seg, k)
  <2>1. CASE k \in 1 .. m
    <3>1. k <= Len(x.batches) /\ k <= Len(seg.batches)
      BY <1>2, <1>7, <2>1 DEF m
    <3> QED
      BY <1>7, <2>1, <3>1 DEF From
  <2>2. CASE k = m + 1
    <3>1. k <= Len(x.batches) /\ ~(k <= Len(seg.batches))
      BY <1>2, <1>7, <2>2 DEF m
    <3> QED
      BY <1>7, <1>8, <2>2, <3>1 DEF From
  <2> QED
    BY <1>2, <2>1, <2>2
<1>10. From(x, m + 1 + 1) = x.next
  <2>1. ~(m + 1 + 1 <= Len(x.batches))
    BY <1>2, <1>7
  <2> QED
    BY <2>1 DEF From
<1>11. From(x, m + 1) = LogEnd
  <2>1. m + 1 <= Len(x.batches)
    BY <1>2, <1>7
  <2> QED
    BY <1>7, <1>8, <2>1 DEF From
<1>12. ASSUME NEW k \in 1 .. Len(x.batches) PROVE BatchOK(x, ws, k)
  <2>1. CASE k \in 1 .. m
    <3> DEFINE c == seg.batches[k]
               first == From(seg, k)
    <3>1. /\ Len(c) > 0 /\ first + Len(c) = From(seg, k + 1)
          /\ seg.base <= first /\ From(seg, k + 1) <= seg.next
          /\ \A j \in 1 .. Len(c) : c[j] = RecordIn(ws, first + (j - 1))
      <4>1. LaidOut(seg, ws)
        BY LaidOutKept, Zenon DEF ws
      <4>2. BatchOK(seg, ws, k)
        BY <2>1, <4>1, Zenon DEF LaidOut, m
      <4> QED
        BY <4>2, Zenon DEF BatchOK
    <3>2. x.batches[k] = c /\ From(x, k) = first /\ From(x, k + 1) = From(seg, k + 1)
      <4>1. k \in 1 .. m + 1 /\ k + 1 \in 1 .. m + 1
        BY <1>2, <2>1
      <4> QED
        BY <1>7, <1>9, <2>1, <4>1, Zenon
    <3>3. From(seg, k + 1) <= x.next
      <4>1. From(seg, k + 1) \in Nat
        <5>1. k + 1 \in 1 .. Len(seg.batches) + 1
          BY <1>2, <2>1 DEF m
        <5> QED
          BY <5>1, BeginsNat, Zenon
      <4> HIDE DEF c, first
      <4> QED
        BY <1>1, <1>3, <3>1, <4>1
    <3> QED
      BY <1>1, <3>1, <3>2, <3>3, Zenon DEF BatchOK
  <2>2. CASE k = m + 1
    <3>1. x.batches[k] = b /\ From(x, k) = LogEnd /\ From(x, k + 1) = x.next
      BY <1>7, <1>10, <1>11, <2>2
    <3>2. Len(b) > 0 /\ LogEnd + Len(b) = x.next /\ x.base <= LogEnd /\ x.next <= x.next
      BY <1>1, <1>2, <1>3, <1>4
    <3> QED
      BY <1>4, <3>1, <3>2, Zenon DEF BatchOK
  <2> QED
    BY <1>2, <1>7, <2>1, <2>2
<1>13. ASSUME NEW e \in 1 .. Len(seg.index)
       PROVE  /\ seg.index[e].pos < Len(x.batches)
              /\ From(x, seg.index[e].pos + 1) = x.base + seg.index[e].rel
              /\ seg.index[e].rel <= LogEnd - seg.base
  <2> DEFINE p == seg.index[e].pos
             q == seg.index[e].rel
  <2>1. seg.index[e] \in IndexEntry
    BY <1>2
  <2>2. p \in Nat /\ q \in Nat
    BY <2>1 DEF IndexEntry
  <2>3. p < m /\ From(seg, p + 1) = seg.base + q
    BY DEF LaidOut, EntryOK, m
  <2> HIDE DEF p, q
  <2>4. p + 1 \in 1 .. m /\ p + 1 \in 1 .. m + 1
    BY <1>2, <2>2, <2>3
  <2>5. From(x, p + 1) = seg.base + q
    BY <1>9, <2>3, <2>4, Zenon
  <2>6. /\ From(seg, p + 1) + Len(seg.batches[p + 1]) = From(seg, (p + 1) + 1)
        /\ From(seg, (p + 1) + 1) <= LogEnd /\ Len(seg.batches[p + 1]) \in Nat
    <3>1. BatchOK(seg, sizes, p + 1)
      BY <2>4, Zenon DEF LaidOut, m
    <3>2. seg.batches[p + 1] \in Seq(Record)
      BY <1>2, <2>4 DEF m
    <3> QED
      BY <3>1, <3>2 DEF BatchOK
  <2>7. seg.base + q <= LogEnd
    <3>1. From(seg, p + 1) \in Nat
      BY <1>2, <2>2, <2>3
    <3> QED
      BY <1>3, <2>3, <2>6, <3>1
  <2>8. q <= LogEnd - seg.base
    BY <1>2, <1>3, <2>2, <2>7
  <2>9. p < Len(x.batches) /\ x.base = seg.base
    BY <1>1, <1>2, <1>7, <2>2, <2>3
  <2> QED
    BY <2>2, <2>3, <2>5, <2>8, <2>9 DEF p, q
<1> HIDE DEF entry
<1>14. /\ \A e \in 1 .. Len(x.index) : EntryOK(x, e)
       /\ \A e, f \in 1 .. Len(x.index) : e <= f => x.index[e].rel <= x.index[f].rel
  <2>1. CASE x.index = seg.index
    <3>1. \A e \in 1 .. Len(x.index) : EntryOK(x, e)
      BY <1>13, <2>1, Zenon DEF EntryOK
    <3> QED
      BY <2>1, <3>1, Zenon DEF LaidOut
  <2>2. CASE x.index = Append(seg.index, entry)
    <3>1. /\ Len(x.index) = Len(seg.index) + 1 /\ x.index[Len(seg.index) + 1] = entry
          /\ \A e \in 1 .. Len(seg.index) : x.index[e] = seg.index[e]
          /\ Len(seg.index) \in Nat
      BY <1>2, <1>5, <2>2
    <3>2. entry.rel = LogEnd - seg.base /\ entry.pos = m
      BY DEF entry
    <3>3. ASSUME NEW e \in 1 .. Len(seg.index) PROVE EntryOK(x, e)
      BY <1>13, <3>1, Zenon DEF EntryOK
    <3>4. EntryOK(x, Len(seg.index) + 1)
      BY <1>1, <1>2, <1>3, <1>7, <1>11, <3>1, <3>2 DEF EntryOK
    <3>5. \A e \in 1 .. Len(x.index) : e \in 1 .. Len(seg.index) \/ e = Len(seg.index) + 1
      BY <3>1
    <3>6. ASSUME NEW e \in 1 .. Len(x.index), NEW f \in 1 .. Len(x.index), e <= f
          PROVE  x.index[e].rel <= x.index[f].rel
      <4>1. CASE f \in 1 .. Len(seg.index)
        <5>1. e \in 1 .. Len(seg.index)
          BY <3>1, <3>6, <4>1
        <5> QED
          BY <3>1, <3>6, <4>1, <5>1, Zenon DEF LaidOut
      <4>2. CASE f = Len(seg.index) + 1 /\ e \in 1 .. Len(seg.index)
        BY <1>13, <3>1, <3>2, <4>2, Zenon
      <4>3. CASE f = Len(seg.index) + 1 /\ e = f
        <5>1. entry.rel <= entry.rel
          BY <1>2, <1>3, <3>2
        <5> QED
          BY <3>1, <4>3, <5>1, Zenon
      <4> QED
        BY <3>5, <4>1, <4>2, <4>3
    <3> QED
      BY <3>3, <3>4, <3>5, <3>6, Zenon
  <2> QED
    BY <1>1, <2>1, <2>2, Zenon
<1>15. From(x, 1) = x.base /\ Earliest <= x.base /\ x.base <= x.next /\ x.next <= EndOf(ws)
  <2>1. 1 \in 1 .. m + 1
    BY <1>2
  <2>2. From(x, 1) = x.base
    BY <1>1, <1>9, <2>1 DEF LaidOut
  <2> QED
    BY <1>1, <1>2, <1>3, <2>2
<1> QED
  BY <1>6, <1>12, <1>14, <1>15, Zenon DEF LaidOut, x, ws

\* The active segment is replaced.
LEMMA ReplaceLast ==
  ASSUME NEW segs, NEW zs, LayoutOf(segs, zs), NEW ns \in Seq(Nat),
         NEW x, LaidOut(x, zs \o ns), x.base = segs[Len(segs)].base, x.next = EndOf(zs \o ns)
  PROVE  LayoutOf([segs EXCEPT ![Len(segs)] = x], zs \o ns)
<1> DEFINE n == Len(segs)
           t == [segs EXCEPT ![n] = x]
           ws == zs \o ns
<1>1. zs \in Seq(Nat) /\ segs \in Seq(Segment) /\ n \in Nat /\ n > 0 /\ ws \in Seq(Nat) /\ x \in Segment
  BY DEF LayoutOf, LaidOut
<1>2. EndOf(zs) \in Nat /\ EndOf(ws) \in Nat /\ EndOf(zs) <= EndOf(ws)
  BY <1>1, ReadAssumption DEF EndOf
<1>3. /\ t \in Seq(Segment) /\ Len(t) = n /\ t[n] = x
      /\ \A i \in 1 .. n - 1 : t[i] = segs[i]
  BY <1>1
<1> HIDE DEF t, ws
<1>4. \A i \in 1 .. n : i \in 1 .. n - 1 \/ i = n
  BY <1>1
<1>5. ASSUME NEW i \in 1 .. n PROVE LaidOut(t[i], ws)
  <2>1. CASE i \in 1 .. n - 1
    <3>1. LaidOut(segs[i], zs)
      BY DEF LayoutOf
    <3> QED
      BY <1>1, <1>3, <2>1, <3>1, LaidOutKept, Zenon DEF ws
  <2>2. CASE i = n
    BY <1>3, <2>2, Zenon DEF ws
  <2> QED
    BY <1>4, <2>1, <2>2, Zenon
<1>6. \A i \in 1 .. n : t[i].base = segs[i].base
  BY <1>3, <1>4, Zenon
<1>7. \A i \in 1 .. n - 1 : t[i].next = segs[i].next
  BY <1>3, Zenon
<1>8. ASSUME NEW i \in 1 .. n - 1 PROVE t[i + 1].base = t[i].next
  <2>1. i + 1 \in 1 .. n
    BY <1>1
  <2> QED
    BY <1>6, <1>7, <2>1, Zenon DEF LayoutOf
<1>9. ASSUME NEW i \in 1 .. n, NEW j \in 1 .. n, i <= j PROVE t[i].next <= t[j].next
  <2>1. CASE j \in 1 .. n - 1
    <3>1. i \in 1 .. n - 1
      BY <1>1, <1>9, <2>1
    <3> QED
      BY <1>7, <1>9, <2>1, <3>1, Zenon DEF LayoutOf
  <2>2. CASE j = n
    <3>1. LaidOut(t[i], ws)
      BY <1>5
    <3>2. t[i].next <= EndOf(ws) /\ t[j].next = EndOf(ws)
      BY <1>3, <2>2, <3>1, Zenon DEF LaidOut, ws
    <3> QED
      BY <3>2, Zenon
  <2> QED
    BY <1>4, <2>1, <2>2, Zenon
<1>10. t[1].base = Earliest
  <2>1. 1 \in 1 .. n
    BY <1>1
  <2> QED
    BY <1>6, <2>1, Zenon DEF LayoutOf
<1>11. t[n].next = EndOf(ws)
  BY <1>3, Zenon DEF ws
<1> HIDE DEF n
<1>12. LayoutOf(t, ws)
  BY <1>1, <1>3, <1>5, <1>8, <1>9, <1>10, <1>11, Zenon DEF LayoutOf
<1> QED
  BY <1>12 DEF t, ws, n

\* A segment is added.
LEMMA AddLast ==
  ASSUME NEW segs, NEW zs, LayoutOf(segs, zs), NEW ns \in Seq(Nat),
         NEW x, LaidOut(x, zs \o ns), x.base = EndOf(zs), x.next = EndOf(zs \o ns)
  PROVE  LayoutOf(Append(segs, x), zs \o ns)
<1> DEFINE n == Len(segs)
           t == Append(segs, x)
           ws == zs \o ns
<1>1. zs \in Seq(Nat) /\ segs \in Seq(Segment) /\ n \in Nat /\ n > 0 /\ ws \in Seq(Nat) /\ x \in Segment
  BY DEF LayoutOf, LaidOut
<1>3. /\ t \in Seq(Segment) /\ Len(t) = n + 1 /\ t[n + 1] = x
      /\ \A i \in 1 .. n : t[i] = segs[i]
  BY <1>1
<1> HIDE DEF t, ws
<1>4. \A i \in 1 .. n + 1 : i \in 1 .. n \/ i = n + 1
  BY <1>1
<1>5. ASSUME NEW i \in 1 .. n + 1 PROVE LaidOut(t[i], ws)
  <2>1. CASE i \in 1 .. n
    <3>1. LaidOut(segs[i], zs)
      BY <2>1, Zenon DEF LayoutOf
    <3> QED
      BY <1>1, <1>3, <2>1, <3>1, LaidOutKept, Zenon DEF ws
  <2>2. CASE i = n + 1
    BY <1>3, <2>2, Zenon DEF ws
  <2> QED
    BY <1>4, <2>1, <2>2, Zenon
<1>8. ASSUME NEW i \in 1 .. n PROVE t[i + 1].base = t[i].next
  <2>1. CASE i \in 1 .. n - 1
    <3>1. i + 1 \in 1 .. n
      BY <1>1, <2>1
    <3> QED
      BY <1>3, <2>1, <3>1, Zenon DEF LayoutOf
  <2>2. CASE i = n
    BY <1>3, <2>2, Zenon DEF LayoutOf
  <2> QED
    BY <1>1, <2>1, <2>2
<1>9. ASSUME NEW i \in 1 .. n + 1, NEW j \in 1 .. n + 1, i <= j PROVE t[i].next <= t[j].next
  <2>1. CASE j \in 1 .. n
    <3>1. i \in 1 .. n
      BY <1>1, <1>9, <2>1
    <3> QED
      BY <1>3, <1>9, <2>1, <3>1, Zenon DEF LayoutOf
  <2>2. CASE j = n + 1
    <3>1. LaidOut(t[i], ws)
      BY <1>5
    <3>2. t[i].next <= EndOf(ws) /\ t[j].next = EndOf(ws)
      BY <1>3, <2>2, <3>1, Zenon DEF LaidOut, ws
    <3> QED
      BY <3>2, Zenon
  <2> QED
    BY <1>4, <2>1, <2>2, Zenon
<1>10. t[1].base = Earliest
  <2>1. 1 \in 1 .. n
    BY <1>1
  <2> QED
    BY <1>3, <2>1, Zenon DEF LayoutOf
<1>11. t[n + 1].next = EndOf(ws) /\ n + 1 > 0 /\ (n + 1) - 1 = n
  BY <1>1, <1>3 DEF ws
<1> HIDE DEF n
<1>12. LayoutOf(t, ws)
  BY <1>1, <1>3, <1>5, <1>8, <1>9, <1>10, <1>11, Zenon DEF LayoutOf
<1> QED
  BY <1>12 DEF t, ws, n

LEMMA InitLayout == ReadInit => Layout
<1> SUFFICES ASSUME ReadInit PROVE Layout
  OBVIOUS
<1> DEFINE x == EmptySegment
<1>1. sizes = <<>> /\ segments = <<x>> /\ sizes \in Seq(Nat)
  BY DEF ReadInit
<1>2. LaidOut(x, sizes) /\ x \in Segment
  BY <1>1, EmptyLaidOut DEF LaidOut
<1>3. x.base = Earliest /\ x.next = EndOf(sizes) /\ EndOf(sizes) \in Nat
  BY <1>1, ReadAssumption DEF EmptySegment, LogEnd, EndOf
<1> HIDE DEF x
<1>4. /\ segments \in Seq(Segment) /\ Len(segments) = 1 /\ segments[1] = x
      /\ 1 .. 1 = {1} /\ 1 .. 1 - 1 = {}
  BY <1>1, <1>2
<1>5. x.next <= x.next
  BY <1>3
<1> QED
  BY <1>1, <1>2, <1>3, <1>4, <1>5 DEF Layout, LayoutOf

LEMMA GrowLayout ==
  ASSUME Layout, NEW ns \in NewBatches, NEW indexed, Grow(ns, indexed)
  PROVE  Layout'
<1> DEFINE n == Len(segments)
           x == Extended(Active, ns, indexed)
           y == Extended(EmptySegment, ns, indexed)
<1>1. /\ sizes \in Seq(Nat) /\ segments \in Seq(Segment) /\ n \in 1 .. n
      /\ LaidOut(Active, sizes) /\ Active.next = LogEnd
  <2>1. sizes \in Seq(Nat) /\ segments \in Seq(Segment) /\ n \in 1 .. n
    BY DEF Layout, LayoutOf
  <2> QED
    BY <2>1 DEF Layout, LayoutOf, Active, LogEnd, EndOf
<1>2. ns \in Seq(Nat) /\ Len(ns) > 0
  <2>1. PICK k \in 1 .. MaxLog - Len(sizes) : ns \in [1 .. k -> 1 .. MaxSize]
    BY DEF NewBatches
  <2>2. k \in Nat /\ k > 0
    BY <1>1, <2>1, ReadAssumption
  <2>3. 1 .. MaxSize \subseteq Nat
    BY ReadAssumption
  <2>4. ns \in [1 .. k -> Nat]
    BY <2>1, <2>3
  <2> QED
    BY <2>2, <2>4
<1>3. LogEnd + Len(ns) = EndOf(sizes \o ns) /\ LogEnd = EndOf(sizes)
  BY <1>1, <1>2, ReadAssumption DEF LogEnd, EndOf
<1>4. CASE segments' = [segments EXCEPT ![n] = x]
  <2>1. LaidOut(x, sizes \o ns)
    BY <1>1, <1>2, ExtendedLaidOut
  <2>2. x.base = segments[n].base /\ x.next = EndOf(sizes \o ns)
    BY <1>3 DEF Extended, Active
  <2> HIDE DEF x
  <2>3. LayoutOf([segments EXCEPT ![n] = x], sizes \o ns)
    BY <1>2, <2>1, <2>2, ReplaceLast DEF Layout
  <2> QED
    BY <1>4, <2>3 DEF Layout, Grow
<1>5. CASE segments' = Append(segments, y)
  <2>1. LaidOut(EmptySegment, sizes) /\ EmptySegment.next = LogEnd
    BY <1>1, EmptyLaidOut DEF EmptySegment
  <2>2. LaidOut(y, sizes \o ns)
    BY <1>1, <1>2, <2>1, ExtendedLaidOut
  <2>3. y.base = EndOf(sizes) /\ y.next = EndOf(sizes \o ns)
    BY <1>3 DEF Extended, EmptySegment
  <2> HIDE DEF y
  <2>4. LayoutOf(Append(segments, y), sizes \o ns)
    BY <1>2, <2>2, <2>3, AddLast DEF Layout
  <2> QED
    BY <1>5, <2>4 DEF Layout, Grow
<1> QED
  BY <1>4, <1>5 DEF Grow

LEMMA RollOnlyLayout ==
  ASSUME Layout, RollOnly
  PROVE  Layout'
<1> DEFINE x == EmptySegment
<1>1. sizes \in Seq(Nat) /\ sizes \o <<>> = sizes /\ <<>> \in Seq(Nat)
  BY DEF Layout, LayoutOf
<1>2. LaidOut(x, sizes \o <<>>) /\ x.base = EndOf(sizes) /\ x.next = EndOf(sizes \o <<>>)
  BY <1>1, EmptyLaidOut DEF EmptySegment, LogEnd, EndOf
<1> HIDE DEF x
<1>3. LayoutOf(Append(segments, x), sizes \o <<>>)
  BY <1>1, <1>2, AddLast, Zenon DEF Layout
<1> QED
  BY <1>1, <1>3 DEF Layout, RollOnly, x

-----------------------------------------------------------------------------
(***************************************************************************)
(* A call of Read in a log with the segments segs and the record sizes zs. *)
(***************************************************************************)
Reader ==
  [pc : {"idle", "segment", "batch", "record", "done", "failed"}, offset : Nat, max : Nat,
   seg : Nat, pos : Nat, rec : Nat, curr : Nat, recs : Seq(Record), bytes : Nat,
   err : {"none", "refused", "read"}]

AdmittedIn(r, zs) == r.max > 0 /\ Earliest <= r.offset /\ r.offset <= EndOf(zs)

\* The bytes of the records from offset lo to hi - 1.
SizeIn(zs, lo, hi) == Cardinality(UNION {{o} \X (1 .. RecordIn(zs, o).size) : o \in lo .. hi - 1})

\* What the call has collected: the records from the wanted offset up to curr.
Collected(r, zs) ==
  /\ AdmittedIn(r, zs)
  /\ r.curr = r.offset + Len(r.recs) /\ r.curr <= EndOf(zs)
  /\ \A i \in 1 .. Len(r.recs) : r.recs[i] = RecordIn(zs, r.offset + (i - 1))
  /\ r.bytes = SizeIn(zs, r.offset, r.curr)
  /\ Len(r.recs) > 1 => r.bytes <= r.max

\* Where the scan is: nothing from curr on lies before it.
AtSegment(r, segs, zs) ==
  /\ r.seg <= Len(segs)
  /\ r.seg < Len(segs) => segs[r.seg + 1].base <= r.curr
  /\ r.seg = Len(segs) => r.curr = EndOf(zs)

AtBatch(r, segs) ==
  /\ r.seg < Len(segs) /\ r.pos <= Len(segs[r.seg + 1].batches)
  /\ From(segs[r.seg + 1], r.pos + 1) <= r.curr

AtRecord(r, segs) ==
  /\ r.seg < Len(segs) /\ r.pos < Len(segs[r.seg + 1].batches)
  /\ r.rec <= Len(segs[r.seg + 1].batches[r.pos + 1])
  /\ From(segs[r.seg + 1], r.pos + 1) + r.rec <= r.curr

\* The answer cannot be longer.
Complete(r, zs) ==
  /\ r.offset < EndOf(zs) => r.recs # <<>>
  /\ r.curr < EndOf(zs) => SizeIn(zs, r.offset, r.curr + 1) > r.max

ReaderOK(r, segs, zs) ==
  /\ r \in Reader
  /\ r.err = "refused" => ~AdmittedIn(r, zs)
  /\ r.pc = "idle" => r = Idle
  /\ r.pc \in {"segment", "batch", "record"} => r.offset < EndOf(zs)
  /\ r.pc \in {"segment", "batch", "record", "done"} => Collected(r, zs)
  /\ r.pc = "segment" => AtSegment(r, segs, zs)
  /\ r.pc = "batch" => AtBatch(r, segs)
  /\ r.pc = "record" => AtRecord(r, segs)
  /\ r.pc = "done" => Complete(r, zs)

ReadIInv == Layout /\ ReaderOK(reader, segments, sizes)

\* SizeIn is SizeOf, and what it is for one record more.
LEMMA SizeInIs ==
  ASSUME sizes \in Seq(Nat), NEW lo \in Nat, Earliest <= lo, NEW hi \in Nat, lo <= hi, hi <= EndOf(sizes)
  PROVE  SizeIn(sizes, lo, hi) = SizeOf(lo, hi)
<1>1. EndOf(sizes) = LogEnd
  BY DEF EndOf, LogEnd
<1>2. Sized(lo .. hi - 1)
  BY <1>1, LogSized
<1>3. SizeOf(lo, hi) = Cardinality(BytesOf(lo .. hi - 1))
  BY <1>2, SizeCounted, Zenon
<1>4. SizeIn(sizes, lo, hi) = Cardinality(BytesOf(lo .. hi - 1))
  BY Zenon DEF SizeIn, BytesOf, RecordIn, RecordAt
<1> QED
  BY <1>3, <1>4, Zenon

LEMMA SizeInStep ==
  ASSUME sizes \in Seq(Nat), NEW lo \in Nat, Earliest <= lo
  PROVE  /\ lo <= EndOf(sizes) => SizeIn(sizes, lo, lo) = 0
         /\ \A o \in Nat : lo <= o /\ o < EndOf(sizes) =>
              /\ SizeIn(sizes, lo, o) \in Nat /\ RecordIn(sizes, o).size \in Nat
              /\ SizeIn(sizes, lo, o + 1) = SizeIn(sizes, lo, o) + RecordIn(sizes, o).size
<1>1. EndOf(sizes) = LogEnd /\ EndOf(sizes) \in Nat /\ lo <= lo
  BY ReadAssumption DEF EndOf, LogEnd
<1>2. ASSUME lo <= EndOf(sizes) PROVE SizeIn(sizes, lo, lo) = 0
  BY <1>1, <1>2, SizeInIs, SizeStep, Zenon
<1>3. ASSUME NEW o \in Nat, lo <= o, o < EndOf(sizes)
      PROVE  /\ SizeIn(sizes, lo, o) \in Nat /\ RecordIn(sizes, o).size \in Nat
             /\ SizeIn(sizes, lo, o + 1) = SizeIn(sizes, lo, o) + RecordIn(sizes, o).size
  <2>1. o + 1 \in Nat /\ lo <= o + 1 /\ o + 1 <= EndOf(sizes) /\ o <= EndOf(sizes)
    BY <1>1, <1>3
  <2>2. SizeIn(sizes, lo, o) = SizeOf(lo, o) /\ SizeIn(sizes, lo, o + 1) = SizeOf(lo, o + 1)
    BY <1>3, <2>1, SizeInIs, Zenon
  <2>3. RecordIn(sizes, o) = RecordAt(o)
    BY Zenon DEF RecordIn, RecordAt
  <2> QED
    BY <1>1, <1>3, <2>2, <2>3, SizeStep, Zenon
<1> QED
  BY <1>2, <1>3, Zenon

\* The segments and batches of a log, as the reader meets them.
LEMMA SegmentAt ==
  ASSUME Layout, NEW k \in Nat, k < Len(segments)
  PROVE  /\ k + 1 \in 1 .. Len(segments) /\ LaidOut(segments[k + 1], sizes)
         /\ segments[k + 1] \in Segment /\ segments[k + 1].base \in Nat /\ segments[k + 1].next \in Nat
         /\ segments[k + 1].batches \in Seq(Seq(Record)) /\ segments[k + 1].index \in Seq(IndexEntry)
<1>1. segments \in Seq(Segment)
  BY DEF Layout, LayoutOf
<1>2. k + 1 \in 1 .. Len(segments)
  BY <1>1
<1>3. LaidOut(segments[k + 1], sizes)
  BY <1>2, Zenon DEF Layout, LayoutOf
<1> HIDE DEF Layout
<1> QED
  BY <1>2, <1>3 DEF LaidOut, Segment

\* The first segment of a read exists and begins at or before the offset.
LEMMA SegmentForCorrect ==
  ASSUME Layout, NEW o \in Nat, Earliest <= o, o < EndOf(sizes)
  PROVE  /\ SegmentFor(o) \in Nat /\ SegmentFor(o) < Len(segments)
         /\ segments[SegmentFor(o) + 1].base <= o
<1> DEFINE n == Len(segments)
           ends == [i \in 0 .. n - 1 |-> segments[i + 1].next > o]
           k == SegmentFor(o)
<1>1. segments \in Seq(Segment) /\ n \in Nat /\ n > 0 /\ Earliest \in Nat /\ EndOf(sizes) \in Nat
  BY ReadAssumption DEF Layout, LayoutOf, EndOf
<1>2. \A i \in 0 .. n - 1 : i + 1 \in 1 .. n /\ ends[i] = (segments[i + 1].next > o)
  BY <1>1
<1>3. ASSUME NEW i \in 1 .. n PROVE segments[i].next \in Nat /\ segments[i].base \in Nat
  <2>1. segments[i] \in Segment
    BY <1>1
  <2> QED
    BY <2>1 DEF Segment
<1> HIDE DEF ends, n
<1>4. ASSUME NEW a \in 0 .. n - 1, NEW c \in 0 .. n - 1, a <= c, ends[a] PROVE ends[c]
  <2>1. a + 1 \in 1 .. n /\ c + 1 \in 1 .. n /\ a + 1 <= c + 1
    BY <1>1, <1>4
  <2>2. segments[a + 1].next <= segments[c + 1].next
    BY <2>1, Zenon DEF Layout, LayoutOf, n
  <2>3. segments[a + 1].next > o
    BY <1>2, <1>4, Zenon
  <2>4. segments[c + 1].next > o
    BY <1>3, <2>1, <2>2, <2>3
  <2> QED
    BY <1>2, <2>4, Zenon
<1>5. Splits(k, 0, n, ends)
  BY <1>1, <1>4, SearchCorrect, Zenon DEF SegmentFor, ends, n
<1>6. /\ k \in 0 .. n
      /\ \A m \in 0 .. k - 1 : ~ends[m]
  BY <1>5, Zenon DEF Splits
<1> HIDE DEF k
<1>7. k # n
  <2> SUFFICES ASSUME k = n PROVE FALSE
    OBVIOUS
  <2>1. n - 1 \in 0 .. k - 1 /\ n - 1 \in 0 .. n - 1 /\ (n - 1) + 1 = n /\ n \in 1 .. n
    BY <1>1
  <2>2. ~(segments[n].next > o)
    BY <1>2, <1>6, <2>1, Zenon
  <2>3. segments[n].next = EndOf(sizes)
    BY Zenon DEF Layout, LayoutOf, n
  <2> QED
    BY <1>1, <2>2, <2>3
<1>8. k \in Nat /\ k < n
  BY <1>1, <1>6, <1>7
<1>9. segments[k + 1].base <= o
  <2>1. CASE k = 0
    <3>1. k + 1 = 1
      BY <2>1
    <3> QED
      BY <3>1, Zenon DEF Layout, LayoutOf
  <2>2. CASE k # 0
    <3>1. k - 1 \in 0 .. k - 1 /\ k - 1 \in 0 .. n - 1 /\ (k - 1) + 1 = k /\ k \in 1 .. n - 1 /\ k \in 1 .. n
      BY <1>1, <1>8, <2>2
    <3>2. ~(segments[k].next > o)
      BY <1>2, <1>6, <3>1, Zenon
    <3>3. segments[k + 1].base = segments[k].next
      BY <3>1, Zenon DEF Layout, LayoutOf, n
    <3> QED
      BY <1>3, <3>1, <3>2, <3>3
  <2> QED
    BY <2>1, <2>2
<1> QED
  BY <1>8, <1>9 DEF k, n

\* The scan of a segment starts at a batch that begins at or before the offset,
\* or at the first one.
LEMMA ScanFromCorrect ==
  ASSUME NEW seg, NEW zs, LaidOut(seg, zs), NEW o \in Nat, seg.base <= o
  PROVE  /\ ScanFrom(seg, o) \in Nat /\ ScanFrom(seg, o) <= Len(seg.batches)
         /\ From(seg, ScanFrom(seg, o) + 1) <= o
<1> DEFINE n == Len(seg.index)
           after == [j \in 0 .. n - 1 |-> seg.base + seg.index[j + 1].rel > o]
           k == Search(n, after)
<1>1. /\ seg.base \in Nat /\ seg.index \in Seq(IndexEntry) /\ n \in Nat /\ Len(seg.batches) \in Nat
  BY DEF LaidOut, Segment
<1>2. \A j \in 0 .. n - 1 : j + 1 \in 1 .. n /\ after[j] = (seg.base + seg.index[j + 1].rel > o)
  BY <1>1
<1>3. ASSUME NEW j \in 1 .. n PROVE seg.index[j].rel \in Nat /\ seg.index[j].pos \in Nat
  <2>1. seg.index[j] \in IndexEntry
    BY <1>1
  <2> QED
    BY <2>1 DEF IndexEntry
<1>4. ScanFrom(seg, o) = IF k = 0 THEN 0 ELSE seg.index[k].pos
  BY Zenon DEF ScanFrom
<1> HIDE DEF after, n
<1>5. ASSUME NEW a \in 0 .. n - 1, NEW c \in 0 .. n - 1, a <= c, after[a] PROVE after[c]
  <2>1. a + 1 \in 1 .. n /\ c + 1 \in 1 .. n /\ a + 1 <= c + 1
    BY <1>1, <1>5
  <2>2. seg.index[a + 1].rel <= seg.index[c + 1].rel
    BY <2>1, Zenon DEF LaidOut, n
  <2>3. seg.base + seg.index[a + 1].rel > o
    BY <1>2, <1>5, Zenon
  <2>4. seg.index[a + 1].rel \in Nat /\ seg.index[c + 1].rel \in Nat
    BY <1>3, <2>1, Zenon
  <2>5. seg.base + seg.index[c + 1].rel > o
    BY <1>1, <2>2, <2>3, <2>4
  <2> QED
    BY <1>2, <2>5, Zenon
<1>6. Splits(k, 0, n, after)
  BY <1>1, <1>5, SearchCorrect, Zenon
<1>7. k \in 0 .. n /\ \A m \in 0 .. k - 1 : ~after[m]
  BY <1>6, Zenon DEF Splits
<1> HIDE DEF k
<1>8. CASE k = 0
  <2>1. ScanFrom(seg, o) = 0 /\ 0 + 1 = 1
    BY <1>4, <1>8
  <2>2. From(seg, 1) <= o
    BY Zenon DEF LaidOut
  <2> QED
    BY <1>1, <2>1, <2>2
<1>9. CASE k # 0
  <2>1. k \in 1 .. n /\ k - 1 \in 0 .. k - 1 /\ k - 1 \in 0 .. n - 1 /\ (k - 1) + 1 = k
    BY <1>1, <1>7, <1>9
  <2>2. ~(seg.base + seg.index[k].rel > o)
    BY <1>2, <1>7, <2>1, Zenon
  <2>3. EntryOK(seg, k) /\ seg.index[k].rel \in Nat /\ seg.index[k].pos \in Nat
    BY <1>3, <2>1, Zenon DEF LaidOut, n
  <2>4. ScanFrom(seg, o) = seg.index[k].pos
    BY <1>4, <1>9, Zenon
  <2>5. seg.index[k].pos < Len(seg.batches) /\ From(seg, seg.index[k].pos + 1) = seg.base + seg.index[k].rel
    BY <2>3, Zenon DEF EntryOK
  <2>6. seg.index[k].pos <= Len(seg.batches) /\ seg.base + seg.index[k].rel <= o
    BY <1>1, <2>2, <2>3, <2>5
  <2> QED
    BY <2>3, <2>4, <2>5, <2>6, Zenon
<1> QED
  BY <1>8, <1>9, Zenon
-----------------------------------------------------------------------------
(***************************************************************************)
(* The steps of Read.  Each leaves the log alone, so that it is enough to  *)
(* show that the new state of the call is a good one.                      *)
(***************************************************************************)
LEMMA ReaderStep ==
  ASSUME NEW r, ReadIInv, ReaderTo(r), ReaderOK(r, segments, sizes)
  PROVE  ReadIInv'
BY DEF ReadIInv, ReaderTo, Layout

LEMMA StartOK ==
  ASSUME ReadIInv, NEW offset \in Nat, NEW max \in 0 .. MaxBytes, StartRead(offset, max)
  PROVE  ReadIInv'
<1> DEFINE call == [Idle EXCEPT !.offset = offset, !.max = max, !.curr = offset]
           first == SegmentFor(offset)
           refused == [call EXCEPT !.pc = "failed", !.err = "refused"]
           empty == [call EXCEPT !.pc = "done"]
           begun == [call EXCEPT !.pc = "segment", !.seg = first]
           end == EndOf(sizes)
<1>1. max \in Nat /\ LogEnd = end /\ end \in Nat /\ sizes \in Seq(Nat) /\ Earliest \in Nat
  BY ReadAssumption DEF ReadIInv, Layout, LayoutOf, LogEnd, EndOf
<1>2. call \in Reader
  <2>1. <<>> \in Seq(Record)
    OBVIOUS
  <2>2. Idle \in Reader
    BY <2>1 DEF Idle, Reader
  <2> QED
    BY <1>1, <2>2, Zenon DEF Reader
<1>3. refused \in Reader /\ empty \in Reader
  BY <1>2, Zenon DEF Reader
<1>4. ASSUME ~Admitted(offset, max) PROVE ReaderOK(refused, segments, sizes)
  <2>1. refused.pc = "failed" /\ refused.offset = offset /\ refused.max = max
    BY DEF Idle
  <2>2. ~AdmittedIn(refused, sizes)
    BY <1>1, <1>4, <2>1, Zenon DEF Admitted, AdmittedIn
  <2> HIDE DEF refused
  <2> QED
    BY <1>3, <2>1, <2>2 DEF ReaderOK
<1>5. ASSUME Admitted(offset, max), NEW r \in Reader, r.offset = offset, r.max = max, r.curr = offset,
             r.recs = <<>>, r.bytes = 0
      PROVE  Collected(r, sizes)
  <2>1. Earliest <= offset /\ offset <= end /\ max > 0
    BY <1>1, <1>5 DEF Admitted
  <2>2. SizeIn(sizes, offset, offset) = 0
    BY <1>1, <2>1, SizeInStep, Zenon
  <2>3. AdmittedIn(r, sizes)
    BY <1>5, <2>1, Zenon DEF AdmittedIn
  <2>4. Len(r.recs) = 0 /\ r.curr = r.offset + Len(r.recs) /\ ~(Len(r.recs) > 1) /\ 1 .. Len(r.recs) = {}
    BY <1>5
  <2> QED
    BY <1>5, <2>1, <2>2, <2>3, <2>4, Zenon DEF Collected
<1>6. ASSUME Admitted(offset, max), offset = LogEnd PROVE ReaderOK(empty, segments, sizes)
  <2>1. /\ empty.pc = "done" /\ empty.offset = offset /\ empty.max = max /\ empty.curr = offset
        /\ empty.recs = <<>> /\ empty.bytes = 0 /\ empty.err = "none"
    BY DEF Idle
  <2> HIDE DEF empty
  <2>2. Collected(empty, sizes)
    BY <1>3, <1>5, <1>6, <2>1, Zenon
  <2>3. ~(offset < end)
    BY <1>1, <1>6
  <2>4. Complete(empty, sizes)
    BY <2>1, <2>3, Zenon DEF Complete
  <2> QED
    BY <1>3, <2>1, <2>2, <2>4 DEF ReaderOK
<1>7. ASSUME Admitted(offset, max), offset # LogEnd
      PROVE  ~(first >= Len(segments)) /\ ReaderOK(begun, segments, sizes)
  <2>1. Earliest <= offset /\ offset < end
    BY <1>1, <1>7 DEF Admitted
  <2>2. first \in Nat /\ first < Len(segments) /\ segments[first + 1].base <= offset
    BY <2>1, SegmentForCorrect, Zenon DEF ReadIInv
  <2> HIDE DEF first
  <2>3. begun \in Reader
    BY <1>2, <2>2, Zenon DEF Reader
  <2>4. /\ begun.pc = "segment" /\ begun.offset = offset /\ begun.max = max /\ begun.curr = offset
        /\ begun.recs = <<>> /\ begun.bytes = 0 /\ begun.err = "none" /\ begun.seg = first
    BY DEF Idle
  <2> HIDE DEF begun
  <2>5. Collected(begun, sizes)
    BY <1>5, <1>7, <2>3, <2>4, Zenon
  <2>6. Len(segments) \in Nat
    BY DEF ReadIInv, Layout, LayoutOf
  <2>7. first <= Len(segments) /\ first # Len(segments) /\ ~(first >= Len(segments))
    BY <2>2, <2>6
  <2>8. AtSegment(begun, segments, sizes)
    BY <2>2, <2>4, <2>7, Zenon DEF AtSegment
  <2> QED
    BY <2>1, <2>3, <2>4, <2>5, <2>7, <2>8 DEF ReaderOK
<1>8. UNCHANGED <<segments, sizes>>
  BY DEF StartRead
<1>9. ASSUME NEW r, reader' = r, ReaderOK(r, segments, sizes) PROVE ReadIInv'
  BY <1>8, <1>9, ReaderStep, Zenon DEF ReaderTo
<1>10. \/ ~Admitted(offset, max) /\ reader' = refused
       \/ Admitted(offset, max) /\ offset = LogEnd /\ reader' = empty
       \/ Admitted(offset, max) /\ offset # LogEnd /\ reader' = IF first >= Len(segments) THEN refused ELSE begun
  BY Zenon DEF StartRead
<1> HIDE DEF refused, empty, begun, first
<1> QED
  BY <1>4, <1>6, <1>7, <1>9, <1>10, Zenon

\* A step that moves the scan and collects nothing.
LEMMA SameCollected ==
  ASSUME NEW r, NEW s, NEW zs, Collected(r, zs), s.offset = r.offset, s.max = r.max, s.curr = r.curr,
         s.recs = r.recs, s.bytes = r.bytes
  PROVE  Collected(s, zs)
BY Zenon DEF Collected, AdmittedIn

\* What the invariant says of a call in one of the loops.
LEMMA Scanning ==
  ASSUME ReadIInv, reader.pc \in {"segment", "batch", "record"}
  PROVE  /\ reader \in Reader /\ Collected(reader, sizes) /\ reader.offset < EndOf(sizes)
         /\ reader.err = "refused" => ~AdmittedIn(reader, sizes)
         /\ reader.offset \in Nat /\ reader.max \in Nat /\ reader.seg \in Nat /\ reader.pos \in Nat
         /\ reader.rec \in Nat /\ reader.curr \in Nat /\ reader.recs \in Seq(Record) /\ reader.bytes \in Nat
         /\ reader.pc = "segment" => AtSegment(reader, segments, sizes)
         /\ reader.pc = "batch" => AtBatch(reader, segments)
         /\ reader.pc = "record" => AtRecord(reader, segments)
<1>1. ReaderOK(reader, segments, sizes)
  BY DEF ReadIInv
<1>2. reader \in Reader
  BY <1>1 DEF ReaderOK
<1>3. /\ Collected(reader, sizes) /\ reader.offset < EndOf(sizes)
      /\ reader.err = "refused" => ~AdmittedIn(reader, sizes)
      /\ reader.pc = "segment" => AtSegment(reader, segments, sizes)
      /\ reader.pc = "batch" => AtBatch(reader, segments)
      /\ reader.pc = "record" => AtRecord(reader, segments)
  BY <1>1 DEF ReaderOK
<1> QED
  BY <1>2, <1>3 DEF Reader

LEMMA EnterSegmentOK ==
  ASSUME ReadIInv, EnterSegment
  PROVE  ReadIInv'
<1> DEFINE seg == segments[reader.seg + 1]
           p == ScanFrom(seg, reader.curr)
           r == [reader EXCEPT !.pc = "batch", !.pos = p]
<1>1. reader.pc = "segment" /\ reader.seg < Len(segments) /\ ReaderTo(r)
  BY DEF EnterSegment
<1>2. /\ reader \in Reader /\ Collected(reader, sizes) /\ reader.offset < EndOf(sizes)
      /\ reader.err = "refused" => ~AdmittedIn(reader, sizes)
      /\ reader.seg \in Nat /\ reader.curr \in Nat /\ AtSegment(reader, segments, sizes)
  BY <1>1, Scanning
<1>3. LaidOut(seg, sizes) /\ seg.base <= reader.curr
  BY <1>1, <1>2, SegmentAt, Zenon DEF AtSegment, ReadIInv
<1>4. p \in Nat /\ p <= Len(seg.batches) /\ From(seg, p + 1) <= reader.curr
  BY <1>2, <1>3, ScanFromCorrect, Zenon
<1> HIDE DEF p
<1>5. /\ r \in Reader /\ r.pc = "batch" /\ r.offset = reader.offset /\ r.max = reader.max
      /\ r.curr = reader.curr /\ r.recs = reader.recs /\ r.bytes = reader.bytes
      /\ r.err = reader.err /\ r.seg = reader.seg /\ r.pos = p
  BY <1>2, <1>4, Zenon DEF Reader
<1> HIDE DEF r
<1>6. Collected(r, sizes) /\ (r.err = "refused" => ~AdmittedIn(r, sizes))
  BY <1>2, <1>5, SameCollected, Zenon DEF AdmittedIn
<1>7. AtBatch(r, segments)
  BY <1>1, <1>4, <1>5, Zenon DEF AtBatch
<1>8. ReaderOK(r, segments, sizes)
  BY <1>2, <1>5, <1>6, <1>7 DEF ReaderOK
<1> QED
  BY <1>1, <1>8, ReaderStep, Zenon

LEMMA EndOfLogOK ==
  ASSUME ReadIInv, EndOfLog
  PROVE  ReadIInv'
<1> DEFINE r == [reader EXCEPT !.pc = "done"]
<1>1. reader.pc = "segment" /\ reader.seg >= Len(segments) /\ ReaderTo(r)
  BY DEF EndOfLog
<1>2. /\ reader \in Reader /\ Collected(reader, sizes) /\ reader.offset < EndOf(sizes)
      /\ reader.err = "refused" => ~AdmittedIn(reader, sizes)
      /\ reader.seg \in Nat /\ reader.curr \in Nat /\ AtSegment(reader, segments, sizes)
      /\ reader.offset \in Nat
  BY <1>1, Scanning
<1>3. Len(segments) \in Nat /\ EndOf(sizes) \in Nat
  BY ReadAssumption DEF ReadIInv, Layout, LayoutOf, EndOf
<1>4. reader.seg = Len(segments)
  BY <1>1, <1>2, <1>3 DEF AtSegment
<1>5. reader.curr = EndOf(sizes)
  BY <1>2, <1>4, Zenon DEF AtSegment
<1>6. /\ r \in Reader /\ r.pc = "done" /\ r.offset = reader.offset /\ r.max = reader.max
      /\ r.curr = reader.curr /\ r.recs = reader.recs /\ r.bytes = reader.bytes /\ r.err = reader.err
  BY <1>2 DEF Reader
<1> HIDE DEF r
<1>7. Collected(r, sizes) /\ (r.err = "refused" => ~AdmittedIn(r, sizes))
  BY <1>2, <1>6, SameCollected, Zenon DEF AdmittedIn
<1>8. reader.curr = reader.offset + Len(reader.recs)
  BY <1>2 DEF Collected
<1>9. reader.recs # <<>> /\ ~(reader.curr < EndOf(sizes))
  BY <1>2, <1>3, <1>5, <1>8
<1>10. Complete(r, sizes)
  BY <1>6, <1>9, Zenon DEF Complete
<1>11. ReaderOK(r, segments, sizes)
  BY <1>6, <1>7, <1>10 DEF ReaderOK
<1> QED
  BY <1>1, <1>11, ReaderStep, Zenon

LEMMA EnterBatchOK ==
  ASSUME ReadIInv, EnterBatch
  PROVE  ReadIInv'
<1> DEFINE r == [reader EXCEPT !.pc = "record", !.rec = 0]
           seg == segments[reader.seg + 1]
<1>1. reader.pc = "batch" /\ reader.pos < Len(seg.batches) /\ ReaderTo(r)
  BY DEF EnterBatch, Batches
<1>2. /\ reader \in Reader /\ Collected(reader, sizes) /\ reader.offset < EndOf(sizes)
      /\ reader.err = "refused" => ~AdmittedIn(reader, sizes)
      /\ reader.seg \in Nat /\ reader.pos \in Nat /\ reader.curr \in Nat /\ AtBatch(reader, segments)
  BY <1>1, Scanning
<1>3. reader.seg < Len(segments) /\ From(seg, reader.pos + 1) <= reader.curr
  BY <1>2, Zenon DEF AtBatch
<1>4. LaidOut(seg, sizes) /\ seg.batches \in Seq(Seq(Record))
  BY <1>2, <1>3, SegmentAt, Zenon DEF ReadIInv
<1> HIDE DEF seg
<1>5. reader.pos + 1 \in 1 .. Len(seg.batches) /\ reader.pos + 1 \in 1 .. Len(seg.batches) + 1
  BY <1>1, <1>2, <1>4
<1>6. From(seg, reader.pos + 1) \in Nat
  BY <1>4, <1>5, BeginsNat, Zenon
<1>7. 0 <= Len(seg.batches[reader.pos + 1]) /\ From(seg, reader.pos + 1) + 0 <= reader.curr
  BY <1>3, <1>4, <1>5, <1>6
<1>8. /\ r \in Reader /\ r.pc = "record" /\ r.offset = reader.offset /\ r.max = reader.max
      /\ r.curr = reader.curr /\ r.recs = reader.recs /\ r.bytes = reader.bytes
      /\ r.err = reader.err /\ r.seg = reader.seg /\ r.pos = reader.pos /\ r.rec = 0
  BY <1>2, Zenon DEF Reader
<1> HIDE DEF r
<1>9. Collected(r, sizes) /\ (r.err = "refused" => ~AdmittedIn(r, sizes))
  BY <1>2, <1>8, SameCollected, Zenon DEF AdmittedIn
<1>10. AtRecord(r, segments)
  BY <1>1, <1>3, <1>7, <1>8, Zenon DEF AtRecord, seg
<1>11. ReaderOK(r, segments, sizes)
  BY <1>2, <1>8, <1>9, <1>10 DEF ReaderOK
<1> QED
  BY <1>1, <1>11, ReaderStep, Zenon

LEMMA BatchUnreadableOK ==
  ASSUME ReadIInv, BatchUnreadable
  PROVE  ReadIInv'
<1> DEFINE r == [reader EXCEPT !.pc = "failed", !.err = "read"]
<1>1. reader.pc = "batch" /\ ReaderTo(r)
  BY DEF BatchUnreadable
<1>2. reader \in Reader
  BY <1>1, Scanning
<1>3. r \in Reader /\ r.pc = "failed" /\ r.err = "read"
  BY <1>2, Zenon DEF Reader
<1> HIDE DEF r
<1>4. ReaderOK(r, segments, sizes)
  BY <1>3 DEF ReaderOK
<1> QED
  BY <1>1, <1>4, ReaderStep, Zenon

LEMMA LeaveSegmentOK ==
  ASSUME ReadIInv, LeaveSegment
  PROVE  ReadIInv'
<1> DEFINE k == reader.seg + 1
           r == [reader EXCEPT !.pc = "segment", !.seg = k]
           seg == segments[reader.seg + 1]
           n == Len(segments)
<1>1. reader.pc = "batch" /\ reader.pos >= Len(seg.batches) /\ ReaderTo(r)
  BY DEF LeaveSegment, Batches
<1>2. /\ reader \in Reader /\ Collected(reader, sizes) /\ reader.offset < EndOf(sizes)
      /\ reader.err = "refused" => ~AdmittedIn(reader, sizes)
      /\ reader.seg \in Nat /\ reader.pos \in Nat /\ reader.curr \in Nat /\ AtBatch(reader, segments)
  BY <1>1, Scanning
<1>3. /\ reader.seg < n /\ From(seg, reader.pos + 1) <= reader.curr
      /\ reader.pos <= Len(seg.batches)
  BY <1>2, Zenon DEF AtBatch
<1>4. seg.batches \in Seq(Seq(Record)) /\ seg.next \in Nat
  BY <1>2, <1>3, SegmentAt, Zenon DEF ReadIInv
<1>5. ~(reader.pos + 1 <= Len(seg.batches))
  BY <1>1, <1>2, <1>3, <1>4
<1>6. seg.next <= reader.curr
  BY <1>3, <1>5, Zenon DEF From
<1>7. n \in Nat /\ EndOf(sizes) \in Nat /\ reader.curr <= EndOf(sizes)
  BY <1>2, ReadAssumption DEF ReadIInv, Layout, LayoutOf, EndOf, Collected
<1>8. k \in Nat /\ k <= n /\ k \in 1 .. n
  BY <1>2, <1>3, <1>7
<1>9. ASSUME k < n PROVE segments[k + 1].base <= reader.curr
  <2>1. k \in 1 .. n - 1
    BY <1>7, <1>8, <1>9
  <2>2. segments[k + 1].base = segments[k].next
    BY <2>1, Zenon DEF ReadIInv, Layout, LayoutOf
  <2> QED
    BY <1>6, <2>2, Zenon
<1>10. ASSUME k = n PROVE reader.curr = EndOf(sizes)
  <2>1. segments[k].next = EndOf(sizes)
    BY <1>10, Zenon DEF ReadIInv, Layout, LayoutOf
  <2> QED
    BY <1>2, <1>6, <1>7, <2>1
<1> HIDE DEF k, n
<1>11. /\ r \in Reader /\ r.pc = "segment" /\ r.offset = reader.offset /\ r.max = reader.max
       /\ r.curr = reader.curr /\ r.recs = reader.recs /\ r.bytes = reader.bytes
       /\ r.err = reader.err /\ r.seg = k
  BY <1>2, <1>8, Zenon DEF Reader
<1> HIDE DEF r
<1>12. Collected(r, sizes) /\ (r.err = "refused" => ~AdmittedIn(r, sizes))
  BY <1>2, <1>11, SameCollected, Zenon DEF AdmittedIn
<1>13. AtSegment(r, segments, sizes)
  BY <1>8, <1>9, <1>10, <1>11, Zenon DEF AtSegment, n
<1>14. ReaderOK(r, segments, sizes)
  BY <1>2, <1>11, <1>12, <1>13 DEF ReaderOK
<1> QED
  BY <1>1, <1>14, ReaderStep, Zenon

\* The batch that a call scans, and where it lies.
LEMMA ScannedBatch ==
  ASSUME ReadIInv, reader.pc = "record"
  PROVE  LET seg == segments[reader.seg + 1]
             first == From(seg, reader.pos + 1)
         IN  /\ reader.seg < Len(segments) /\ reader.pos < Len(seg.batches)
             /\ (reader.pos + 1) + 1 \in 1 .. Len(seg.batches) + 1
             /\ first \in Nat /\ Earliest <= first /\ first + reader.rec <= reader.curr
             /\ Scanned = seg.batches[reader.pos + 1] /\ Scanned \in Seq(Record)
             /\ reader.rec <= Len(Scanned) /\ first + Len(Scanned) <= EndOf(sizes)
             /\ first + Len(Scanned) = From(seg, (reader.pos + 1) + 1)
             /\ \A j \in 1 .. Len(Scanned) : Scanned[j] = RecordIn(sizes, first + (j - 1))
<1> DEFINE seg == segments[reader.seg + 1]
           q == reader.pos + 1
           first == From(seg, q)
           b == seg.batches[q]
<1>1. /\ reader.seg \in Nat /\ reader.pos \in Nat /\ reader.curr \in Nat /\ reader.rec \in Nat
      /\ AtRecord(reader, segments)
  BY Scanning
<1>2. /\ reader.seg < Len(segments) /\ reader.pos < Len(seg.batches)
      /\ reader.rec <= Len(b) /\ first + reader.rec <= reader.curr
  BY <1>1, Zenon DEF AtRecord
<1>3. LaidOut(seg, sizes) /\ seg.batches \in Seq(Seq(Record)) /\ seg.base \in Nat /\ seg.next \in Nat
  BY <1>1, <1>2, SegmentAt, Zenon DEF ReadIInv
<1>4. Scanned = b
  BY Zenon DEF Scanned, Batches
<1> HIDE DEF seg
<1>5. /\ q \in 1 .. Len(seg.batches) /\ q \in 1 .. Len(seg.batches) + 1
      /\ q + 1 \in 1 .. Len(seg.batches) + 1
  <2>1. Len(seg.batches) \in Nat
    BY <1>3
  <2> QED
    BY <1>1, <1>2, <2>1
<1>6. first \in Nat /\ From(seg, q + 1) \in Nat
  BY <1>3, <1>5, BeginsNat, Zenon
<1>7. BatchOK(seg, sizes, q) /\ Earliest <= seg.base /\ seg.next <= EndOf(sizes)
  BY <1>3, <1>5, Zenon DEF LaidOut
<1>8. /\ first + Len(b) = From(seg, q + 1) /\ seg.base <= first /\ From(seg, q + 1) <= seg.next
      /\ \A j \in 1 .. Len(b) : b[j] = RecordIn(sizes, first + (j - 1))
  BY <1>7, Zenon DEF BatchOK
<1>9. b \in Seq(Record)
  BY <1>3, <1>5
<1> HIDE DEF q, first, b
<1>10. EndOf(sizes) \in Nat /\ Earliest \in Nat
  BY ReadAssumption DEF ReadIInv, Layout, LayoutOf, EndOf
<1>11. Earliest <= first /\ first + Len(b) <= EndOf(sizes)
  BY <1>3, <1>6, <1>7, <1>8, <1>10
<1> QED
  BY <1>2, <1>4, <1>5, <1>6, <1>8, <1>9, <1>11, Zenon DEF q, first, b, seg

LEMMA LeaveBatchOK ==
  ASSUME ReadIInv, LeaveBatch
  PROVE  ReadIInv'
<1> DEFINE q == reader.pos + 1
           r == [reader EXCEPT !.pc = "batch", !.pos = q]
           seg == segments[reader.seg + 1]
           first == From(seg, reader.pos + 1)
<1>1. reader.pc = "record" /\ reader.rec >= Len(Scanned) /\ ReaderTo(r)
  BY DEF LeaveBatch
<1>2. /\ reader \in Reader /\ Collected(reader, sizes) /\ reader.offset < EndOf(sizes)
      /\ reader.err = "refused" => ~AdmittedIn(reader, sizes)
      /\ reader.seg \in Nat /\ reader.pos \in Nat /\ reader.curr \in Nat /\ reader.rec \in Nat
  BY <1>1, Scanning
<1>3. /\ reader.seg < Len(segments) /\ reader.pos < Len(seg.batches)
      /\ (reader.pos + 1) + 1 \in 1 .. Len(seg.batches) + 1
      /\ first \in Nat /\ first + reader.rec <= reader.curr /\ Scanned \in Seq(Record)
      /\ reader.rec <= Len(Scanned) /\ first + Len(Scanned) = From(seg, (reader.pos + 1) + 1)
  BY <1>1, ScannedBatch, Zenon
<1>4. /\ r \in Reader /\ r.pc = "batch" /\ r.offset = reader.offset /\ r.max = reader.max
      /\ r.curr = reader.curr /\ r.recs = reader.recs /\ r.bytes = reader.bytes
      /\ r.err = reader.err /\ r.seg = reader.seg /\ r.pos = q
  <2>1. q \in Nat
    BY <1>2
  <2> HIDE DEF q
  <2> QED
    BY <1>2, <2>1, Zenon DEF Reader
<1> HIDE DEF r, seg, first
<1>5. From(seg, (reader.pos + 1) + 1) <= reader.curr
  BY <1>1, <1>2, <1>3
<1>6. Len(seg.batches) \in Nat
  <2>1. seg.batches \in Seq(Seq(Record))
    BY <1>2, <1>3, SegmentAt, Zenon DEF ReadIInv, seg
  <2> QED
    BY <2>1
<1>7. reader.pos + 1 <= Len(seg.batches)
  BY <1>2, <1>3, <1>6
<1>8. Collected(r, sizes) /\ (r.err = "refused" => ~AdmittedIn(r, sizes))
  BY <1>2, <1>4, SameCollected, Zenon DEF AdmittedIn
<1>9. AtBatch(r, segments)
  BY <1>3, <1>4, <1>5, <1>7, Zenon DEF AtBatch, seg
<1>10. ReaderOK(r, segments, sizes)
  BY <1>2, <1>4, <1>8, <1>9 DEF ReaderOK
<1> QED
  BY <1>1, <1>10, ReaderStep, Zenon

\* The record that a call looks at: it lies at or before the wanted one.
LEMMA ScannedRecord ==
  ASSUME ReadIInv, reader.pc = "record", reader.rec < Len(Scanned)
  PROVE  LET first == From(segments[reader.seg + 1], reader.pos + 1)
             x == Scanned[reader.rec + 1]
         IN  /\ x = RecordIn(sizes, first + reader.rec) /\ x \in Record
             /\ x.offset = first + reader.rec /\ x.offset < EndOf(sizes) /\ x.offset <= reader.curr
<1> DEFINE first == From(segments[reader.seg + 1], reader.pos + 1)
           k == reader.rec
           x == Scanned[k + 1]
<1>1. k \in Nat /\ reader.curr \in Nat
  BY Scanning
<1>2. /\ first \in Nat /\ first + k <= reader.curr /\ Scanned \in Seq(Record)
      /\ first + Len(Scanned) <= EndOf(sizes)
      /\ \A j \in 1 .. Len(Scanned) : Scanned[j] = RecordIn(sizes, first + (j - 1))
  BY ScannedBatch, Zenon
<1> HIDE DEF first, k
<1>3. k + 1 \in 1 .. Len(Scanned) /\ (k + 1) - 1 = k
  BY <1>1, <1>2 DEF k
<1>4. x = RecordIn(sizes, first + k)
  BY <1>2, <1>3, Zenon
<1>5. x \in Record
  BY <1>2, <1>3
<1>6. x.offset = first + k
  BY <1>4 DEF RecordIn
<1>7. EndOf(sizes) \in Nat
  BY ReadAssumption DEF ReadIInv, Layout, LayoutOf, EndOf
<1>8. first + k < EndOf(sizes)
  BY <1>1, <1>2, <1>7 DEF k
<1> QED
  BY <1>2, <1>4, <1>5, <1>6, <1>8, Zenon DEF first, k

LEMMA ScanRecordOK ==
  ASSUME ReadIInv, ScanRecord
  PROVE  ReadIInv'
<1> DEFINE seg == segments[reader.seg + 1]
           first == From(seg, reader.pos + 1)
           k == reader.rec + 1
           x == Scanned[k]
           end == EndOf(sizes)
           skipped == [reader EXCEPT !.rec = k]
           full == [reader EXCEPT !.pc = "done"]
           taken == [reader EXCEPT !.rec = k, !.recs = Append(reader.recs, x),
                                   !.bytes = reader.bytes + x.size, !.curr = x.offset + 1]
<1>1. /\ reader.pc = "record" /\ reader.rec < Len(Scanned)
      /\ \/ x.offset < reader.curr /\ ReaderTo(skipped)
         \/ x.offset >= reader.curr /\ Exceeds(x) /\ ReaderTo(full)
         \/ x.offset >= reader.curr /\ ~Exceeds(x) /\ ReaderTo(taken)
  BY DEF ScanRecord
<1>2. /\ reader \in Reader /\ Collected(reader, sizes) /\ reader.offset < end
      /\ reader.err = "refused" => ~AdmittedIn(reader, sizes)
      /\ reader.seg \in Nat /\ reader.pos \in Nat /\ reader.curr \in Nat /\ reader.rec \in Nat
      /\ reader.offset \in Nat /\ reader.max \in Nat /\ reader.recs \in Seq(Record) /\ reader.bytes \in Nat
  BY <1>1, Scanning
<1>3. /\ reader.seg < Len(segments) /\ reader.pos < Len(seg.batches)
      /\ first \in Nat /\ Scanned = seg.batches[reader.pos + 1] /\ Scanned \in Seq(Record)
  BY <1>1, ScannedBatch, Zenon
<1>4. /\ x = RecordIn(sizes, first + reader.rec) /\ x \in Record
      /\ x.offset = first + reader.rec /\ x.offset < end /\ x.offset <= reader.curr
  BY <1>1, ScannedRecord, Zenon
<1>5. x.offset \in Nat /\ x.size \in Nat
  BY <1>4 DEF Record
<1>6. sizes \in Seq(Nat) /\ end \in Nat
  BY ReadAssumption DEF ReadIInv, Layout, LayoutOf, EndOf
<1>7. /\ Earliest <= reader.offset /\ reader.curr = reader.offset + Len(reader.recs)
      /\ reader.max > 0 /\ reader.offset <= end
      /\ reader.bytes = SizeIn(sizes, reader.offset, reader.curr)
      /\ \A i \in 1 .. Len(reader.recs) : reader.recs[i] = RecordIn(sizes, reader.offset + (i - 1))
  BY <1>2, Zenon DEF Collected, AdmittedIn
<1>8. k \in Nat /\ k <= Len(Scanned) /\ reader.offset <= reader.curr /\ first + k = x.offset + 1
  <2> DEFINE n == Len(reader.recs)
             m == Len(Scanned)
  <2>1. n \in Nat /\ m \in Nat
    <3>1. Scanned \in Seq(Record) /\ reader.recs \in Seq(Record)
      BY <1>2, <1>3, Zenon
    <3> QED
      BY <3>1
  <2> HIDE DEF x, first
  <2>2. reader.rec < m /\ reader.curr = reader.offset + n
    BY <1>1, <1>7
  <2> HIDE DEF n, m
  <2>3. k \in Nat /\ k <= m /\ reader.offset <= reader.curr
    BY <1>2, <2>1, <2>2
  <2>4. first + k = x.offset + 1
    BY <1>2, <1>3, <1>4
  <2> QED
    BY <2>3, <2>4 DEF m
<1> HIDE DEF x, seg, first, k, end
<1>9. ASSUME NEW r \in Reader, r.pc = "record", r.seg = reader.seg, r.pos = reader.pos, r.rec = k,
             x.offset + 1 <= r.curr
      PROVE  AtRecord(r, segments)
  BY <1>3, <1>8, <1>9, Zenon DEF AtRecord, seg, first
<1>10. CASE x.offset < reader.curr /\ ReaderTo(skipped)
  <2>1. /\ skipped \in Reader /\ skipped.pc = "record" /\ skipped.offset = reader.offset
        /\ skipped.max = reader.max /\ skipped.curr = reader.curr /\ skipped.recs = reader.recs
        /\ skipped.bytes = reader.bytes /\ skipped.err = reader.err /\ skipped.seg = reader.seg
        /\ skipped.pos = reader.pos /\ skipped.rec = k
    BY <1>1, <1>2, <1>8 DEF Reader
  <2> HIDE DEF skipped
  <2>2. x.offset + 1 <= reader.curr
    BY <1>2, <1>5, <1>10
  <2>3. AtRecord(skipped, segments)
    BY <1>9, <2>1, <2>2, Zenon
  <2>4. Collected(skipped, sizes) /\ (skipped.err = "refused" => ~AdmittedIn(skipped, sizes))
    BY <1>2, <2>1, SameCollected, Zenon DEF AdmittedIn
  <2>5. ReaderOK(skipped, segments, sizes)
    BY <1>2, <2>1, <2>3, <2>4 DEF ReaderOK, end
  <2> QED
    BY <1>10, <2>5, ReaderStep, Zenon
<1>11. ASSUME x.offset >= reader.curr
       PROVE  /\ x.offset = reader.curr /\ reader.curr < end /\ x = RecordIn(sizes, reader.curr)
              /\ SizeIn(sizes, reader.offset, reader.curr + 1) = reader.bytes + x.size
  <2>1. x.offset = reader.curr /\ reader.curr < end
    BY <1>2, <1>4, <1>5, <1>11
  <2>2. x = RecordIn(sizes, reader.curr)
    BY <1>4, <2>1, Zenon DEF first, seg
  <2>3. SizeIn(sizes, reader.offset, reader.curr + 1)
          = SizeIn(sizes, reader.offset, reader.curr) + RecordIn(sizes, reader.curr).size
    BY <1>2, <1>6, <1>7, <1>8, <2>1, SizeInStep, Zenon DEF end
  <2> QED
    BY <1>7, <2>1, <2>2, <2>3, Zenon
<1>12. CASE x.offset >= reader.curr /\ Exceeds(x) /\ ReaderTo(full)
  <2>1. /\ full \in Reader /\ full.pc = "done" /\ full.offset = reader.offset
        /\ full.max = reader.max /\ full.curr = reader.curr /\ full.recs = reader.recs
        /\ full.bytes = reader.bytes /\ full.err = reader.err
    BY <1>2 DEF Reader
  <2> HIDE DEF full
  <2>2. Collected(full, sizes) /\ (full.err = "refused" => ~AdmittedIn(full, sizes))
    BY <1>2, <2>1, SameCollected, Zenon DEF AdmittedIn
  <2>3. reader.recs # <<>> /\ SizeIn(sizes, reader.offset, reader.curr + 1) > reader.max
    BY <1>11, <1>12, Zenon DEF Exceeds
  <2>4. Complete(full, sizes)
    BY <2>1, <2>3, Zenon DEF Complete
  <2>5. ReaderOK(full, segments, sizes)
    BY <2>1, <2>2, <2>4 DEF ReaderOK
  <2> QED
    BY <1>12, <2>5, ReaderStep, Zenon
<1>13. CASE x.offset >= reader.curr /\ ~Exceeds(x) /\ ReaderTo(taken)
  <2> DEFINE n == Len(reader.recs)
             more == Append(reader.recs, x)
             sum == reader.bytes + x.size
             c == x.offset + 1
  <2>1. /\ n \in Nat /\ more \in Seq(Record) /\ Len(more) = n + 1 /\ more[n + 1] = x
        /\ \A i \in 1 .. n : more[i] = reader.recs[i]
    BY <1>2, <1>4
  <2>2. sum \in Nat /\ c \in Nat
    BY <1>2, <1>5
  <2> HIDE DEF more, sum, c
  <2>3. /\ taken \in Reader /\ taken.pc = "record" /\ taken.offset = reader.offset
        /\ taken.max = reader.max /\ taken.curr = c /\ taken.recs = more
        /\ taken.bytes = sum /\ taken.err = reader.err /\ taken.seg = reader.seg
        /\ taken.pos = reader.pos /\ taken.rec = k
    <3>1. taken = [reader EXCEPT !.rec = k, !.recs = more, !.bytes = sum, !.curr = c]
      BY Zenon DEF more, sum, c
    <3> HIDE DEF taken
    <3> QED
      BY <1>1, <1>2, <1>8, <2>1, <2>2, <3>1, Zenon DEF Reader
  <2> HIDE DEF taken
  <2>4. /\ x.offset = reader.curr /\ reader.curr < end /\ x = RecordIn(sizes, reader.curr)
        /\ SizeIn(sizes, reader.offset, reader.curr + 1) = sum
    BY <1>11, <1>13, Zenon DEF sum
  <2>5. c = reader.curr + 1
    BY <2>4, Zenon DEF c
  <2>6. c = reader.offset + Len(more) /\ c <= end /\ c <= c
    <3>1. reader.curr = reader.offset + n /\ n \in Nat /\ Len(more) = n + 1
      BY <1>7, <2>1, Zenon
    <3> HIDE DEF n
    <3> QED
      BY <1>2, <1>6, <2>4, <2>5, <3>1
  <2>7. AtRecord(taken, segments)
    BY <1>9, <2>3, <2>6, Zenon DEF c
  <2>8. ASSUME NEW i \in 1 .. Len(more) PROVE more[i] = RecordIn(sizes, reader.offset + (i - 1))
    <3>1. CASE i \in 1 .. n
      BY <1>7, <2>1, <3>1, Zenon
    <3>2. CASE i = n + 1
      <4>1. reader.offset + (i - 1) = reader.curr
        BY <1>2, <1>7, <2>1, <3>2
      <4> QED
        BY <2>1, <2>4, <3>2, <4>1, Zenon
    <3> QED
      BY <2>1, <3>1, <3>2
  <2>9. Len(more) > 1 => sum <= reader.max
    <3>1. CASE reader.recs = <<>>
      BY <2>1, <3>1
    <3>2. CASE ~(sum > reader.max)
      BY <1>2, <2>2, <3>2
    <3> QED
      BY <1>13, <3>1, <3>2, Zenon DEF Exceeds, sum
  <2>10. AdmittedIn(taken, sizes) /\ (taken.err = "refused" => ~AdmittedIn(taken, sizes))
    BY <1>2, <1>7, <2>3, Zenon DEF AdmittedIn, end
  <2>11. Collected(taken, sizes)
    BY <2>3, <2>4, <2>5, <2>6, <2>8, <2>9, <2>10, Zenon DEF Collected, end
  <2>12. ReaderOK(taken, segments, sizes)
    BY <1>2, <2>3, <2>7, <2>10, <2>11 DEF ReaderOK, end
  <2> QED
    BY <1>13, <2>12, ReaderStep, Zenon
<1> QED
  BY <1>1, <1>10, <1>12, <1>13, Zenon

LEMMA IdleOK ==
  ASSUME NEW segs, NEW zs
  PROVE  ReaderOK(Idle, segs, zs)
<1>1. <<>> \in Seq(Record)
  OBVIOUS
<1>2. Idle \in Reader /\ Idle.pc = "idle" /\ Idle.err = "none"
  BY <1>1 DEF Idle, Reader
<1> QED
  BY <1>2 DEF ReaderOK

LEMMA ReadInitIInv == ReadInit => ReadIInv
BY InitLayout, IdleOK DEF ReadInit, ReadIInv

LEMMA ReadNextIInv ==
  ASSUME ReadIInv, [ReadNext]_readVars
  PROVE  ReadIInv'
<1>1. ASSUME reader.pc = "idle", Layout', UNCHANGED reader PROVE ReadIInv'
  <2>1. reader = Idle
    BY <1>1 DEF ReadIInv, ReaderOK
  <2>2. ReaderOK(reader', segments', sizes')
    BY <1>1, <2>1, IdleOK
  <2> QED
    BY <1>1, <2>2 DEF ReadIInv
<1>2. ASSUME NEW ns \in NewBatches, NEW indexed \in BOOLEAN, Grow(ns, indexed) PROVE ReadIInv'
  <2>1. Layout'
    BY <1>2, GrowLayout DEF ReadIInv
  <2> QED
    BY <1>1, <1>2, <2>1 DEF Grow
<1>3. CASE RollOnly
  <2>1. Layout'
    BY <1>3, RollOnlyLayout DEF ReadIInv
  <2> QED
    BY <1>1, <1>3, <2>1 DEF RollOnly
<1>4. ASSUME NEW offset \in (Earliest - 1 .. LogEnd + 1) \cap Nat, NEW max \in 0 .. MaxBytes,
             StartRead(offset, max)
      PROVE  ReadIInv'
  <2>1. offset \in Nat
    OBVIOUS
  <2> QED
    BY <1>4, <2>1, StartOK
<1>5. CASE Return
  BY <1>5, IdleOK, ReaderStep DEF Return
<1>6. CASE ReadStep
  BY <1>5, <1>6, EnterSegmentOK, EndOfLogOK, EnterBatchOK, BatchUnreadableOK, LeaveSegmentOK, ScanRecordOK,
     LeaveBatchOK DEF ReadStep
<1>7. CASE UNCHANGED readVars
  BY <1>7 DEF readVars, ReadIInv, Layout
<1> QED
  BY <1>2, <1>3, <1>4, <1>6, <1>7 DEF ReadNext

\* The log that Read scans is laid out without a gap, and a call never gets
\* past a record that it still has to look at.
THEOREM ReadInvariance == ReadSpec => []ReadIInv
<1>1. ReadIInv /\ [ReadNext]_readVars => ReadIInv'
  BY ReadNextIInv
<1> QED
  BY <1>1, ReadInitIInv, PTL DEF ReadSpec

\* Read returns exactly the records that a scan of the whole log would: from
\* the wanted offset, in order, without a gap, as many as fit into maxBytes
\* and at least one; it refuses only offsets outside the log and a limit of
\* zero.  For every log, however its segments, batches and index entries fall.
THEOREM ReadsAlwaysExact == ReadSpec => []ReadExact
<1>1. ASSUME ReadIInv PROVE ReadExact
  <2> DEFINE end == reader.offset + Len(reader.recs)
  <2>1. reader.err = "refused" => ~Admitted(reader.offset, reader.max)
    BY <1>1 DEF ReadIInv, ReaderOK, AdmittedIn, Admitted, LogEnd, EndOf
  <2>2. ASSUME reader.pc = "done"
        PROVE  /\ \A i \in DOMAIN reader.recs : reader.recs[i] = RecordAt(reader.offset + i - 1)
               /\ reader.offset < LogEnd => reader.recs # <<>>
               /\ Len(reader.recs) > 1 => SizeOf(reader.offset, end) <= reader.max
               /\ end < LogEnd => SizeOf(reader.offset, end + 1) > reader.max
    <3>1. Collected(reader, sizes) /\ Complete(reader, sizes) /\ reader \in Reader
      BY <1>1, <2>2 DEF ReadIInv, ReaderOK
    <3>2. sizes \in Seq(Nat) /\ LogEnd = EndOf(sizes) /\ LogEnd \in Nat
      BY <1>1, ReadAssumption DEF ReadIInv, Layout, LayoutOf, LogEnd, EndOf
    <3>3. /\ reader.offset \in Nat /\ reader.recs \in Seq(Record) /\ reader.max \in Nat
      BY <3>1 DEF Reader
    <3>4. /\ Earliest <= reader.offset /\ reader.curr = end /\ end <= LogEnd
          /\ reader.bytes = SizeIn(sizes, reader.offset, end)
          /\ Len(reader.recs) > 1 => reader.bytes <= reader.max
      BY <3>1, <3>2, Zenon DEF Collected, AdmittedIn
    <3>5. end \in Nat /\ reader.offset <= end /\ end + 1 \in Nat /\ reader.offset <= end + 1
          /\ (end < LogEnd => end + 1 <= LogEnd)
      BY <3>2, <3>3
    <3>6. SizeIn(sizes, reader.offset, end) = SizeOf(reader.offset, end)
      BY <3>2, <3>3, <3>4, <3>5, SizeInIs, Zenon
    <3>7. end < LogEnd => SizeIn(sizes, reader.offset, end + 1) = SizeOf(reader.offset, end + 1)
      BY <3>2, <3>3, <3>4, <3>5, SizeInIs, Zenon
    <3>8. ASSUME NEW i \in DOMAIN reader.recs PROVE reader.recs[i] = RecordAt(reader.offset + i - 1)
      <4>1. i \in 1 .. Len(reader.recs) /\ reader.offset + i - 1 = reader.offset + (i - 1)
        BY <3>3
      <4>2. reader.recs[i] = RecordIn(sizes, reader.offset + (i - 1))
        BY <3>1, <4>1, Zenon DEF Collected
      <4> QED
        BY <4>1, <4>2, Zenon DEF RecordIn, RecordAt
    <3>9. /\ reader.offset < LogEnd => reader.recs # <<>>
          /\ end < LogEnd => SizeIn(sizes, reader.offset, end + 1) > reader.max
      BY <3>1, <3>2, <3>4, Zenon DEF Complete
    <3> HIDE DEF end
    <3> QED
      BY <3>4, <3>6, <3>7, <3>8, <3>9, Zenon
  <2> QED
    BY <2>1, <2>2 DEF ReadExact
<1> QED
  BY <1>1, ReadInvariance, PTL
=============================================================================
