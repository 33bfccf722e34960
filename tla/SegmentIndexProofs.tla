------------------------- MODULE SegmentIndexProofs -------------------------
(***************************************************************************)
(* Proofs about SegmentIndex, for any interval, batch size and number of   *)
(* batches and restarts: the binary search and the rebuilding pass do what *)
(* they are meant to do, Read starts at the right batch, and an index that *)
(* nothing has damaged is kept.                                            *)
(*                                                                         *)
(* Search and Rebuilt are recursive functions.  What they compute is       *)
(* proved by induction in the form "a set that contains 0 and with k also  *)
(* k + 1 contains 0 .. L".                                                 *)
(***************************************************************************)
EXTENDS SegmentIndex, SequenceTheorems, WellFoundedInduction, TLAPS

Origin == [rel |-> 0, pos |-> 0]

\* Offsets and positions grow together.
Increasing(s) ==
  \A i, j \in 1 .. Len(s) : i < j => s[i].rel < s[j].rel /\ s[i].pos < s[j].pos

\* The starts of the batches in the log.
LogOK ==
  /\ log \in Seq(IndexEntry) /\ next \in Nat /\ bytes \in Nat
  /\ Increasing(log)
  /\ \A i \in 1 .. Len(log) : log[i].rel < next /\ log[i].pos < bytes
  /\ IF log = <<>> THEN next = 0 /\ bytes = 0 ELSE log[1] = Origin

\* Entries that Read can rely on.
Sound(es) ==
  /\ es \in Seq(IndexEntry)
  /\ Increasing(es)
  /\ es # <<>> => es[1] = Origin
  /\ \A i \in 1 .. Len(es) : PointsToBatch(es[i])

FileOK ==
  /\ index \in Seq(IndexEntry) /\ ragged \in BOOLEAN /\ damaged \in BOOLEAN
  /\ indexSynced \in 0 .. Len(index) /\ logSynced \in 0 .. Len(log)
  /\ phase \in {"open", "down"} /\ pc \in {"idle", "index"}

\* In an open store the entries in memory are sound, and between the log
\* write and the index the newest batch lies behind all of them.
MemoryOK ==
  /\ entries \in Seq(IndexEntry) /\ lastIndexed = LastPosition(entries)
  /\ phase = "open" =>
       /\ Sound(entries)
       /\ indexSize \in -1 .. Len(index)
       /\ pc = "idle" /\ log # <<>> => entries # <<>>
  /\ pc = "index" =>
       /\ phase = "open" /\ log # <<>>
       /\ entries = <<>> => Len(log) = 1
       /\ \A i \in 1 .. Len(entries) : entries[i].rel < Newest.rel /\ entries[i].pos < Newest.pos

\* A file that Append alone wrote holds what was in memory, and still agrees
\* with the log.
FileFollows ==
  ~damaged =>
    /\ ~ragged
    /\ phase = "open" => index = entries /\ indexSize >= 0
    /\ phase = "down" => Sound(index)

\* The inductive invariant.
IInv == LogOK /\ FileOK /\ MemoryOK /\ FileFollows
-----------------------------------------------------------------------------
(***************************************************************************)
(* Induction.                                                              *)
(***************************************************************************)
\* A nonempty set of natural numbers has a least element.
LEMMA LeastElement ==
  ASSUME NEW T, T \subseteq Nat, T # {}
  PROVE  \E m \in T : \A k \in T : m <= k
<1> DEFINE R == OpToRel(<, Nat)
<1>1. IsWellFoundedOn(R, Nat)
  BY NatLessThanWellFounded
<1>2. \A y, x \in Nat : y < x => <<y, x>> \in R
  BY DEF OpToRel
<1> HIDE DEF R
<1>3. PICK x \in T : \A y \in T : ~ (<<y, x>> \in R)
  BY <1>1, WFMin, Zenon
<1>4. ASSUME NEW y \in T PROVE x <= y
  <2>1. x \in Nat /\ y \in Nat /\ ~ (<<y, x>> \in R)
    BY <1>3
  <2>2. ~ (y < x)
    BY <1>2, <2>1
  <2> QED
    BY <2>1, <2>2
<1> QED
  BY <1>4

\* Induction up to a bound.
LEMMA SetInduction ==
  ASSUME NEW S, NEW L \in Nat, 0 \in S, \A k \in 0 .. L - 1 : k \in S => k + 1 \in S
  PROVE  0 .. L \subseteq S
<1> SUFFICES ASSUME ~(0 .. L \subseteq S) PROVE FALSE
  OBVIOUS
<1> DEFINE T == {k \in 0 .. L : k \notin S}
<1>1. T \subseteq Nat /\ T # {}
  OBVIOUS
<1>2. PICK m \in T : \A k \in T : m <= k
  <2> HIDE DEF T
  <2> QED
    BY <1>1, LeastElement, Zenon
<1>3. m # 0 /\ m \in 0 .. L /\ m - 1 \in 0 .. L - 1
  OBVIOUS
<1>4. m - 1 \in S
  BY <1>2, <1>3
<1> QED
  BY <1>3, <1>4
-----------------------------------------------------------------------------
(***************************************************************************)
(* sort.Search.                                                            *)
(***************************************************************************)
\* k splits i .. j - 1 into indices at which the predicate does not hold and
\* indices at which it does.
Splits(k, i, j, holds) ==
  /\ k \in i .. j
  /\ \A m \in i .. k - 1 : ~holds[m]
  /\ \A m \in k .. j - 1 : holds[m]

\* What bisect says of itself, as a property of a function.
Bisects(f, n, holds) ==
  f = [r \in (0 .. n) \X (0 .. n) |->
         LET i == r[1]
             j == r[2]
             h == (i + j) \div 2
         IN  IF i >= j THEN i ELSE IF holds[h] THEN f[<<i, h>>] ELSE f[<<h + 1, j>>]]

\* A predicate that is false and then true has a split in every interval.
LEMMA SplitExists ==
  ASSUME NEW n \in Nat, NEW holds, \A a, c \in 0 .. n - 1 : a <= c /\ holds[a] => holds[c],
         NEW i \in 0 .. n, NEW j \in 0 .. n, i <= j
  PROVE  \E k \in i .. j : Splits(k, i, j, holds)
<1> DEFINE T == {k \in i .. j : k < j => holds[k]}
<1>1. T \subseteq Nat /\ T # {}
  OBVIOUS
<1>2. PICK k \in T : \A m \in T : k <= m
  <2> HIDE DEF T
  <2> QED
    BY <1>1, LeastElement, Zenon
<1>3. \A m \in i .. k - 1 : ~holds[m]
  BY <1>2
<1>4. \A m \in k .. j - 1 : holds[m]
  BY <1>2
<1> QED
  BY <1>3, <1>4 DEF Splits

\* The middle of an interval lies in it.
LEMMA Middle ==
  ASSUME NEW i \in Nat, NEW j \in Nat, i < j
  PROVE  (i + j) \div 2 \in i .. j - 1
OBVIOUS

\* There is only one split.
LEMMA SplitUnique ==
  ASSUME NEW i \in Nat, NEW j \in Nat, NEW holds, NEW k, NEW l,
         Splits(k, i, j, holds), Splits(l, i, j, holds)
  PROVE  k = l
<1>1. k \in Int /\ l \in Int /\ i <= k /\ k <= j /\ i <= l /\ l <= j
  BY DEF Splits
<1>2. ~ (k < l)
  BY <1>1 DEF Splits
<1>3. ~ (l < k)
  BY <1>1 DEF Splits
<1> QED
  BY <1>1, <1>2, <1>3

\* A split of the half that bisect goes on with is a split of the whole.
LEMMA SplitHalf ==
  ASSUME NEW n \in Nat, NEW holds, \A a, c \in 0 .. n - 1 : a <= c /\ holds[a] => holds[c],
         NEW i \in 0 .. n, NEW j \in 0 .. n, NEW h \in i .. j - 1, NEW k
  PROVE  /\ holds[h] /\ Splits(k, i, h, holds) => Splits(k, i, j, holds)
         /\ ~holds[h] /\ Splits(k, h + 1, j, holds) => Splits(k, i, j, holds)
<1>1. ASSUME holds[h], Splits(k, i, h, holds) PROVE Splits(k, i, j, holds)
  <2>1. k \in i .. h
    BY <1>1 DEF Splits
  <2>2. ASSUME NEW m \in k .. j - 1 PROVE holds[m]
    <3>1. CASE m < h
      BY <1>1, <3>1, <2>1 DEF Splits
    <3>2. CASE m >= h
      BY <1>1, <3>2, <2>1
    <3> QED
      BY <3>1, <3>2, <2>1
  <2> QED
    BY <1>1, <2>1, <2>2 DEF Splits
<1>2. ASSUME ~holds[h], Splits(k, h + 1, j, holds) PROVE Splits(k, i, j, holds)
  <2>1. k \in h + 1 .. j
    BY <1>2 DEF Splits
  <2>2. ASSUME NEW m \in i .. k - 1 PROVE ~holds[m]
    <3>1. CASE m > h
      BY <1>2, <3>1, <2>1 DEF Splits
    <3>2. CASE m <= h
      BY <1>2, <3>2, <2>1
    <3> QED
      BY <3>1, <3>2, <2>1
  <2> QED
    BY <1>2, <2>1, <2>2 DEF Splits
<1> QED
  BY <1>1, <1>2

\* There is a function that satisfies the recursive definition of bisect: the
\* one that returns the split.
LEMMA BisectExists ==
  ASSUME NEW n \in Nat, NEW holds, \A a, c \in 0 .. n - 1 : a <= c /\ holds[a] => holds[c]
  PROVE  \E f : Bisects(f, n, holds)
<1> DEFINE f == [r \in (0 .. n) \X (0 .. n) |->
                   IF r[1] >= r[2] THEN r[1]
                   ELSE CHOOSE k \in r[1] .. r[2] : Splits(k, r[1], r[2], holds)]
<1>1. ASSUME NEW i \in 0 .. n, NEW j \in 0 .. n, i <= j
      PROVE  Splits(f[<<i, j>>], i, j, holds)
  <2>1. CASE i = j
    BY <2>1 DEF Splits
  <2>2. CASE i < j
    <3>1. f[<<i, j>>] = CHOOSE k \in i .. j : Splits(k, i, j, holds)
      BY <2>2
    <3>2. \E k \in i .. j : Splits(k, i, j, holds)
      BY <1>1, SplitExists, SMTT(30)
    <3> QED
      BY <3>1, <3>2
  <2> QED
    BY <1>1, <2>1, <2>2
<1>2. ASSUME NEW i \in 0 .. n, NEW j \in 0 .. n
      PROVE  f[<<i, j>>] = LET h == (i + j) \div 2 IN
                           IF i >= j THEN i ELSE IF holds[h] THEN f[<<i, h>>] ELSE f[<<h + 1, j>>]
  <2> DEFINE h == (i + j) \div 2
  <2>1. CASE i >= j
    BY <2>1
  <2>2. CASE i < j
    <3>1. h \in i .. j - 1
      BY <2>2, Middle
    <3> HIDE DEF h, f
    <3>2. Splits(f[<<i, j>>], i, j, holds)
      BY <1>1, <2>2
    <3>3. CASE holds[h]
      <4>1. Splits(f[<<i, h>>], i, h, holds)
        BY <1>1, <3>1
      <4>2. Splits(f[<<i, h>>], i, j, holds)
        BY <4>1, <3>1, <3>3, SplitHalf
      <4>3. f[<<i, j>>] = f[<<i, h>>]
        BY <4>2, <3>2, SplitUnique
      <4> QED
        BY <4>3, <3>3, <2>2 DEF h
    <3>4. CASE ~holds[h]
      <4>1. Splits(f[<<h + 1, j>>], h + 1, j, holds)
        BY <1>1, <3>1
      <4>2. Splits(f[<<h + 1, j>>], i, j, holds)
        BY <4>1, <3>1, <3>4, SplitHalf
      <4>3. f[<<i, j>>] = f[<<h + 1, j>>]
        BY <4>2, <3>2, SplitUnique
      <4> QED
        BY <4>3, <3>4, <2>2 DEF h
    <3> QED
      BY <3>3, <3>4
  <2> QED
    BY <2>1, <2>2
<1>3. f = [r \in (0 .. n) \X (0 .. n) |-> f[r]]
  OBVIOUS
<1> HIDE DEF f
<1>4. ASSUME NEW r \in (0 .. n) \X (0 .. n)
      PROVE  f[r] = LET i == r[1]
                        j == r[2]
                        h == (i + j) \div 2
                    IN  IF i >= j THEN i ELSE IF holds[h] THEN f[<<i, h>>] ELSE f[<<h + 1, j>>]
  <2>1. r = <<r[1], r[2]>> /\ r[1] \in 0 .. n /\ r[2] \in 0 .. n
    OBVIOUS
  <2> QED
    BY <1>2, <2>1
<1>5. Bisects(f, n, holds)
  BY <1>3, <1>4, Zenon DEF Bisects
<1> QED
  BY <1>5

\* Any function that satisfies it returns the split of an interval.
LEMMA BisectSplits ==
  ASSUME NEW n \in Nat, NEW holds, \A a, c \in 0 .. n - 1 : a <= c /\ holds[a] => holds[c],
         NEW f, Bisects(f, n, holds)
  PROVE  Splits(f[<<0, n>>], 0, n, holds)
<1> DEFINE S == {d \in 0 .. n : \A i, j \in 0 .. n :
                   i <= j /\ j - i <= d => Splits(f[<<i, j>>], i, j, holds)}
<1>0. ASSUME NEW i \in 0 .. n, NEW j \in 0 .. n
      PROVE  /\ i = j => f[<<i, j>>] = i
             /\ i < j => f[<<i, j>>] = LET h == (i + j) \div 2 IN
                                       IF holds[h] THEN f[<<i, h>>] ELSE f[<<h + 1, j>>]
  BY DEF Bisects
<1>1. 0 \in S
  <2> SUFFICES ASSUME NEW i \in 0 .. n PROVE Splits(f[<<i, i>>], i, i, holds)
    OBVIOUS
  <2>1. f[<<i, i>>] = i
    BY <1>0, Zenon
  <2> QED
    BY <2>1 DEF Splits
<1>2. ASSUME NEW d \in 0 .. n - 1, d \in S PROVE d + 1 \in S
  <2> SUFFICES ASSUME NEW i \in 0 .. n, NEW j \in 0 .. n, i <= j, j - i <= d + 1
               PROVE  Splits(f[<<i, j>>], i, j, holds)
    OBVIOUS
  <2>1. CASE i = j
    <3>1. f[<<i, j>>] = i
      BY <1>0, <2>1, Zenon
    <3> QED
      BY <3>1, <2>1 DEF Splits
  <2>2. CASE i < j
    <3> DEFINE h == (i + j) \div 2
    <3>1. h \in i .. j - 1
      BY <2>2, Middle
    <3>2. f[<<i, j>>] = IF holds[h] THEN f[<<i, h>>] ELSE f[<<h + 1, j>>]
      BY <1>0, <2>2
    <3> HIDE DEF h
    <3>3. h \in 0 .. n /\ h + 1 \in 0 .. n /\ i <= h /\ h - i <= d /\ h + 1 <= j /\ j - (h + 1) <= d
      BY <3>1
    <3>4. \A a, c \in 0 .. n : a <= c /\ c - a <= d => Splits(f[<<a, c>>], a, c, holds)
      BY <1>2
    <3>5. Splits(f[<<i, h>>], i, h, holds) /\ Splits(f[<<h + 1, j>>], h + 1, j, holds)
      BY <3>3, <3>4
    <3> QED
      BY <3>1, <3>2, <3>5, SplitHalf
  <2> QED
    BY <2>1, <2>2
<1>3. 0 .. n \subseteq S
  <2> HIDE DEF S
  <2> QED
    BY <1>1, <1>2, SetInduction
<1>4. n \in S
  BY <1>3
<1> QED
  BY <1>4

\* sort.Search returns the least index at which a predicate holds that is
\* false and then true, and n when it holds nowhere.
THEOREM SearchCorrect ==
  ASSUME NEW n \in Nat, NEW holds, \A a, c \in 0 .. n - 1 : a <= c /\ holds[a] => holds[c]
  PROVE  Splits(Search(n, holds), 0, n, holds)
<1> DEFINE f == CHOOSE g : Bisects(g, n, holds)
<1>1. Bisects(f, n, holds)
  BY BisectExists
<1>2. Search(n, holds) = f[<<0, n>>]
  BY DEF Search, Bisects
<1> HIDE DEF f
<1> QED
  BY <1>1, <1>2, BisectSplits

-----------------------------------------------------------------------------
(***************************************************************************)
(* Entries, and rebuildIndex.                                              *)
(***************************************************************************)
\* A function is what rebuildIndex builds up, batch by batch.
Builds(f, L) ==
  f = [k \in 0 .. L |-> IF k = 0 THEN <<>> ELSE Indexed(f[k - 1], log[k])]

\* Neighbours in order are enough for a sequence to be in order.
LEMMA NeighboursInOrder ==
  ASSUME NEW s \in Seq(IndexEntry),
         \A i \in 2 .. Len(s) : s[i].rel > s[i - 1].rel /\ s[i].pos > s[i - 1].pos
  PROVE  Increasing(s)
<1>0. Len(s) \in Nat /\ \A i \in 1 .. Len(s) : s[i].rel \in Nat /\ s[i].pos \in Nat
  <2>1. Len(s) \in Nat /\ \A i \in 1 .. Len(s) : s[i] \in IndexEntry
    BY LenProperties, ElementOfSeq
  <2> QED
    BY <2>1 DEF IndexEntry
<1> DEFINE S == {d \in 0 .. Len(s) : \A i, j \in 1 .. Len(s) :
                   i < j /\ j - i <= d => s[i].rel < s[j].rel /\ s[i].pos < s[j].pos}
<1>1. 0 \in S
  BY <1>0
<1>2. ASSUME NEW d \in 0 .. Len(s) - 1, d \in S PROVE d + 1 \in S
  <2>0. d + 1 \in 0 .. Len(s)
    BY <1>0
  <2> SUFFICES ASSUME NEW i \in 1 .. Len(s), NEW j \in 1 .. Len(s), i < j, j - i <= d + 1
               PROVE  s[i].rel < s[j].rel /\ s[i].pos < s[j].pos
    BY <2>0
  <2>1. j \in 2 .. Len(s) /\ j - 1 \in 1 .. Len(s)
    BY <1>0
  <2>2. s[j].rel > s[j - 1].rel /\ s[j].pos > s[j - 1].pos
    BY <2>1
  <2>3. CASE i = j - 1
    BY <2>2, <2>3
  <2>4. CASE i < j - 1
    <3>1. s[i].rel < s[j - 1].rel /\ s[i].pos < s[j - 1].pos
      BY <1>2, <2>1, <2>4
    <3>2. /\ s[i].rel \in Nat /\ s[j].rel \in Nat /\ s[j - 1].rel \in Nat
          /\ s[i].pos \in Nat /\ s[j].pos \in Nat /\ s[j - 1].pos \in Nat
      BY <1>0, <2>1
    <3>3. \A x, y, z \in Nat : x < y /\ z > y => x < z
      OBVIOUS
    <3> QED
      BY <2>2, <3>1, <3>2, <3>3, Zenon
  <2> QED
    BY <1>0, <2>3, <2>4
<1>3. 0 .. Len(s) \subseteq S
  <2> HIDE DEF S
  <2> QED
    BY <1>0, <1>1, <1>2, SetInduction, Zenon
<1>4. Len(s) \in S
  <2>1. Len(s) \in 0 .. Len(s)
    BY <1>0
  <2> QED
    BY <2>1, <1>3, Zenon
<1> QED
  BY <1>0, <1>4 DEF Increasing

\* An entry behind all others keeps the entries in order.
LEMMA AppendInOrder ==
  ASSUME NEW s \in Seq(IndexEntry), Increasing(s), NEW e \in IndexEntry,
         \A i \in 1 .. Len(s) : s[i].rel < e.rel /\ s[i].pos < e.pos
  PROVE  Append(s, e) \in Seq(IndexEntry) /\ Increasing(Append(s, e))
<1>1. /\ Append(s, e) \in Seq(IndexEntry) /\ Len(Append(s, e)) = Len(s) + 1
      /\ \A i \in 1 .. Len(s) + 1 : Append(s, e)[i] = IF i <= Len(s) THEN s[i] ELSE e
  BY AppendProperties
<1> QED
  BY <1>1 DEF Increasing

\* rebuildIndex gets to its end: the recursive definition has a solution.
LEMMA BuildExists ==
  ASSUME NEW L \in Nat
  PROVE  \E f : Builds(f, L)
<1> DEFINE S == {n \in 0 .. L : \E f : Builds(f, n)}
<1>1. 0 \in S
  <2>1. Builds([k \in 0 .. 0 |-> <<>>], 0)
    BY DEF Builds
  <2> QED
    BY <2>1
<1>2. ASSUME NEW n \in 0 .. L - 1, n \in S PROVE n + 1 \in S
  <2>1. PICK f : Builds(f, n)
    BY <1>2
  <2> DEFINE g == [k \in 0 .. n + 1 |-> IF k <= n THEN f[k] ELSE Indexed(f[n], log[n + 1])]
  <2>2. \A k \in 0 .. n : g[k] = f[k]
    OBVIOUS
  <2>3. g[n + 1] = Indexed(g[n], log[n + 1])
    OBVIOUS
  <2>4. ASSUME NEW k \in 0 .. n
        PROVE  f[k] = IF k = 0 THEN <<>> ELSE Indexed(f[k - 1], log[k])
    BY <2>1 DEF Builds
  <2>5. g = [k \in 0 .. n + 1 |-> g[k]]
    OBVIOUS
  <2> HIDE DEF g
  <2>6. ASSUME NEW k \in 0 .. n + 1
        PROVE  g[k] = IF k = 0 THEN <<>> ELSE Indexed(g[k - 1], log[k])
    <3>1. CASE k = n + 1
      BY <2>3, <3>1
    <3>2. CASE k = 0
      BY <2>2, <2>4, <3>2
    <3>3. CASE k \in 1 .. n
      BY <2>2, <2>4, <3>3
    <3> QED
      BY <3>1, <3>2, <3>3
  <2>7. Builds(g, n + 1)
    BY <2>5, <2>6, Zenon DEF Builds
  <2> QED
    BY <2>7
<1>3. 0 .. L \subseteq S
  <2> HIDE DEF S
  <2> QED
    BY <1>1, <1>2, SetInduction
<1> QED
  BY <1>3

\* One step of the pass, over the batches before the k-th.
LEMMA IndexedSound ==
  ASSUME LogOK, NEW k \in 1 .. Len(log), NEW es \in Seq(IndexEntry),
         Increasing(es), es # <<>> => es[1] = Origin, es = <<>> => k = 1,
         \A i \in 1 .. Len(es) : \E j \in 1 .. k - 1 : es[i] = log[j]
  PROVE  /\ Indexed(es, log[k]) \in Seq(IndexEntry) /\ Increasing(Indexed(es, log[k]))
         /\ Indexed(es, log[k]) # <<>> /\ Indexed(es, log[k])[1] = Origin
         /\ \A i \in 1 .. Len(Indexed(es, log[k])) : \E j \in 1 .. k : Indexed(es, log[k])[i] = log[j]
<1>0. log[k] \in IndexEntry /\ Len(es) \in Nat
  BY DEF LogOK
<1>1. EntryFor(log[k]) = log[k]
  BY <1>0 DEF EntryFor, IndexEntry
<1>2. CASE ShouldIndex(es, LastPosition(es), log[k].pos)
  <2>1. Indexed(es, log[k]) = Append(es, log[k])
    BY <1>1, <1>2 DEF Indexed
  <2>2. ASSUME NEW i \in 1 .. Len(es) PROVE es[i].rel < log[k].rel /\ es[i].pos < log[k].pos
    <3>1. PICK j \in 1 .. k - 1 : es[i] = log[j]
      OBVIOUS
    <3> QED
      BY <3>1, SMTT(30) DEF LogOK, Increasing
  <2>3. Append(es, log[k]) \in Seq(IndexEntry) /\ Increasing(Append(es, log[k]))
    BY <1>0, <2>2, AppendInOrder
  <2>4. /\ Len(Append(es, log[k])) = Len(es) + 1
        /\ \A i \in 1 .. Len(es) + 1 : Append(es, log[k])[i] = IF i <= Len(es) THEN es[i] ELSE log[k]
    BY <1>0, AppendProperties
  <2>5. Append(es, log[k]) # <<>> /\ Append(es, log[k])[1] = Origin
    <3>1. CASE es = <<>>
      <4>1. log # <<>> /\ k = 1
        BY <3>1, <1>0 DEF LogOK
      <4> QED
        BY <4>1, <3>1, <2>4 DEF LogOK
    <3>2. CASE es # <<>>
      BY <3>2, <2>4
    <3> QED
      BY <3>1, <3>2
  <2>6. \A i \in 1 .. Len(es) + 1 : \E j \in 1 .. k : Append(es, log[k])[i] = log[j]
    BY <1>0, <2>4
  <2> QED
    BY <2>1, <2>3, <2>4, <2>5, <2>6
<1>3. CASE ~ShouldIndex(es, LastPosition(es), log[k].pos)
  <2>1. Indexed(es, log[k]) = es /\ es # <<>>
    BY <1>3 DEF Indexed, ShouldIndex
  <2>2. \A i \in 1 .. Len(es) : \E j \in 1 .. k : es[i] = log[j]
    <3> SUFFICES ASSUME NEW i \in 1 .. Len(es) PROVE \E j \in 1 .. k : es[i] = log[j]
      OBVIOUS
    <3>1. PICK j \in 1 .. k - 1 : es[i] = log[j]
      OBVIOUS
    <3> QED
      BY <3>1
  <2> QED
    BY <2>1, <2>2
<1> QED
  BY <1>2, <1>3

\* rebuildIndex produces entries that Read can rely on, with at least one
\* when the log is not empty.
THEOREM RebuiltSound ==
  ASSUME LogOK
  PROVE  Sound(Rebuilt) /\ (log # <<>> => Rebuilt # <<>>)
<1> DEFINE f == CHOOSE g : Builds(g, Len(log))
           S == {k \in 0 .. Len(log) :
                   /\ f[k] \in Seq(IndexEntry) /\ Increasing(f[k])
                   /\ f[k] # <<>> => f[k][1] = Origin
                   /\ f[k] = <<>> => k = 0
                   /\ \A i \in 1 .. Len(f[k]) : \E j \in 1 .. k : f[k][i] = log[j]}
<1>0. Len(log) \in Nat
  BY DEF LogOK
<1>1. Builds(f, Len(log))
  BY <1>0, BuildExists
<1>2. Rebuilt = f[Len(log)]
  BY DEF Rebuilt, Builds
<1> HIDE DEF f
<1>3. ASSUME NEW k \in 0 .. Len(log)
      PROVE  f[k] = IF k = 0 THEN <<>> ELSE Indexed(f[k - 1], log[k])
  BY <1>0, <1>1 DEF Builds
<1>4. 0 \in S
  <2>1. f[0] = <<>>
    BY <1>0, <1>3
  <2> QED
    <3>1. <<>> \in Seq(IndexEntry) /\ Len(<<>>) = 0 /\ 0 \in 0 .. Len(log)
      BY <1>0, EmptySeq
    <3>2. Increasing(<<>>)
      BY <3>1 DEF Increasing
    <3>3. /\ f[0] \in Seq(IndexEntry) /\ Increasing(f[0]) /\ Len(f[0]) = 0
          /\ ~ \E i \in 1 .. Len(f[0]) : TRUE
      BY <2>1, <3>1, <3>2
    <3> QED
      BY <2>1, <3>1, <3>3, Zenon
<1>5. ASSUME NEW k \in 0 .. Len(log) - 1, k \in S PROVE k + 1 \in S
  <2>1. k + 1 \in 1 .. Len(log) /\ k + 1 \in 0 .. Len(log) /\ (k + 1) - 1 = k /\ k + 1 # 0
    BY <1>0
  <2>2. f[k + 1] = Indexed(f[k], log[k + 1])
    BY <1>3, <2>1
  <2>3. /\ f[k] \in Seq(IndexEntry) /\ Increasing(f[k]) /\ (f[k] # <<>> => f[k][1] = Origin)
        /\ f[k] = <<>> => k + 1 = 1
        /\ \A i \in 1 .. Len(f[k]) : \E j \in 1 .. (k + 1) - 1 : f[k][i] = log[j]
    BY <1>5, <2>1
  <2>4. /\ f[k + 1] \in Seq(IndexEntry) /\ Increasing(f[k + 1])
        /\ f[k + 1] # <<>> /\ f[k + 1][1] = Origin
        /\ \A i \in 1 .. Len(f[k + 1]) : \E j \in 1 .. k + 1 : f[k + 1][i] = log[j]
    BY <2>1, <2>2, <2>3, IndexedSound, SMTT(30)
  <2> QED
    BY <2>1, <2>4
<1>6. 0 .. Len(log) \subseteq S
  <2> HIDE DEF S
  <2> QED
    BY <1>0, <1>4, <1>5, SetInduction
<1>7. Len(log) \in S
  BY <1>0, <1>6
<1>8. log # <<>> => Len(log) # 0
  BY DEF LogOK
<1> QED
  BY <1>2, <1>7, <1>8 DEF Sound, PointsToBatch
-----------------------------------------------------------------------------
(***************************************************************************)
(* The inductive invariant.                                                *)
(***************************************************************************)
\* A new segment satisfies it, whatever index file it finds.
LEMMA InitIInv == Init => IInv
<1> SUFFICES ASSUME Init PROVE IInv
  OBVIOUS
<1>1. index \in Seq(IndexEntry)
  <2>1. ASSUME NEW r \in 1 .. IndexInterval, NEW p \in 0 .. MaxRecords
        PROVE  <<[rel |-> 0, pos |-> 0], [rel |-> r, pos |-> IndexInterval + p]>> \in Seq(IndexEntry)
    <3>1. [rel |-> 0, pos |-> 0] \in IndexEntry /\ [rel |-> r, pos |-> IndexInterval + p] \in IndexEntry
      BY IndexAssumption DEF IndexEntry
    <3> QED
      BY <3>1
  <2>2. \/ index = <<>>
        \/ \E r \in 1 .. IndexInterval, p \in 0 .. MaxRecords :
             index = <<[rel |-> 0, pos |-> 0], [rel |-> r, pos |-> IndexInterval + p]>>
    BY DEF Init, LeftOver
  <2> QED
    BY <2>1, <2>2, EmptySeq, Zenon
<1>2. LogOK
  BY DEF Init, LogOK, Increasing
<1>3. FileOK
  BY <1>1 DEF Init, FileOK
<1>4. MemoryOK
  BY <1>1 DEF Init, MemoryOK, Sound, LastPosition, Increasing
<1>5. FileFollows
  <2>1. ~damaged => ~ragged /\ index = <<>>
    BY Zenon DEF Init
  <2> QED
    BY <2>1 DEF Init, FileFollows
<1> QED
  BY <1>2, <1>3, <1>4, <1>5 DEF IInv

\* A batch that is added lies behind the others.
LEMMA AppendBatchIInv ==
  ASSUME IInv, NEW n \in 1 .. MaxRecords, AppendBatch(n)
  PROVE  IInv'
<1> DEFINE e == [rel |-> next, pos |-> bytes]
<1>0. /\ e \in IndexEntry /\ log \in Seq(IndexEntry) /\ Len(log) \in Nat
      /\ n \in Nat /\ n > 0 /\ HeaderBytes \in Nat
  BY IndexAssumption DEF IInv, LogOK, IndexEntry
<1>1. /\ log' = Append(log, e) /\ next' = next + n /\ bytes' = bytes + HeaderBytes + n
      /\ pc = "idle" /\ pc' = "index" /\ phase = "open"
      /\ UNCHANGED <<logSynced, index, ragged, indexSynced, phase, entries, lastIndexed,
                     indexSize, indexDirty, damaged, opens>>
  BY DEF AppendBatch, fileVars, memVars
<1>2. /\ Len(log') = Len(log) + 1 /\ log' # <<>>
      /\ \A i \in 1 .. Len(log) + 1 : log'[i] = IF i <= Len(log) THEN log[i] ELSE e
  BY <1>0, <1>1, AppendProperties
<1>3. log' \in Seq(IndexEntry) /\ Increasing(log')
  BY <1>0, <1>1, AppendInOrder DEF IInv, LogOK
<1>4. LogOK'
  <2>1. log'[1] = Origin
    BY <1>0, <1>2 DEF IInv, LogOK, Origin
  <2>2. \A i \in 1 .. Len(log') : log'[i].rel < next' /\ log'[i].pos < bytes'
    <3> SUFFICES ASSUME NEW i \in 1 .. Len(log) + 1
                 PROVE  log'[i].rel < next' /\ log'[i].pos < bytes'
      BY <1>2
    <3>1. CASE i <= Len(log)
      <4>1. log'[i] = log[i] /\ log[i] \in IndexEntry /\ log[i].rel < next /\ log[i].pos < bytes
        BY <1>0, <1>2, <3>1 DEF IInv, LogOK
      <4> QED
        BY <4>1, <1>0, <1>1, SMTT(30) DEF IInv, LogOK, IndexEntry
    <3>2. CASE i = Len(log) + 1
      <4>1. log'[i] = e
        BY <1>0, <1>2, <3>2
      <4> QED
        BY <4>1, <1>0, <1>1 DEF IInv, LogOK
    <3> QED
      BY <1>0, <3>1, <3>2
  <2> QED
    BY <1>0, <1>1, <1>2, <1>3, <2>1, <2>2 DEF IInv, LogOK
<1>5. \A x : PointsToBatch(x) => PointsToBatch(x)'
  BY <1>0, <1>2 DEF PointsToBatch
<1>6. Sound(entries)'
  BY <1>1, <1>5 DEF IInv, MemoryOK, Sound
<1>7. MemoryOK'
  <2>1. Newest' = e
    BY <1>0, <1>2 DEF Newest
  <2>2. ASSUME NEW i \in 1 .. Len(entries) PROVE entries[i].rel < next /\ entries[i].pos < bytes
    <3>1. PICK j \in 1 .. Len(log) : entries[i] = log[j]
      BY <1>1 DEF IInv, MemoryOK, Sound, PointsToBatch
    <3> QED
      BY <3>1 DEF IInv, LogOK
  <2>3. entries = <<>> => log = <<>>
    BY <1>1 DEF IInv, MemoryOK
  <2> QED
    BY <1>0, <1>1, <1>2, <1>6, <2>1, <2>2, <2>3 DEF IInv, MemoryOK, LastPosition
<1>8. FileOK' /\ FileFollows'
  BY <1>0, <1>1, <1>2, <1>5 DEF IInv, FileOK, FileFollows, Sound
<1> QED
  BY <1>4, <1>7, <1>8 DEF IInv

\* Skipping the index entry.
LEMMA SkipEntryIInv == IInv /\ SkipEntry => IInv'
<1> SUFFICES ASSUME IInv, SkipEntry PROVE IInv'
  OBVIOUS
<1>1. /\ UNCHANGED <<log, next, bytes, logSynced, index, ragged, indexSynced, phase, entries, lastIndexed,
                     indexSize, indexDirty, damaged, opens>>
      /\ pc' = "idle" /\ entries # <<>>
  BY DEF SkipEntry, logVars, fileVars, memVars, ShouldIndex
<1>2. \A x : PointsToBatch(x) => PointsToBatch(x)'
  BY <1>1 DEF PointsToBatch
<1> QED
  BY <1>1, <1>2 DEF IInv, LogOK, FileOK, MemoryOK, FileFollows, Increasing, Sound, LastPosition

\* Adding the index entry, whether or not the write succeeds.
LEMMA AppendIndexEntryIInv == IInv /\ AppendIndexEntry => IInv'
<1> SUFFICES ASSUME IInv, AppendIndexEntry PROVE IInv'
  OBVIOUS
<1>0. /\ UNCHANGED <<log, next, bytes, logSynced, phase, indexSynced>>
      /\ pc = "index" /\ pc' = "idle" /\ phase = "open" /\ log # <<>>
  BY DEF AppendIndexEntry, logVars, IInv, MemoryOK
<1>1. /\ Len(log) \in 1 .. Len(log) /\ Newest = log[Len(log)] /\ Newest \in IndexEntry
      /\ EntryFor(Newest) = Newest
  <2>1. log \in Seq(IndexEntry)
    BY DEF IInv, LogOK
  <2>2. Len(log) \in 1 .. Len(log) /\ log[Len(log)] \in IndexEntry
    BY <1>0, <2>1, EmptySeq, ElementOfSeq
  <2> QED
    BY <2>2 DEF Newest, EntryFor, IndexEntry
<1>2. entries' = Append(entries, Newest) /\ lastIndexed' = Newest.pos
  BY <1>1 DEF AppendIndexEntry
<1>3. entries \in Seq(IndexEntry) /\ Len(entries) \in Nat /\ Increasing(entries)
  BY <1>0 DEF IInv, MemoryOK, Sound
<1>4. /\ entries' \in Seq(IndexEntry) /\ Len(entries') = Len(entries) + 1 /\ entries' # <<>>
      /\ \A i \in 1 .. Len(entries) + 1 : entries'[i] = IF i <= Len(entries) THEN entries[i] ELSE Newest
  BY <1>1, <1>2, <1>3, AppendProperties
<1>5. Increasing(entries')
  BY <1>0, <1>1, <1>2, <1>3, AppendInOrder DEF IInv, MemoryOK
<1>6. \A x : PointsToBatch(x) => PointsToBatch(x)'
  BY <1>0 DEF PointsToBatch
<1>7. Sound(entries)'
  <2>1. PointsToBatch(Newest)
    BY <1>1 DEF PointsToBatch
  <2>2. (\A i \in 1 .. Len(entries) : PointsToBatch(entries[i]))'
    <3> SUFFICES ASSUME NEW i \in 1 .. Len(entries) + 1
                 PROVE  \E j \in 1 .. Len(log') : entries'[i] = log'[j]
      BY <1>4 DEF PointsToBatch
    <3>1. CASE i <= Len(entries)
      <4>1. i \in 1 .. Len(entries) /\ entries'[i] = entries[i]
        BY <1>3, <1>4, <3>1
      <4>2. PointsToBatch(entries[i])
        BY <1>0, <4>1 DEF IInv, MemoryOK, Sound
      <4> QED
        BY <1>0, <4>1, <4>2 DEF PointsToBatch
    <3>2. CASE i = Len(entries) + 1
      BY <1>0, <1>3, <1>4, <2>1, <3>2 DEF PointsToBatch
    <3> QED
      BY <1>3, <3>1, <3>2
  <2>3. entries'[1] = Origin
    <3>1. CASE entries = <<>>
      <4>1. Len(entries) = 0 /\ Len(log) = 1
        BY <1>0, <3>1 DEF IInv, MemoryOK
      <4> QED
        BY <1>0, <1>1, <1>4, <4>1 DEF IInv, LogOK
    <3>2. CASE entries # <<>>
      BY <1>0, <1>3, <1>4, <3>2 DEF IInv, MemoryOK, Sound
    <3> QED
      BY <3>1, <3>2
  <2> QED
    BY <1>4, <1>5, <2>2, <2>3 DEF Sound
<1>8. /\ index' \in Seq(IndexEntry) /\ ragged' \in BOOLEAN /\ damaged' \in BOOLEAN
      /\ Len(index') \in Nat /\ Len(index) \in Nat /\ Len(index') >= Len(index)
      /\ indexSize' \in -1 .. Len(index')
  <2>1. indexSize \in -1 .. Len(index) /\ index \in Seq(IndexEntry) /\ ragged \in BOOLEAN /\ damaged \in BOOLEAN
    BY <1>0 DEF IInv, MemoryOK, FileOK
  <2>2. Append(index, Newest) \in Seq(IndexEntry) /\ Len(Append(index, Newest)) = Len(index) + 1
    BY <1>1, <2>1, AppendProperties
  <2>3. \/ UNCHANGED <<index, indexSize>>
        \/ index' = Append(index, Newest) /\ indexSize >= 0 /\ indexSize' = indexSize + 1
    BY <1>1, Zenon DEF AppendIndexEntry
  <2>4. ragged' \in BOOLEAN /\ damaged' \in BOOLEAN
    BY <2>1, Zenon DEF AppendIndexEntry
  <2> QED
    BY <2>1, <2>2, <2>3, <2>4
<1>9. LogOK' /\ FileOK'
  BY <1>0, <1>8 DEF IInv, LogOK, FileOK, Increasing
<1>10. MemoryOK'
  <2>1. LastPosition(entries)' = Newest.pos
    BY <1>3, <1>4 DEF LastPosition
  <2> QED
    BY <1>0, <1>2, <1>4, <1>7, <1>8, <2>1 DEF MemoryOK
<1>11. FileFollows'
  <2> SUFFICES ASSUME ~damaged' PROVE ~ragged' /\ index' = entries' /\ indexSize' >= 0
    BY <1>0 DEF FileFollows
  <2>1. ~damaged
    BY Zenon DEF AppendIndexEntry, IInv, FileOK
  <2>2. indexSize >= 0 /\ index = entries
    BY <1>0, <2>1 DEF IInv, FileFollows
  <2>3. indexSize # -1 /\ indexSize \in Int
    BY <1>0, <2>2 DEF IInv, MemoryOK, FileOK
  <2>4. index' = Append(index, Newest) /\ ~ragged' /\ indexSize' = indexSize + 1
    BY <1>1, <2>3, Zenon DEF AppendIndexEntry
  <2> QED
    BY <1>2, <2>2, <2>3, <2>4
<1> QED
  BY <1>9, <1>10, <1>11 DEF IInv

\* Flush.
LEMMA FlushIInv == IInv /\ Flush => IInv'
<1> SUFFICES ASSUME IInv, Flush PROVE IInv'
  OBVIOUS
<1>1. /\ UNCHANGED <<log, next, bytes, index, ragged, phase, entries, lastIndexed, indexSize, pc, damaged>>
      /\ logSynced' = Len(log) /\ indexSynced' \in {indexSynced, Len(index)}
  BY DEF Flush
<1>2. \A x : PointsToBatch(x) => PointsToBatch(x)'
  BY <1>1 DEF PointsToBatch
<1>3. Len(log) \in Nat /\ Len(index) \in Nat
  BY DEF IInv, LogOK, FileOK
<1>4. LogOK' /\ FileOK' /\ FileFollows'
  BY <1>1, <1>2, <1>3 DEF IInv, LogOK, FileOK, FileFollows, Increasing, Sound
<1>5. MemoryOK'
  BY <1>1, <1>2 DEF IInv, MemoryOK, Increasing, Sound, LastPosition, Newest
<1> QED
  BY <1>4, <1>5 DEF IInv

\* The process ends.
LEMMA CrashIInv == IInv /\ Crash => IInv'
<1> SUFFICES ASSUME IInv, Crash PROVE IInv'
  OBVIOUS
<1>1. /\ UNCHANGED <<log, next, bytes, logSynced, index, indexSynced, entries, lastIndexed, indexSize>>
      /\ phase = "open" /\ phase' = "down" /\ pc' = "idle"
      /\ UNCHANGED <<ragged, damaged>> \/ (ragged' = TRUE /\ damaged' = TRUE)
  <2>1. UNCHANGED <<ragged, damaged>> \/ (ragged' = TRUE /\ damaged' = TRUE)
    BY DEF Crash
  <2> QED
    BY <2>1 DEF Crash, logVars, memVars
<1>2. \A x : PointsToBatch(x) => PointsToBatch(x)'
  BY <1>1 DEF PointsToBatch
<1>3. LogOK' /\ FileOK' /\ MemoryOK'
  BY <1>1, Zenon DEF IInv, LogOK, FileOK, MemoryOK, Increasing, LastPosition
<1>4. FileFollows'
  <2> SUFFICES ASSUME ~damaged' PROVE ~ragged' /\ Sound(index)'
    BY <1>1 DEF FileFollows
  <2>1. UNCHANGED <<ragged, damaged>>
    BY <1>1
  <2>2. ~ragged /\ index = entries /\ Sound(entries)
    BY <1>1, <2>1 DEF IInv, FileFollows, MemoryOK
  <2> QED
    BY <1>1, <1>2, <2>1, <2>2 DEF Sound, Increasing
<1> QED
  BY <1>3, <1>4 DEF IInv

\* A power failure: the log loses a tail of unsynced batches, and the index
\* file may hold anything of the right form.
LEMMA PowerFailureIInv == IInv /\ PowerFailure => IInv'
<1> SUFFICES ASSUME IInv, PowerFailure PROVE IInv'
  OBVIOUS
<1>0. /\ phase' = "down" /\ pc' = "idle" /\ damaged' = TRUE /\ ragged' \in BOOLEAN
      /\ UNCHANGED <<entries, lastIndexed>>
  BY DEF PowerFailure, memVars
<1>1. LogOK' /\ logSynced' \in 0 .. Len(log')
  <2>1. PICK k \in logSynced .. Len(log) :
          /\ log' = SubSeq(log, 1, k)
          /\ next' = IF k = Len(log) THEN next ELSE log[k + 1].rel
          /\ bytes' = IF k = Len(log) THEN bytes ELSE log[k + 1].pos
          /\ logSynced' = k
    BY DEF PowerFailure
  <2>2. k \in Nat /\ log \in Seq(IndexEntry) /\ Len(log) \in Nat /\ k <= Len(log)
    BY DEF IInv, LogOK, FileOK
  <2>3. \A i \in 1 .. Len(log) : log[i] \in IndexEntry /\ log[i].rel \in Nat /\ log[i].pos \in Nat
    <3>1. \A i \in 1 .. Len(log) : log[i] \in IndexEntry
      BY <2>2, ElementOfSeq
    <3> QED
      BY <3>1 DEF IndexEntry
  <2>4. /\ log' \in Seq(IndexEntry) /\ Len(log') = k
        /\ \A i \in 1 .. k : log'[i] = log[i]
    <3>1. \A i \in 1 .. k : log[i] \in IndexEntry
      BY <2>2, <2>3
    <3> QED
      BY <2>1, <2>2, <3>1, SubSeqProperties
  <2>5. Increasing(log')
    BY <2>2, <2>4 DEF IInv, LogOK, Increasing
  <2>6. CASE k = Len(log)
    BY <2>1, <2>2, <2>4, <2>5, <2>6 DEF IInv, LogOK
  <2>7. CASE k < Len(log)
    <3>1. k + 1 \in 1 .. Len(log) /\ next' = log[k + 1].rel /\ bytes' = log[k + 1].pos
      BY <2>1, <2>2, <2>7
    <3>2. \A i \in 1 .. k : log'[i].rel < next' /\ log'[i].pos < bytes'
      BY <2>2, <2>4, <3>1 DEF IInv, LogOK, Increasing
    <3>3. log # <<>> /\ log[1] = Origin
      BY <2>2, <2>7 DEF IInv, LogOK
    <3>4. CASE k = 0
      BY <2>1, <2>3, <2>4, <2>5, <3>1, <3>2, <3>3, <3>4 DEF LogOK, Origin
    <3>5. CASE k > 0
      <4>1. log' # <<>> /\ log'[1] = Origin
        BY <2>2, <2>4, <3>3, <3>5
      <4>2. next' \in Nat /\ bytes' \in Nat /\ logSynced' \in 0 .. Len(log')
        BY <2>1, <2>2, <2>3, <2>4, <3>1
      <4> QED
        BY <2>4, <2>5, <3>2, <4>1, <4>2 DEF LogOK
    <3> QED
      BY <2>2, <3>4, <3>5
  <2> QED
    BY <2>2, <2>6, <2>7
<1>2. index' \in Seq(IndexEntry) /\ indexSynced' \in 0 .. Len(index')
  <2>1. PICK k \in indexSynced .. Len(index) :
          /\ index' \in {SubSeq(index, 1, k)} \cup
                        {[index EXCEPT ![i] = index[1]] : i \in k + 1 .. Len(index)}
          /\ indexSynced' = k
    BY DEF PowerFailure
  <2>2. k \in Nat /\ index \in Seq(IndexEntry) /\ Len(index) \in Nat /\ k <= Len(index)
    BY DEF IInv, FileOK
  <2>3. \A i \in 1 .. Len(index) : index[i] \in IndexEntry
    BY <2>2, ElementOfSeq
  <2>4. CASE index' = SubSeq(index, 1, k)
    <3>1. \A i \in 1 .. k : index[i] \in IndexEntry
      BY <2>2, <2>3
    <3>2. index' \in Seq(IndexEntry) /\ Len(index') = k
      BY <2>2, <2>4, <3>1, SubSeqProperties
    <3> QED
      BY <2>1, <2>2, <3>2
  <2>5. ASSUME NEW i \in k + 1 .. Len(index), index' = [index EXCEPT ![i] = index[1]]
        PROVE  index' \in Seq(IndexEntry) /\ indexSynced' \in 0 .. Len(index')
    <3>1. i \in 1 .. Len(index) /\ index[1] \in IndexEntry
      BY <2>2, <2>3
    <3>2. index' \in Seq(IndexEntry) /\ Len(index') = Len(index)
      BY <2>2, <2>5, <3>1, ExceptSeq
    <3> QED
      BY <2>1, <2>2, <3>2
  <2> QED
    BY <2>1, <2>4, <2>5
<1>3. FileOK' /\ MemoryOK' /\ FileFollows'
  BY <1>0, <1>1, <1>2 DEF IInv, FileOK, MemoryOK, FileFollows, LastPosition
<1> QED
  BY <1>1, <1>3 DEF IInv

\* An index file that passes the validation is sound.
LEMMA ValidSound ==
  ASSUME IInv, Valid
  PROVE  Sound(index)
<1>1. index \in Seq(IndexEntry)
  BY DEF IInv, FileOK
<1>2. Increasing(index)
  BY <1>1, NeighboursInOrder DEF Valid, Readable
<1> QED
  BY <1>1, <1>2 DEF Valid, Readable, Sound, Origin

\* Opening: the index is kept or rebuilt.
LEMMA OpenIInv == IInv /\ Open => IInv'
<1> SUFFICES ASSUME IInv, Open PROVE IInv'
  OBVIOUS
<1>0. /\ phase = "down" /\ phase' = "open" /\ UNCHANGED <<log, next, bytes, logSynced, pc>>
      /\ ragged' = FALSE /\ lastIndexed' = LastPosition(entries)' /\ indexSize' = Len(entries')
      /\ pc = "idle"
  BY DEF Open, logVars, IInv, MemoryOK, FileOK, LastPosition
<1>1. /\ Sound(entries') /\ index' = entries' /\ indexSynced' \in 0 .. Len(index')
      /\ log # <<>> => entries' # <<>>
      /\ damaged' \in BOOLEAN
  <2>1. CASE Valid
    <3>1. entries' = index /\ UNCHANGED <<index, indexSynced, damaged>>
      BY <2>1 DEF Open
    <3>2. Sound(index) /\ (log # <<>> => index # <<>>)
      BY <2>1, ValidSound DEF Valid
    <3> QED
      BY <3>1, <3>2 DEF IInv, FileOK
  <2>2. CASE ~Valid
    <3>1. /\ entries' = Rebuilt /\ index' = Rebuilt /\ indexSynced' = Len(Rebuilt) /\ damaged' = FALSE
      BY <2>2 DEF Open
    <3>2. Sound(Rebuilt) /\ (log # <<>> => Rebuilt # <<>>)
      BY RebuiltSound DEF IInv
    <3>3. Len(Rebuilt) \in Nat
      BY <3>2 DEF Sound
    <3>4. Sound(entries') /\ (log # <<>> => entries' # <<>>)
      BY <3>1, <3>2
    <3>5. index' = entries' /\ damaged' \in BOOLEAN
      BY <3>1, Zenon
    <3>6. Len(Rebuilt) \in 0 .. Len(Rebuilt)
      BY <3>3
    <3> QED
      BY <3>1, <3>4, <3>5, <3>6
  <2> QED
    BY <2>1, <2>2
<1>2. Sound(entries)'
  BY <1>0, <1>1 DEF Sound, PointsToBatch
<1>3. index' \in Seq(IndexEntry) /\ Len(index') \in Nat
  BY <1>1 DEF Sound
<1>4. LogOK' /\ FileOK'
  BY <1>0, <1>1, <1>3, Zenon DEF IInv, LogOK, FileOK, Increasing
<1>5. MemoryOK' /\ FileFollows'
  BY <1>0, <1>1, <1>2, <1>3 DEF MemoryOK, FileFollows
<1> QED
  BY <1>4, <1>5 DEF IInv

\* Every step preserves the inductive invariant.
LEMMA NextIInv == IInv /\ [Next]_vars => IInv'
<1> SUFFICES ASSUME IInv, [Next]_vars PROVE IInv'
  OBVIOUS
<1>1. CASE UNCHANGED vars
  <2>1. UNCHANGED <<log, next, bytes, logSynced, index, ragged, indexSynced, phase, entries, lastIndexed,
                    indexSize, pc, damaged>>
    BY <1>1 DEF vars, logVars, fileVars, memVars
  <2>2. \A x : PointsToBatch(x) => PointsToBatch(x)'
    BY <2>1 DEF PointsToBatch
  <2>3. LogOK' /\ FileOK' /\ FileFollows'
    BY <2>1, <2>2 DEF IInv, LogOK, FileOK, FileFollows, Increasing, Sound
  <2>4. MemoryOK'
    BY <2>1, <2>2 DEF IInv, MemoryOK, Increasing, Sound, LastPosition, Newest
  <2> QED
    BY <2>3, <2>4 DEF IInv
<1> QED
  BY <1>1, AppendBatchIInv, SkipEntryIInv, AppendIndexEntryIInv, FlushIInv, CrashIInv,
     PowerFailureIInv, OpenIInv DEF Next, Terminated

\* The inductive invariant holds in every reachable state.
THEOREM Invariance == Spec => []IInv
  BY InitIInv, NextIInv, PTL DEF Spec

-----------------------------------------------------------------------------
(***************************************************************************)
(* The theorems.                                                           *)
(***************************************************************************)
\* The fields of Segment and the index file keep their types and stay in
\* step: lastIndexedPosition is that of the last entry.
THEOREM TypesKept == Spec => []IndexTypeOK
<1>1. IInv => IndexTypeOK
  BY DEF IInv, FileOK, MemoryOK, IndexTypeOK
<1> QED
  BY Invariance, <1>1, PTL

\* Whatever the index went through, the binary search of Read starts at a
\* batch at or before the wanted offset, and at the closest indexed one.
THEOREM LookupCorrect == Spec => []LookupSound
<1>1. ASSUME IInv PROVE LookupSound
  <2> SUFFICES ASSUME phase = "open", pc = "idle", NEW o \in 0 .. next - 1
               PROVE  /\ \E i \in 1 .. Len(log) : log[i].pos = StartPos(o) /\ log[i].rel <= o
                      /\ \A i \in 1 .. Len(entries) : entries[i].rel <= o => entries[i].pos <= StartPos(o)
    BY DEF LookupSound
  <2> DEFINE n == Len(entries)
             holds == [j \in 0 .. n - 1 |-> entries[j + 1].rel > o]
             k == Search(n, holds)
  <2>1. /\ Sound(entries) /\ entries # <<>> /\ entries \in Seq(IndexEntry) /\ next \in Nat /\ o \in Nat
    BY <1>1 DEF IInv, LogOK, MemoryOK, Sound
  <2>2. n \in Nat /\ n > 0 /\ \A i \in 1 .. n : entries[i] \in IndexEntry
    BY <2>1, EmptySeq, ElementOfSeq
  <2>3. \A i \in 1 .. n : entries[i].rel \in Nat /\ entries[i].pos \in Nat
    BY <2>2 DEF IndexEntry
  <2>4. \A i, j \in 1 .. n : i < j => entries[i].rel < entries[j].rel /\ entries[i].pos < entries[j].pos
    BY <2>1 DEF Sound, Increasing
  <2> HIDE DEF n
  <2>5. \A j \in 0 .. n - 1 : holds[j] <=> entries[j + 1].rel > o
    BY Zenon
  <2>6. \A a, c \in 0 .. n - 1 : a <= c /\ holds[a] => holds[c]
    <3> SUFFICES ASSUME NEW a \in 0 .. n - 1, NEW c \in 0 .. n - 1, a < c, entries[a + 1].rel > o
                 PROVE  entries[c + 1].rel > o
      BY <2>2, <2>5
    <3>1. a + 1 \in 1 .. n /\ c + 1 \in 1 .. n /\ a + 1 < c + 1
      BY <2>2
    <3>2. entries[a + 1].rel < entries[c + 1].rel
      BY <2>4, <3>1
    <3> QED
      BY <2>1, <2>3, <3>1, <3>2
  <2> HIDE DEF holds
  <2>7. Splits(k, 0, n, holds)
    BY <2>2, <2>6, SearchCorrect
  <2>8. StartPos(o) = IF k = 0 THEN 0 ELSE entries[k].pos
    BY DEF StartPos, n, holds
  <2> HIDE DEF k
  <2>9. k \in 0 .. n /\ k # 0
    <3>1. ~holds[0]
      BY <2>1, <2>2, <2>5 DEF Sound, Origin
    <3> QED
      BY <2>2, <2>7, <3>1 DEF Splits
  <2>10. k \in 1 .. n /\ entries[k].rel <= o
    <3>1. ~holds[k - 1] /\ k - 1 \in 0 .. n - 1 /\ (k - 1) + 1 = k
      BY <2>2, <2>7, <2>9 DEF Splits
    <3> QED
      BY <2>1, <2>2, <2>3, <2>5, <2>9, <3>1
  <2>11. \E i \in 1 .. Len(log) : log[i].pos = StartPos(o) /\ log[i].rel <= o
    BY <2>1, <2>8, <2>9, <2>10 DEF Sound, PointsToBatch, n
  <2>12. ASSUME NEW i \in 1 .. n, entries[i].rel <= o PROVE entries[i].pos <= StartPos(o)
    <3>1. i <= k
      <4> SUFFICES ASSUME i > k PROVE FALSE
        BY <2>2, <2>9
      <4>1. i - 1 \in k .. n - 1 /\ i - 1 \in 0 .. n - 1 /\ (i - 1) + 1 = i
        BY <2>2, <2>9
      <4>2. holds[i - 1]
        BY <4>1, <2>7 DEF Splits
      <4> QED
        BY <4>1, <4>2, <2>1, <2>3, <2>5, <2>12
    <3> QED
      BY <3>1, <2>3, <2>4, <2>8, <2>9, <2>10
  <2> QED
    BY <2>11, <2>12 DEF n
<1> QED
  BY Invariance, <1>1, PTL

\* An index that only Append wrote, and wrote completely, passes the
\* validation whenever the process is restarted.
THEOREM UndamagedIndexKept == Spec => []UndamagedKept
<1>1. IInv => UndamagedKept
  <2> SUFFICES ASSUME IInv, phase = "down", ~damaged, index # <<>> PROVE Valid
    BY DEF UndamagedKept
  <2>1. ~ragged /\ Sound(index) /\ index \in Seq(IndexEntry)
    BY DEF IInv, FileFollows, FileOK
  <2>2. Len(index) \in Nat
    BY <2>1
  <2>3. Readable
    BY <2>1, <2>2 DEF Readable, Sound, Increasing, Origin
  <2> QED
    BY <2>1, <2>3 DEF Valid, Sound
<1> QED
  BY Invariance, <1>1, PTL
=============================================================================
