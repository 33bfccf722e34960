------------------------- MODULE BenchReportProofs --------------------------
(***************************************************************************)
(* Proofs about the producer of Bench, for any number of partitions,       *)
(* workers and records: its report accounts for every record and every     *)
(* offset, and its verification raises no false alarm.                     *)
(***************************************************************************)
EXTENDS BenchProofs

(***************************************************************************)
(* The producer's verification.  First, what the sum of the lengths of     *)
(* ranges is: MapThenSumSet is defined by a recursive function; counting   *)
(* the offsets satisfies that definition, and nothing else does.           *)
(***************************************************************************)
\* The offsets of an acknowledged range, and of a set of them.
Offsets(r) == r.base .. r.last
Cover(R) == UNION {Offsets(r) : r \in R}

\* A finite set of ranges that have no offset in common.
Separate(R) ==
  /\ IsFiniteSet(R)
  /\ \A r \in R : r.base \in Nat /\ r.last \in Nat /\ r.base <= r.last
  /\ \A r, s \in R : r # s => Offsets(r) \cap Offsets(s) = {}

\* What MapThenSumSet says of the function it is defined with, for the
\* lengths of ranges.
Adds(f, R) ==
  f = [s \in SUBSET R |->
         IF s = {} THEN 0
         ELSE LET x == CHOOSE x \in s : TRUE
              IN  (x.last - x.base + 1) + f[s \ {x}]]

\* Separate ranges cover a finite set of offsets, and one range more covers as
\* many more as it is long.
LEMMA CoverStep ==
  ASSUME NEW R, Separate(R), NEW x \in R
  PROVE  /\ IsFiniteSet(Cover(R)) /\ IsFiniteSet(Cover(R \ {x}))
         /\ Cardinality(Cover(R)) = (x.last - x.base + 1) + Cardinality(Cover(R \ {x}))
<1>1. ASSUME NEW S \in SUBSET R PROVE IsFiniteSet(Cover(S))
  <2>1. IsFiniteSet(S)
    BY FS_Subset DEF Separate
  <2> DEFINE T == {Offsets(r) : r \in S}
  <2>2. IsFiniteSet(T)
    <3> DEFINE f == [r \in S |-> Offsets(r)]
    <3>1. f \in Surjection(S, T)
      BY DEF Surjection
    <3> HIDE DEF f, T
    <3> QED
      BY <2>1, <3>1, FS_Surjection
  <2>3. \A t \in T : IsFiniteSet(t)
    BY FS_Interval DEF Separate, Offsets
  <2> HIDE DEF T
  <2>4. IsFiniteSet(UNION T)
    BY <2>2, <2>3, FS_UNION
  <2> QED
    BY <2>4 DEF T, Cover
<1>2. Cover(R) = Offsets(x) \cup Cover(R \ {x})
  BY DEF Cover
<1>3. Offsets(x) \cap Cover(R \ {x}) = {}
  BY DEF Cover, Separate
<1>4. IsFiniteSet(Offsets(x)) /\ Cardinality(Offsets(x)) = x.last - x.base + 1
  BY FS_Interval DEF Offsets, Separate
<1>5. IsFiniteSet(Cover(R)) /\ IsFiniteSet(Cover(R \ {x}))
  BY <1>1
<1>6. Cardinality(Cover(R)) = Cardinality(Offsets(x)) + Cardinality(Cover(R \ {x})) - Cardinality({})
  BY <1>2, <1>3, <1>4, <1>5, FS_Union, Zenon
<1>7. Cardinality(Cover(R \ {x})) \in Nat /\ Cardinality({}) = 0 /\ Cardinality(Offsets(x)) \in Nat
  BY <1>4, <1>5, FS_CardinalityType, FS_EmptySet
<1>8. Cardinality(Cover(R)) = Cardinality(Offsets(x)) + Cardinality(Cover(R \ {x}))
  BY <1>6, <1>7
<1> QED
  BY <1>4, <1>5, <1>8

\* A part of a set of separate ranges.
LEMMA SeparatePart ==
  ASSUME NEW R, Separate(R), NEW S \in SUBSET R
  PROVE  Separate(S)
<1>1. IsFiniteSet(S)
  BY FS_Subset DEF Separate
<1> QED
  BY <1>1 DEF Separate

\* Counting the offsets satisfies the definition of the sum of the lengths.
LEMMA CountAdds ==
  ASSUME NEW R, Separate(R)
  PROVE  Adds([s \in SUBSET R |-> Cardinality(Cover(s))], R)
<1> DEFINE f == [s \in SUBSET R |-> Cardinality(Cover(s))]
<1>1. ASSUME NEW s \in SUBSET R
      PROVE  f[s] = IF s = {} THEN 0
                    ELSE LET x == CHOOSE x \in s : TRUE
                         IN  (x.last - x.base + 1) + f[s \ {x}]
  <2>1. CASE s = {}
    <3>1. Cover({}) = {}
      BY DEF Cover
    <3> QED
      BY <2>1, <3>1, FS_EmptySet
  <2>2. CASE s # {}
    <3> DEFINE x == CHOOSE x \in s : TRUE
    <3>1. x \in s
      BY <2>2
    <3> HIDE DEF x
    <3>2. Cardinality(Cover(s)) = (x.last - x.base + 1) + Cardinality(Cover(s \ {x}))
      BY <3>1, SeparatePart, CoverStep
    <3>3. f[s] = Cardinality(Cover(s)) /\ f[s \ {x}] = Cardinality(Cover(s \ {x}))
      OBVIOUS
    <3> HIDE DEF f
    <3>4. f[s] = (x.last - x.base + 1) + f[s \ {x}]
      BY <3>2, <3>3
    <3> QED
      BY <2>2, <3>4 DEF x
  <2> QED
    BY <2>1, <2>2
<1>2. f = [s \in SUBSET R |-> f[s]]
  OBVIOUS
<1> HIDE DEF f
<1>3. Adds(f, R)
  BY <1>1, <1>2, Zenon DEF Adds
<1> QED
  BY <1>3 DEF f

\* Whatever satisfies the definition of the sum counts the offsets.
LEMMA AddsCount ==
  ASSUME NEW R, Separate(R), NEW f, Adds(f, R)
  PROVE  \A s \in SUBSET R : f[s] = Cardinality(Cover(s))
<1> SUFFICES ASSUME NEW u \in SUBSET R, f[u] # Cardinality(Cover(u)) PROVE FALSE
  OBVIOUS
<1> DEFINE Wrong == {s \in SUBSET R : f[s] # Cardinality(Cover(s))}
           T == {Cardinality(s) : s \in Wrong}
<1>1. \A s \in SUBSET R : IsFiniteSet(s) /\ Cardinality(s) \in Nat
  BY FS_Subset, FS_CardinalityType DEF Separate
<1>2. T \subseteq Nat /\ T # {}
  BY <1>1
<1>3. PICK m \in T : \A k \in T : m <= k
  <2> HIDE DEF T
  <2> QED
    BY <1>2, LeastElement
<1>4. PICK s \in Wrong : \A t \in Wrong : Cardinality(s) <= Cardinality(t)
  BY <1>3
<1>5. f[s] = IF s = {} THEN 0
             ELSE LET x == CHOOSE x \in s : TRUE
                  IN  (x.last - x.base + 1) + f[s \ {x}]
  BY DEF Adds
<1>6. CASE s = {}
  <2>1. Cover({}) = {}
    BY DEF Cover
  <2> QED
    BY <1>5, <1>6, <2>1, FS_EmptySet
<1>7. CASE s # {}
  <2> DEFINE x == CHOOSE x \in s : TRUE
  <2>1. x \in s
    BY <1>7
  <2>2. f[s] = (x.last - x.base + 1) + f[s \ {x}]
    BY <1>5, <1>7
  <2> HIDE DEF x
  <2>3. Cardinality(s \ {x}) = Cardinality(s) - 1
    BY <1>1, <2>1, FS_RemoveElement
  <2>4. Cardinality(s) \in Nat /\ ~(Cardinality(s) <= Cardinality(s \ {x}))
    BY <1>1, <2>3
  <2>5. s \ {x} \notin Wrong
    BY <1>4, <2>4
  <2>6. f[s \ {x}] = Cardinality(Cover(s \ {x}))
    BY <2>5
  <2>7. Cardinality(Cover(s)) = (x.last - x.base + 1) + Cardinality(Cover(s \ {x}))
    BY <2>1, SeparatePart, CoverStep, Zenon
  <2> QED
    BY <2>2, <2>6, <2>7
<1> QED
  BY <1>6, <1>7

\* verifyOffsets' sum over the acknowledged ranges of a partition is the number
\* of offsets in them, when no two of them have an offset in common.
LEMMA RecordsCounted ==
  ASSUME NEW p, Separate(RangesOf(p))
  PROVE  RecordsOf(p) = Cardinality(Cover(RangesOf(p)))
<1> DEFINE R == RangesOf(p)
           f == CHOOSE g : Adds(g, R)
<1>1. Adds(f, R)
  BY CountAdds, Zenon
<1>2. RecordsOf(p) = f[R]
  BY DEF RecordsOf, MapThenSumSet, MapThenFoldSet, Adds
<1> HIDE DEF f, R
<1>3. f[R] = Cardinality(Cover(R))
  BY <1>1, AddsCount DEF R
<1> QED
  BY <1>2, <1>3 DEF R

-----------------------------------------------------------------------------
(***************************************************************************)
(* The ranges of offsets: they tile what the run added to the logs.        *)
(***************************************************************************)
\* The range of offsets that the records of a handled request got.
Written(w) ==
  [part |-> worker[w].req.part, base |-> worker[w].base,
   last |-> worker[w].base + worker[w].req.n - 1]
Handled == {w \in Workers : worker[w].pc = "handled"}
Appends == ranges \cup {Written(w) : w \in Handled}

\* What the run appended and a worker knows of, or will know of, lies in the
\* part of the logs that is new, without overlap; and when nothing is lost it
\* is all of that part.
Tiles ==
  /\ initial \in [Partitions -> Nat] /\ final \in [Partitions -> Nat]
  /\ \A p \in Partitions : initial[p] <= logEnd[p]
  /\ IsFiniteSet(ranges)
  /\ \A r \in Appends :
       /\ r.part \in Partitions /\ r.base \in Nat /\ r.last \in Nat
       /\ initial[r.part] <= r.base /\ r.base <= r.last /\ r.last < logEnd[r.part]
  /\ \A r, s \in Appends : r # s /\ r.part = s.part => Offsets(r) \cap Offsets(s) = {}
  /\ outcome # "exited" /\ ~lost =>
       \A p \in Partitions : \A o \in initial[p] .. logEnd[p] - 1 :
         \E r \in Appends : r.part = p /\ o \in Offsets(r)
  /\ outcome = "not started" => ranges = {} /\ Handled = {}

\* The last of n offsets.
LEMMA LastOffset ==
  \A e, n \in Nat : n > 0 => e + n - 1 \in Nat /\ e <= e + n - 1 /\ e + n - 1 < e + n
  OBVIOUS

\* Membership of intervals.
LEMMA Intervals ==
  /\ \A a, c, o \in Nat : o \in a .. c <=> a <= o /\ o <= c
  /\ \A a, b, c, d \in Nat : a <= b /\ c < d => b .. c \subseteq a .. d - 1
  OBVIOUS

\* Steps that leave the logs alone.
LEMMA QuietGrows ==
  ASSUME PInv, logEnd' = logEnd
  PROVE  Grows
<1>1. \A p \in Partitions : logEnd[p] \in Nat
  BY DEF PInv, TopicTypes
<1> QED
  BY <1>1 DEF Grows

\* An offset of a partition stays one.
LEMMA StaysBelow ==
  ASSUME PInv, PInv', Grows, NEW p \in Partitions, NEW x \in Nat, x < logEnd[p]
  PROVE  x < logEnd'[p]
<1>1. logEnd[p] \in Nat /\ logEnd'[p] \in Nat /\ logEnd[p] <= logEnd'[p]
  BY DEF PInv, TopicTypes, Grows
<1> QED
  BY <1>1

\* Steps that append nothing, or nothing that is not lost.
LEMMA KeptTiles ==
  ASSUME PInv, PInv', Grows, Tiles, Appends' \subseteq Appends, IsFiniteSet(ranges'),
         initial' = initial, final' \in [Partitions -> Nat],
         outcome' # "exited" /\ ~lost' => outcome # "exited" /\ ~lost /\ Appends' = Appends /\ logEnd' = logEnd,
         outcome' = "not started" => ranges' = {} /\ Handled' = {}
  PROVE  Tiles'
<1>1. ASSUME NEW r \in Appends'
      PROVE  /\ r.part \in Partitions /\ r.base \in Nat /\ r.last \in Nat
             /\ initial'[r.part] <= r.base /\ r.base <= r.last /\ r.last < logEnd'[r.part]
  <2>1. /\ r.part \in Partitions /\ r.base \in Nat /\ r.last \in Nat
        /\ initial[r.part] <= r.base /\ r.base <= r.last /\ r.last < logEnd[r.part]
    BY <1>1 DEF Tiles
  <2>2. r.last < logEnd'[r.part]
    BY <2>1, StaysBelow
  <2> QED
    BY <2>1, <2>2
<1>2. \A r, s \in Appends' : r # s /\ r.part = s.part => Offsets(r) \cap Offsets(s) = {}
  BY DEF Tiles
<1>3. outcome' # "exited" /\ ~lost' =>
       \A p \in Partitions : \A o \in initial'[p] .. logEnd'[p] - 1 :
         \E r \in Appends' : r.part = p /\ o \in Offsets(r)
  BY DEF Tiles
<1>4. initial' \in [Partitions -> Nat] /\ final' \in [Partitions -> Nat]
  BY DEF Tiles
<1>5. \A p \in Partitions : initial'[p] <= logEnd'[p]
  BY Below DEF Tiles, Grows, PInv, TopicTypes
<1> QED
  BY <1>1, <1>2, <1>3, <1>4, <1>5, Zenon DEF Tiles, Offsets

\* A request is handled.
LEMMA HandleTiles ==
  ASSUME PInv, PInv', Tiles, NEW w \in Workers, Handle(w)
  PROVE  Tiles'
<1> DEFINE q == worker[w].req.part
           n == worker[w].req.n
           x == [part |-> q, base |-> logEnd[q], last |-> logEnd[q] + n - 1]
<1>1. /\ worker \in [Workers -> WorkerState] /\ worker[w] \in WorkerState
      /\ q \in Partitions /\ n \in Nat /\ logEnd \in [Partitions -> Nat]
  BY DEF PInv, TopicTypes, ProducerTypes, WorkerState, Request
<1>2. /\ worker[w].pc = "sent" /\ logEnd' = [logEnd EXCEPT ![q] = @ + n]
      /\ worker' = [worker EXCEPT ![w].pc = "handled", ![w].base = logEnd[q]]
      /\ outcome = "running" /\ UNCHANGED <<ranges, initial, final, lost, outcome>>
  BY DEF Handle, At, Appended, counters
<1>3. n > 0
  BY <1>2 DEF PInv, ProducerTypes
<1>4. /\ \A v \in Workers : v # w => worker'[v] = worker[v]
      /\ worker'[w].pc = "handled" /\ worker'[w].req = worker[w].req /\ worker'[w].base = logEnd[q]
  BY <1>1, <1>2 DEF WorkerState
<1>5. Appends' = Appends \cup {x}
  <2>1. Handled' = Handled \cup {w} /\ w \notin Handled
    BY <1>2, <1>4, Zenon DEF Handled
  <2>2. Written(w)' = x
    BY <1>4 DEF Written
  <2>3. \A v \in Handled : Written(v)' = Written(v)
    BY <1>4, <2>1 DEF Written, Handled
  <2>4. {Written(v)' : v \in Handled'} = {Written(v) : v \in Handled} \cup {x}
    BY <2>1, <2>2, <2>3
  <2> QED
    BY <1>2, <2>4 DEF Appends
<1>6. logEnd[q] \in Nat /\ logEnd'[q] = logEnd[q] + n /\ \A p \in Partitions : p # q => logEnd'[p] = logEnd[p]
  BY <1>1, <1>2
<1>7. \A r \in Appends :
        /\ r.part \in Partitions /\ r.base \in Nat /\ r.last \in Nat
        /\ initial[r.part] <= r.base /\ r.base <= r.last /\ r.last < logEnd[r.part]
  BY DEF Tiles
<1>8. initial \in [Partitions -> Nat] /\ \A p \in Partitions : initial[p] <= logEnd[p]
  BY DEF Tiles
<1>9. /\ x.part = q /\ x.base = logEnd[q] /\ x.last = logEnd[q] + n - 1
      /\ x.base \in Nat /\ x.last \in Nat /\ x.base <= x.last /\ x.last < logEnd[q] + n
  <2>1. x.part = q /\ x.base = logEnd[q] /\ x.last = logEnd[q] + n - 1
    BY DEF x
  <2>2. logEnd[q] \in Nat /\ n \in Nat /\ n > 0
    BY <1>1, <1>3, <1>6
  <2> HIDE DEF q, n, x
  <2> QED
    BY <2>1, <2>2, LastOffset
<1> HIDE DEF q, n, x
<1>10. ASSUME NEW r \in Appends'
       PROVE  /\ r.part \in Partitions /\ r.base \in Nat /\ r.last \in Nat
              /\ initial'[r.part] <= r.base /\ r.base <= r.last /\ r.last < logEnd'[r.part]
  <2>1. CASE r = x
    BY <1>1, <1>2, <1>6, <1>8, <1>9, <2>1
  <2>2. CASE r \in Appends /\ r.part # q
    BY <1>2, <1>6, <1>7, <2>2
  <2>3. CASE r \in Appends /\ r.part = q
    <3>1. r.last < logEnd[q] + n
      BY <1>1, <1>6, <1>7, <2>3, Below
    <3> QED
      BY <1>2, <1>6, <1>7, <2>3, <3>1
  <2> QED
    BY <1>5, <1>10, <2>1, <2>2, <2>3
<1>11. ASSUME NEW r \in Appends, r.part = q PROVE Offsets(r) \cap Offsets(x) = {}
  <2>1. r.base \in Nat /\ r.last \in Nat /\ r.last < x.base
    BY <1>7, <1>9, <1>11
  <2> QED
    BY <1>9, <2>1 DEF Offsets
<1>12. \A r, s \in Appends' : r # s /\ r.part = s.part => Offsets(r) \cap Offsets(s) = {}
  <2>1. \A r, s \in Appends : r # s /\ r.part = s.part => Offsets(r) \cap Offsets(s) = {}
    BY DEF Tiles
  <2> QED
    BY <1>5, <1>9, <1>11, <2>1
<1>13. ASSUME ~lost, NEW p \in Partitions, NEW o \in initial[p] .. logEnd'[p] - 1
       PROVE  \E r \in Appends' : r.part = p /\ o \in Offsets(r)
  <2>0. initial[p] \in Nat /\ logEnd[p] \in Nat
    BY <1>1, <1>8
  <2>1. CASE o \in initial[p] .. logEnd[p] - 1
    BY <1>2, <1>5, <1>13, <2>1 DEF Tiles
  <2>2. CASE o \notin initial[p] .. logEnd[p] - 1
    <3>1. p = q /\ o \in logEnd[q] .. logEnd[q] + n - 1
      BY <1>1, <1>6, <2>0, <2>2
    <3>2. o \in Offsets(x)
      BY <1>9, <3>1 DEF Offsets
    <3> QED
      BY <1>5, <1>9, <3>1, <3>2
  <2> QED
    BY <2>1, <2>2
<1>14. \A p \in Partitions : initial'[p] <= logEnd'[p]
  <2> SUFFICES ASSUME NEW p \in Partitions PROVE initial[p] <= logEnd'[p]
    BY <1>2
  <2>1. initial[p] \in Nat /\ logEnd[p] \in Nat /\ initial[p] <= logEnd[p]
    BY <1>1, <1>8
  <2>2. CASE p = q
    BY <1>1, <1>6, <2>1, <2>2
  <2>3. CASE p # q
    BY <1>6, <2>1, <2>3
  <2> QED
    BY <2>2, <2>3
<1> QED
  BY <1>2, <1>8, <1>10, <1>12, <1>13, <1>14 DEF Tiles, Offsets

\* A step of a worker that neither appends nor acknowledges.
LEMMA QuietTiles ==
  ASSUME PInv, PInv', Tiles, NEW w \in Workers, worker[w].pc # "handled", worker'[w].pc # "handled",
         \A v \in Workers : v # w => worker'[v] = worker[v], outcome = "running",
         UNCHANGED <<ranges, initial, final, lost, outcome, logEnd>>
  PROVE  Tiles'
<1>1. Handled' = Handled /\ \A v \in Handled : worker'[v] = worker[v]
  BY DEF Handled
<1>2. \A v \in Handled : Written(v)' = Written(v)
  BY <1>1 DEF Written
<1>3. Appends' = Appends
  BY <1>1, <1>2 DEF Appends
<1>4. Grows
  BY QuietGrows
<1>5. IsFiniteSet(ranges') /\ final' \in [Partitions -> Nat]
  BY DEF Tiles
<1> QED
  BY <1>3, <1>4, <1>5, KeptTiles

\* A worker forgets what it appended, and the records are lost.
LEMMA LostTiles ==
  ASSUME PInv, PInv', Tiles, NEW w \in Workers, worker'[w].pc # "handled",
         worker[w].pc # "handled" \/ lost',
         \A v \in Workers : v # w => worker'[v] = worker[v], outcome = "running",
         lost => lost',
         UNCHANGED <<ranges, initial, final, outcome, logEnd>>
  PROVE  Tiles'
<1>1. Handled' = Handled \ {w} /\ \A v \in Handled' : worker'[v] = worker[v]
  BY DEF Handled
<1>2. \A v \in Handled' : Written(v)' = Written(v)
  BY <1>1 DEF Written
<1>3. Appends' \subseteq Appends /\ (~lost' => Appends' = Appends)
  <2>1. ~lost' => Handled' = Handled
    BY <1>1 DEF Handled
  <2> QED
    BY <1>1, <1>2, <2>1 DEF Appends
<1>4. Grows
  BY QuietGrows
<1>5. IsFiniteSet(ranges') /\ final' \in [Partitions -> Nat]
  BY DEF Tiles
<1> QED
  BY <1>3, <1>4, <1>5, KeptTiles

\* A step of a worker keeps the tiling.
LEMMA WorkerTiles ==
  ASSUME NEW w \in Workers, PInv, PInv', Tiles, WorkerStep(w)
  PROVE  Tiles'
<1>0. worker \in [Workers -> WorkerState]
  BY DEF PInv, ProducerTypes
<1> USE DEF topicVars, counters
<1>1. CASE Leave(w)
  BY <1>0, <1>1, QuietTiles DEF Leave, At, GoTo, WorkerState
<1>2. CASE Claim(w)
  <2> DEFINE new == [Idle EXCEPT !.pc = "claimed",
                                 !.req = [id |-> nextRecord, part |-> 0, n |-> ClaimSize(nextRecord)]]
  <2>1. new.pc = "claimed" /\ worker' = [worker EXCEPT ![w] = new] /\ worker[w].pc = "loop"
        /\ outcome = "running" /\ UNCHANGED <<ranges, initial, final, lost, outcome, logEnd>>
    BY <1>2 DEF Claim, Idle, At
  <2> HIDE DEF new
  <2> QED
    BY <1>0, <2>1, QuietTiles
<1>3. CASE Send(w)
  <2>1. PICK q : worker' = [worker EXCEPT ![w].pc = "sent", ![w].req.part = q]
    BY <1>3 DEF Send
  <2>2. worker'[w].pc = "sent" /\ \A v \in Workers : v # w => worker'[v] = worker[v]
    BY <1>0, <2>1 DEF WorkerState
  <2>3. worker[w].pc = "claimed"
        /\ outcome = "running" /\ UNCHANGED <<ranges, initial, final, lost, outcome, logEnd>>
    BY <1>3 DEF Send, At
  <2> QED
    BY <2>2, <2>3, QuietTiles
<1>4. CASE Handle(w)
  BY <1>4, HandleTiles
<1>5. CASE Acknowledge(w)
  <2>1. /\ worker[w].pc = "handled" /\ worker' = [worker EXCEPT ![w].pc = "loop"]
        /\ ranges' = ranges \cup {Written(w)}
        /\ outcome = "running" /\ UNCHANGED <<initial, final, lost, outcome, logEnd>>
    BY <1>5 DEF Acknowledge, At, GoTo, Written
  <2>2. worker'[w].pc = "loop" /\ \A v \in Workers : v # w => worker'[v] = worker[v]
    BY <1>0, <2>1 DEF WorkerState
  <2>3. Handled' = Handled \ {w} /\ w \in Handled /\ \A v \in Handled' : worker'[v] = worker[v]
    BY <2>1, <2>2 DEF Handled
  <2>4. \A v \in Handled' : Written(v)' = Written(v)
    BY <2>3 DEF Written
  <2>5. Appends' = Appends
    BY <2>1, <2>3, <2>4 DEF Appends
  <2>6. IsFiniteSet(ranges')
    BY <2>1, FS_AddElement DEF Tiles
  <2>7. Grows /\ final' \in [Partitions -> Nat]
    BY <2>1 DEF Grows, PInv, TopicTypes, Tiles
  <2> QED
    BY <2>1, <2>5, <2>6, <2>7, KeptTiles
<1>6. CASE RequestFails(w)
  <2>1. PICK e : worker' = [worker EXCEPT ![w].pc = "crash", ![w].err = e]
    BY <1>6, Zenon DEF RequestFails
  <2>2. worker'[w].pc = "crash" /\ \A v \in Workers : v # w => worker'[v] = worker[v]
    BY <1>0, <2>1 DEF WorkerState
  <2>3. /\ worker[w].pc # "handled" \/ lost'
        /\ outcome = "running" /\ (lost => lost')
        /\ UNCHANGED <<ranges, initial, final, outcome, logEnd>>
    BY <1>6 DEF RequestFails, GiveUp, At
  <2> QED
    BY <2>2, <2>3, LostTiles
<1>7. CASE RequestCancelled(w)
  <2>1. worker' = [worker EXCEPT ![w].pc = "loop"]
    BY <1>7 DEF RequestCancelled, GoTo
  <2>2. worker'[w].pc = "loop" /\ \A v \in Workers : v # w => worker'[v] = worker[v]
    BY <1>0, <2>1 DEF WorkerState
  <2>3. /\ worker[w].pc # "handled" \/ lost'
        /\ outcome = "running" /\ (lost => lost')
        /\ UNCHANGED <<ranges, initial, final, outcome, logEnd>>
    BY <1>7 DEF RequestCancelled, GiveUp, At
  <2> QED
    BY <2>2, <2>3, LostTiles
<1>8. CASE RecordError(w)
  BY <1>0, <1>8, QuietTiles DEF RecordError, At, GoTo, WorkerState
<1>9. CASE CancelRun(w)
  BY <1>0, <1>9, QuietTiles DEF CancelRun, At, GoTo, WorkerState
<1> QED
  BY <1>1, <1>2, <1>3, <1>4, <1>5, <1>6, <1>7, <1>8, <1>9 DEF WorkerStep

-----------------------------------------------------------------------------
(***************************************************************************)
(* The conclusions of the main goroutine.                                  *)
(***************************************************************************)
\* After wg.Wait the acknowledged ranges of a partition are separate, and lie in
\* the part of the log that is new.
LEMMA EndRanges ==
  ASSUME PInv, Tiles, Handled = {}, NEW p \in Partitions, RangesOf(p) # {}
  PROVE  /\ Separate(RangesOf(p))
         /\ Cover(RangesOf(p)) \subseteq initial[p] .. logEnd[p] - 1
         /\ initial[p] \in Nat /\ logEnd[p] \in Nat /\ initial[p] < logEnd[p]
<1>1. Appends = ranges
  BY DEF Appends
<1>2. \A r \in RangesOf(p) :
        /\ r \in ranges /\ r.part = p /\ r.base \in Nat /\ r.last \in Nat
        /\ initial[p] <= r.base /\ r.base <= r.last /\ r.last < logEnd[p]
  BY <1>1, ZenonT(30) DEF RangesOf, Tiles
<1>3. IsFiniteSet(RangesOf(p))
  BY FS_Subset DEF RangesOf, Tiles
<1>4. \A r, s \in RangesOf(p) : r # s => Offsets(r) \cap Offsets(s) = {}
  BY <1>1, <1>2, Zenon DEF Tiles
<1>5. initial[p] \in Nat /\ logEnd[p] \in Nat
  BY DEF Tiles, PInv, TopicTypes
<1>6. \A r \in RangesOf(p) : Offsets(r) \subseteq initial[p] .. logEnd[p] - 1
  BY <1>2, <1>5, Intervals, Zenon DEF Offsets
<1>7. Cover(RangesOf(p)) \subseteq initial[p] .. logEnd[p] - 1
  BY <1>6 DEF Cover
<1>8. initial[p] < logEnd[p]
  <2>1. PICK r \in RangesOf(p) : TRUE
    OBVIOUS
  <2>2. r.base \in Nat /\ r.last \in Nat /\ initial[p] <= r.base /\ r.base <= r.last /\ r.last < logEnd[p]
    BY <1>2
  <2> QED
    BY <1>5, <2>2
<1> QED
  BY <1>2, <1>3, <1>4, <1>5, <1>7, <1>8, Zenon DEF Separate

\* The sum over the ranges equals the growth exactly when the ranges are the
\* whole of what is new.
LEMMA GrowthIsCover ==
  ASSUME PInv, Tiles, Handled = {}, NEW p \in Partitions, RangesOf(p) # {}
  PROVE  logEnd[p] - initial[p] = RecordsOf(p) <=> Cover(RangesOf(p)) = initial[p] .. logEnd[p] - 1
<1> DEFINE a == initial[p]
           b == logEnd[p]
           C == Cover(RangesOf(p))
<1>1. C \subseteq a .. b - 1 /\ a \in Nat /\ b \in Nat /\ a < b /\ Separate(RangesOf(p))
  BY EndRanges
<1>2. RecordsOf(p) = Cardinality(C)
  BY <1>1, RecordsCounted
<1> HIDE DEF a, b, C
<1>3. IsFiniteSet(a .. b - 1) /\ Cardinality(a .. b - 1) = b - a
  BY <1>1, FS_Interval
<1>4. Cardinality(C) = b - a <=> C = a .. b - 1
  BY <1>1, <1>3, FS_Subset, Zenon
<1> QED
  BY <1>2, <1>4 DEF a, b, C

\* Separate ranges that cover an interval follow each other.
LEMMA CoverContinuous ==
  ASSUME NEW R, Separate(R), NEW a \in Nat, NEW b \in Nat, Cover(R) = a .. b - 1,
         NEW r \in R, NEW s \in R, r.base < s.base,
         ~(\E t \in R : r.base < t.base /\ t.base < s.base)
  PROVE  r.last + 1 = s.base
<1>1. /\ r.base \in Nat /\ r.last \in Nat /\ r.base <= r.last
      /\ s.base \in Nat /\ s.last \in Nat /\ s.base <= s.last
  BY DEF Separate
<1>2. r # s /\ Offsets(r) \cap Offsets(s) = {}
  BY <1>1 DEF Separate
<1>3. r.last < s.base
  <2>1. s.base \in Offsets(s)
    BY <1>1 DEF Offsets
  <2>2. s.base \notin Offsets(r)
    BY <1>2, <2>1
  <2> QED
    BY <1>1, <2>2 DEF Offsets
<1>4. CASE r.last + 1 < s.base
  <2>1. r.last \in Cover(R) /\ s.base \in Cover(R)
    BY <1>1 DEF Cover, Offsets
  <2>2. r.last + 1 \in Cover(R)
    BY <1>1, <1>4, <2>1
  <2>3. PICK t \in R : r.last + 1 \in Offsets(t)
    BY <2>2 DEF Cover
  <2>4. t.base \in Nat /\ t.last \in Nat /\ t.base <= r.last + 1 /\ r.last + 1 <= t.last
    BY <2>3 DEF Offsets, Separate
  <2>5. t # r
    BY <1>1, <2>4
  <2>6. r.last \notin Offsets(t)
    <3>1. r.last \in Offsets(r)
      BY <1>1 DEF Offsets
    <3> QED
      BY <2>5, <3>1 DEF Separate
  <2>7. t.base = r.last + 1
    BY <1>1, <2>4, <2>6 DEF Offsets
  <2>8. r.base < t.base /\ t.base < s.base
    BY <1>1, <1>4, <2>7
  <2> QED
    BY <2>8
<1> QED
  BY <1>1, <1>3, <1>4

\* What Run concludes from the offsets is right.
LEMMA EndsRight ==
  ASSUME PInv, Tiles, ProducerEnds
  PROVE  ReportExact' /\ NoFalseAlarm'
<1>1. Handled = {} /\ outcome = "running" /\ UNCHANGED <<ranges, initial, lost, logEnd>>
  BY Zenon DEF ProducerEnds, AllDone, Handled, topicVars, counters
<1>2. \A p : RangesOf(p)' = RangesOf(p)
  BY <1>1 DEF RangesOf
<1>3. ASSUME GrowthMatches(logEnd), NEW p \in Partitions, RangesOf(p) # {}
      PROVE  Cover(RangesOf(p)) = initial[p] .. logEnd[p] - 1
  BY <1>1, <1>3, GrowthIsCover DEF GrowthMatches
<1>4. GrowthMatches(logEnd) => RangesContinuous
  <2> SUFFICES ASSUME GrowthMatches(logEnd), NEW p \in Partitions, NEW r \in RangesOf(p), NEW s \in RangesOf(p),
                      r.base < s.base,
                      ~(\E t \in RangesOf(p) : r.base < t.base /\ t.base < s.base)
               PROVE  r.last + 1 = s.base
    BY DEF RangesContinuous
  <2>1. /\ Separate(RangesOf(p)) /\ initial[p] \in Nat /\ logEnd[p] \in Nat
        /\ Cover(RangesOf(p)) = initial[p] .. logEnd[p] - 1
    BY <1>1, <1>3, EndRanges, Zenon
  <2> QED
    BY <2>1, CoverContinuous
<1>5. ~lost => GrowthMatches(logEnd)
  <2> SUFFICES ASSUME ~lost, NEW p \in Partitions, RangesOf(p) # {}
               PROVE  logEnd[p] - initial[p] = RecordsOf(p)
    BY DEF GrowthMatches
  <2>1. \A o \in initial[p] .. logEnd[p] - 1 : \E r \in ranges : r.part = p /\ o \in Offsets(r)
    <3>1. Appends = ranges
      BY <1>1 DEF Appends
    <3>2. outcome # "exited"
      BY <1>1
    <3> QED
      BY <3>1, <3>2, Zenon DEF Tiles
  <2>2. initial[p] .. logEnd[p] - 1 \subseteq Cover(RangesOf(p))
    BY <2>1 DEF Cover, RangesOf
  <2>3. Cover(RangesOf(p)) \subseteq initial[p] .. logEnd[p] - 1
    BY <1>1, EndRanges, Zenon
  <2> QED
    BY <1>1, <2>2, <2>3, GrowthIsCover, Zenon
<1>6. NoFalseAlarm'
  <2>1. outcome' = "offset mismatch" => ~GrowthMatches(logEnd)
    BY DEF ProducerEnds
  <2>2. outcome' = "discontinuity" => GrowthMatches(logEnd) /\ ~RangesContinuous
    BY DEF ProducerEnds
  <2>3. lost' <=> lost
    BY <1>1
  <2> QED
    BY <1>4, <1>5, <2>1, <2>2, <2>3 DEF NoFalseAlarm
<1>7. ASSUME outcome' = "report" PROVE GrowthMatches(logEnd) /\ final' = logEnd
  BY <1>7 DEF ProducerEnds
<1>8. ReportExact'
  <2> SUFFICES ASSUME outcome' = "report", NEW p \in Partitions, RangesOf(p) # {}, NEW o \in initial[p] .. logEnd[p]
               PROVE  Cardinality({r \in RangesOf(p) : r.base <= o /\ o <= r.last})
                        = IF o < logEnd[p] THEN 1 ELSE 0
    <3>1. outcome' = "report" => final' = logEnd
      BY <1>7
    <3>2. ReportExact' <=>
            (outcome' = "report" =>
               \A p \in Partitions :
                 RangesOf(p) # {} =>
                   \A o \in initial[p] .. final'[p] :
                     Cardinality({r \in RangesOf(p) : r.base <= o /\ o <= r.last})
                       = IF o < final'[p] THEN 1 ELSE 0)
      BY <1>1, <1>2, Zenon DEF ReportExact
    <3> QED
      BY <3>1, <3>2, Zenon
  <2> DEFINE S == {r \in RangesOf(p) : r.base <= o /\ o <= r.last}
  <2>1. /\ Separate(RangesOf(p)) /\ initial[p] \in Nat /\ logEnd[p] \in Nat
        /\ Cover(RangesOf(p)) = initial[p] .. logEnd[p] - 1
    BY <1>1, <1>3, <1>7, EndRanges, Zenon
  <2>2. o \in Nat
    BY <2>1
  <2>3. \A r \in RangesOf(p) : r \in S <=> o \in Offsets(r)
    <3>1. \A r \in RangesOf(p) : r.base \in Nat /\ r.last \in Nat
      BY <2>1 DEF Separate
    <3> QED
      BY <2>2, <3>1, Intervals, ZenonT(30) DEF Offsets
  <2> HIDE DEF S
  <2>4. S \subseteq RangesOf(p)
    BY DEF S
  <2>5. CASE o < logEnd[p]
    <3>1. o \in Cover(RangesOf(p))
      BY <2>1, <2>2, <2>5
    <3>2. PICK r \in RangesOf(p) : o \in Offsets(r)
      BY <3>1 DEF Cover
    <3>3. \A s \in S : s = r
      BY <2>1, <2>3, <2>4, <3>2, Zenon DEF Separate
    <3>4. S = {r}
      BY <2>3, <3>2, <3>3
    <3>5. Cardinality(S) = 1
      BY <3>4, FS_Singleton
    <3> QED
      BY <2>5, <3>5 DEF S
  <2>6. CASE ~(o < logEnd[p])
    <3>1. o \notin Cover(RangesOf(p))
      BY <2>1, <2>2, <2>6
    <3>2. S = {}
      BY <2>3, <2>4, <3>1 DEF Cover
    <3>3. Cardinality(S) = 0
      BY <3>2, FS_EmptySet
    <3> QED
      BY <2>6, <3>3 DEF S
  <2> QED
    BY <2>5, <2>6
<1> QED
  BY <1>6, <1>8
-----------------------------------------------------------------------------
(***************************************************************************)
(* The counters: every claimed record is accounted for.                    *)
(***************************************************************************)
\* The record numbers that a worker has claimed and whose outcome it does not
\* know yet.
Held(w) ==
  IF worker[w].pc \in {"claimed", "sent", "handled"}
  THEN worker[w].req.id .. worker[w].req.id + worker[w].req.n - 1
  ELSE {}
Outstanding == UNION {Held(w) : w \in Workers}

\* The number of records that are claimed.
Taken == IF nextRecord <= Total THEN nextRecord ELSE Total

\* Every claimed record is held by one worker, or was counted as acknowledged
\* or as failed.
Balanced ==
  /\ IsFiniteSet(Outstanding)
  /\ acknowledged + failed + Cardinality(Outstanding) = Taken
  /\ \A w \in Workers : \A i \in Held(w) : i < Taken
  /\ \A v, w \in Workers : v # w => Held(v) \cap Held(w) = {}
  /\ \A w \in Workers : worker[w].pc = "done" => nextRecord >= Total

Accounts ==
  /\ runCancelled => failFast
  /\ \A w \in Workers : worker[w].pc = "cancel" => failFast
  /\ canceledRequests > 0 => runCancelled
  /\ ~timed /\ ~runCancelled => Balanced

\* Steps in which every worker keeps the records it holds.
LEMMA SameHeld ==
  ASSUME Balanced, \A v \in Workers : Held(v)' = Held(v),
         UNCHANGED <<acknowledged, failed>>, Taken' = Taken,
         \A v \in Workers : worker'[v].pc = "done" => nextRecord' >= Total
  PROVE  Balanced'
<1>1. Outstanding' = Outstanding
  BY DEF Outstanding
<1> QED
  BY <1>1 DEF Balanced

\* There are n numbers in an interval of length n.
LEMMA IntervalSize ==
  ASSUME NEW a \in Nat, NEW n \in Nat
  PROVE  IsFiniteSet(a .. a + n - 1) /\ Cardinality(a .. a + n - 1) = n
<1>1. a \in Int /\ a + n - 1 \in Int
  OBVIOUS
<1>2. /\ IsFiniteSet(a .. a + n - 1)
      /\ Cardinality(a .. a + n - 1) = IF a > a + n - 1 THEN 0 ELSE (a + n - 1) - a + 1
  BY <1>1, FS_Interval, Zenon
<1> QED
  BY <1>2

\* The records that a worker holds are numbers.
LEMMA HeldNumbers ==
  ASSUME PInv, NEW w \in Workers
  PROVE  \A i \in Held(w) : i \in Int
<1>1. worker[w].req.id \in Nat /\ worker[w].req.n \in Nat
  BY DEF PInv, ProducerTypes, WorkerState, Request
<1> QED
  BY <1>1 DEF Held

\* A worker claims the next records.
LEMMA MoreHeld ==
  ASSUME PInv, Balanced, NEW w \in Workers, NEW n \in Nat,
         Held(w) = {}, Held(w)' = Taken .. Taken + n - 1,
         \A v \in Workers : v # w => Held(v)' = Held(v),
         UNCHANGED <<acknowledged, failed>>, Taken' = Taken + n,
         \A v \in Workers : worker'[v].pc # "done"
  PROVE  Balanced'
<1>0. Taken \in Nat /\ acknowledged \in Nat /\ failed \in Nat
  BY ProducerAssumption DEF Taken, PInv, ProducerTypes
<1> DEFINE new == Taken .. Taken + n - 1
<1>1. Outstanding' = Outstanding \cup new
  BY Zenon DEF Outstanding
<1>2. IsFiniteSet(new) /\ Cardinality(new) = n
  BY <1>0, IntervalSize, Zenon
<1>a. \A v \in Workers : \A i \in Held(v) : i < Taken
  BY DEF Balanced
<1>b. \A i \in new : i >= Taken /\ i \in Nat /\ i < Taken + n
  BY <1>0
<1>c. \A v \in Workers : Held(v) \cap new = {}
  <2> SUFFICES ASSUME NEW v \in Workers, NEW i \in Held(v), i \in new PROVE FALSE
    OBVIOUS
  <2>1. i < Taken /\ i >= Taken /\ i \in Nat
    BY <1>a, <1>b
  <2> QED
    BY <1>0, <2>1
<1>3. Outstanding \cap new = {}
  BY <1>c DEF Outstanding
<1> HIDE DEF new
<1>4. IsFiniteSet(Outstanding')
      /\ Cardinality(Outstanding') = Cardinality(Outstanding) + n - Cardinality({})
  BY <1>1, <1>2, <1>3, FS_Union DEF Balanced
<1>5. Cardinality(Outstanding) \in Nat /\ Cardinality({}) = 0
  BY FS_EmptySet, FS_CardinalityType DEF Balanced
<1>6. acknowledged' + failed' + Cardinality(Outstanding') = Taken'
  BY <1>0, <1>4, <1>5 DEF Balanced
<1>7. \A v \in Workers : \A i \in Held(v)' : i < Taken'
  <2> SUFFICES ASSUME NEW v \in Workers, NEW i \in Held(v)' PROVE i < Taken + n
    OBVIOUS
  <2>1. CASE v = w
    BY <1>b, <2>1 DEF new
  <2>2. CASE v # w
    <3>1. i < Taken /\ i \in Held(v)
      BY <1>a, <2>2
    <3>2. i \in Int
      BY <3>1, HeldNumbers
    <3> QED
      BY <1>0, <3>1, <3>2
  <2> QED
    BY <2>1, <2>2
<1>8. \A u, v \in Workers : u # v => Held(u)' \cap Held(v)' = {}
  <2>1. \A u, v \in Workers : u # v => Held(u) \cap Held(v) = {}
    BY DEF Balanced
  <2> QED
    BY <1>c, <2>1, ZenonT(30) DEF new
<1> QED
  BY <1>4, <1>6, <1>7, <1>8, ZenonT(30) DEF Balanced

\* A worker counts the records that it holds.
LEMMA LessHeld ==
  ASSUME PInv, Balanced, NEW w \in Workers, worker[w].pc \in {"claimed", "sent", "handled"},
         Held(w)' = {},
         \A v \in Workers : v # w => Held(v)' = Held(v),
         acknowledged' + failed' = acknowledged + failed + worker[w].req.n, Taken' = Taken,
         acknowledged' \in Nat, failed' \in Nat,
         \A v \in Workers : worker'[v].pc = "done" => nextRecord' >= Total
  PROVE  Balanced'
<1>0. /\ Taken \in Nat /\ acknowledged \in Nat /\ failed \in Nat
      /\ worker[w].req.id \in Nat /\ worker[w].req.n \in Nat
  BY ProducerAssumption DEF Taken, PInv, ProducerTypes, WorkerState, Request
<1>1. Held(w) = worker[w].req.id .. worker[w].req.id + worker[w].req.n - 1
  BY DEF Held
<1>2. IsFiniteSet(Held(w)) /\ Cardinality(Held(w)) = worker[w].req.n
  <2> DEFINE a == worker[w].req.id
             n == worker[w].req.n
  <2>1. a \in Nat /\ n \in Nat /\ Held(w) = a .. a + n - 1
    BY <1>0, <1>1
  <2> HIDE DEF a, n
  <2>2. IsFiniteSet(Held(w)) /\ Cardinality(Held(w)) = n
    BY <2>1, FS_Interval
  <2> QED
    BY <2>2, Zenon DEF n
<1>3. \A v \in Workers : v # w => Held(v) \cap Held(w) = {}
  BY DEF Balanced
<1>4. Outstanding' = Outstanding \ Held(w) /\ Outstanding \cap Held(w) = Held(w)
  BY <1>3 DEF Outstanding
<1>5. IsFiniteSet(Outstanding') /\ Cardinality(Outstanding') = Cardinality(Outstanding) - worker[w].req.n
  <2>1. IsFiniteSet(Outstanding)
    BY DEF Balanced
  <2>2. /\ IsFiniteSet(Outstanding \ Held(w))
        /\ Cardinality(Outstanding \ Held(w)) = Cardinality(Outstanding) - Cardinality(Outstanding \cap Held(w))
    BY <2>1, FS_Difference, Zenon
  <2> QED
    BY <1>2, <1>4, <2>2, Zenon
<1>6. Cardinality(Outstanding) \in Nat
  BY FS_CardinalityType DEF Balanced
<1>7. acknowledged' + failed' + Cardinality(Outstanding') = Taken'
  BY <1>0, <1>5, <1>6 DEF Balanced
<1>8. \A v \in Workers : \A i \in Held(v)' : i < Taken'
  BY DEF Balanced
<1>9. \A u, v \in Workers : u # v => Held(u)' \cap Held(v)' = {}
  BY DEF Balanced
<1> QED
  BY <1>5, <1>7, <1>8, <1>9 DEF Balanced

\* What a step that changes one worker does to the records it holds.
LEMMA OneWorkerHeld ==
  ASSUME NEW w \in Workers, \A v \in Workers : v # w => worker'[v] = worker[v]
  PROVE  /\ \A v \in Workers : v # w => Held(v)' = Held(v)
         /\ worker'[w].pc \notin {"claimed", "sent", "handled"} => Held(w)' = {}
  BY DEF Held

\* A step of a worker keeps the accounts.
LEMMA WorkerAccounts ==
  ASSUME NEW w \in Workers, PInv, Accounts, WorkerStep(w)
  PROVE  Accounts'
<1>0. /\ worker \in [Workers -> WorkerState] /\ worker[w] \in WorkerState /\ worker[w].req \in Request
      /\ nextRecord \in Nat /\ acknowledged \in Nat /\ failed \in Nat /\ canceledRequests \in Nat
  BY DEF PInv, ProducerTypes, WorkerState
<1>1. CASE Leave(w)
  <2>1. /\ worker[w].pc = "loop" /\ worker' = [worker EXCEPT ![w].pc = "done"]
        /\ UNCHANGED <<failFast, timed, runCancelled, canceledRequests, acknowledged, failed>>
    BY <1>1 DEF Leave, At, GoTo, settings, errors
  <2>2. /\ \A v \in Workers : v # w => worker'[v] = worker[v]
        /\ worker'[w].pc = "done"
    BY <1>0, <2>1 DEF WorkerState
  <2>3. \A v \in Workers : Held(v)' = Held(v)
    BY <2>1, <2>2, OneWorkerHeld DEF Held
  <2>4. ASSUME ~timed, ~runCancelled PROVE Balanced'
    <3>1. nextRecord >= Total /\ nextRecord' = nextRecord + BatchSize
      BY <1>1, <2>4 DEF Leave, NothingLeft
    <3>2. nextRecord' >= Total /\ Taken' = Taken
      BY <1>0, <3>1, ProducerAssumption DEF Taken
    <3> QED
      BY <2>1, <2>3, <2>4, <3>2, SameHeld DEF Accounts
  <2> QED
    BY <2>1, <2>2, <2>4 DEF Accounts
<1>2. CASE Claim(w)
  <2> DEFINE n == ClaimSize(nextRecord)
             new == [Idle EXCEPT !.pc = "claimed", !.req = [id |-> nextRecord, part |-> 0, n |-> n]]
  <2>1. /\ worker[w].pc = "loop" /\ worker' = [worker EXCEPT ![w] = new]
        /\ ~runCancelled /\ ~NothingLeft /\ nextRecord' = nextRecord + BatchSize
        /\ UNCHANGED <<failFast, timed, runCancelled, canceledRequests, acknowledged, failed>>
    BY <1>2 DEF Claim, At, settings, errors
  <2>2. new.pc = "claimed" /\ new.req.id = nextRecord /\ new.req.n = n
    BY DEF Idle
  <2>3. /\ \A v \in Workers : v # w => worker'[v] = worker[v]
        /\ worker'[w] = new
    BY <1>0, <2>1
  <2>4. n \in Nat
    BY <2>1, ClaimPositive
  <2> HIDE DEF n, new
  <2>5. Held(w) = {} /\ Held(w)' = nextRecord .. nextRecord + n - 1
    <3>1. worker'[w].pc = "claimed" /\ worker'[w].req.id = nextRecord /\ worker'[w].req.n = n
      BY <2>2, <2>3, Zenon
    <3>2. Held(w) = {}
      BY <2>1 DEF Held
    <3>3. Held(w)' = nextRecord .. nextRecord + n - 1
      BY <3>1, Zenon DEF Held
    <3> QED
      BY <3>2, <3>3
  <2>6. \A v \in Workers : v # w => Held(v)' = Held(v)
    BY <2>3, OneWorkerHeld
  <2>7. ASSUME ~timed PROVE Balanced'
    <3>1. Taken = nextRecord /\ Taken' = Taken + n /\ nextRecord < Total
      BY <1>0, <2>1, <2>7, ProducerAssumption DEF Taken, NothingLeft, n, ClaimSize
    <3>2. Balanced
      BY <2>1, <2>7 DEF Accounts
    <3>3. \A v \in Workers : worker[v].pc # "done"
      BY <1>0, <3>1, <3>2, ProducerAssumption DEF Balanced
    <3>4. \A v \in Workers : worker'[v].pc # "done"
      BY <2>2, <2>3, <3>3
    <3> QED
      BY <2>1, <2>4, <2>5, <2>6, <3>1, <3>2, <3>4, MoreHeld, Zenon
  <2> QED
    BY <2>1, <2>2, <2>3, <2>7, Zenon DEF Accounts
<1>3. CASE Send(w)
  <2>1. PICK q : worker' = [worker EXCEPT ![w].pc = "sent", ![w].req.part = q]
    BY <1>3 DEF Send
  <2>2. /\ worker[w].pc = "claimed"
        /\ UNCHANGED <<failFast, timed, runCancelled, canceledRequests, acknowledged, failed, nextRecord>>
    BY <1>3 DEF Send, At, settings, errors
  <2>3. /\ \A v \in Workers : v # w => worker'[v] = worker[v]
        /\ worker'[w].pc = "sent" /\ worker'[w].req.id = worker[w].req.id
        /\ worker'[w].req.n = worker[w].req.n
    BY <1>0, <2>1 DEF WorkerState, Request
  <2>4. \A v \in Workers : Held(v)' = Held(v)
    BY <2>2, <2>3, Zenon DEF Held
  <2>5. Balanced => Balanced'
    BY <2>2, <2>3, <2>4, SameHeld, Zenon DEF Taken, Balanced
  <2> QED
    BY <2>2, <2>3, <2>5 DEF Accounts
<1>4. CASE Handle(w)
  <2>1. /\ worker[w].pc = "sent"
        /\ worker' = [worker EXCEPT ![w].pc = "handled", ![w].base = logEnd[worker[w].req.part]]
        /\ UNCHANGED <<failFast, timed, runCancelled, canceledRequests, acknowledged, failed, nextRecord>>
    BY <1>4 DEF Handle, At, settings, errors, counters
  <2>2. /\ \A v \in Workers : v # w => worker'[v] = worker[v]
        /\ worker'[w].pc = "handled" /\ worker'[w].req = worker[w].req
    BY <1>0, <2>1 DEF WorkerState
  <2>3. \A v \in Workers : Held(v)' = Held(v)
    BY <2>1, <2>2, Zenon DEF Held
  <2>4. Balanced => Balanced'
    BY <2>1, <2>2, <2>3, SameHeld, Zenon DEF Taken, Balanced
  <2> QED
    BY <2>1, <2>2, <2>4, Zenon DEF Accounts
<1>5. CASE Acknowledge(w)
  <2>1. /\ worker[w].pc = "handled" /\ worker' = [worker EXCEPT ![w].pc = "loop"]
        /\ acknowledged' = acknowledged + worker[w].req.n
        /\ UNCHANGED <<failFast, timed, runCancelled, canceledRequests, failed, nextRecord>>
    BY <1>5 DEF Acknowledge, At, GoTo, settings, errors
  <2>2. /\ \A v \in Workers : v # w => worker'[v] = worker[v]
        /\ worker'[w].pc = "loop" /\ worker[w].req.n \in Nat
    BY <1>0, <2>1 DEF WorkerState, Request
  <2>3. /\ acknowledged' \in Nat
        /\ acknowledged' + failed' = acknowledged + failed + worker[w].req.n
    BY <1>0, <2>1, <2>2
  <2>4. Balanced => Balanced'
    BY <1>0, <2>1, <2>2, <2>3, OneWorkerHeld, LessHeld DEF Taken, Balanced
  <2> QED
    BY <2>1, <2>2, <2>4 DEF Accounts
<1>6. CASE RequestFails(w)
  <2>1. PICK e : worker' = [worker EXCEPT ![w].pc = "crash", ![w].err = e]
    BY <1>6, Zenon DEF RequestFails
  <2>2. /\ worker[w].pc \in {"sent", "handled"} /\ failed' = failed + worker[w].req.n
        /\ UNCHANGED <<failFast, timed, runCancelled, canceledRequests, acknowledged, nextRecord>>
    BY <1>6 DEF RequestFails, GiveUp, At, settings, errors
  <2>3. /\ \A v \in Workers : v # w => worker'[v] = worker[v]
        /\ worker'[w].pc = "crash" /\ worker[w].req.n \in Nat
    BY <1>0, <2>1 DEF WorkerState, Request
  <2>4. /\ failed' \in Nat
        /\ acknowledged' + failed' = acknowledged + failed + worker[w].req.n
    BY <1>0, <2>2, <2>3
  <2>5. Balanced => Balanced'
    BY <1>0, <2>2, <2>3, <2>4, OneWorkerHeld, LessHeld, Zenon DEF Taken, Balanced
  <2> QED
    BY <2>2, <2>3, <2>5, Zenon DEF Accounts
<1>7. CASE RequestCancelled(w)
  <2>1. /\ runCancelled /\ worker' = [worker EXCEPT ![w].pc = "loop"]
        /\ UNCHANGED <<failFast, timed, runCancelled>>
    BY <1>7 DEF RequestCancelled, GoTo, settings, errors
  <2>2. \A v \in Workers : worker'[v].pc = "cancel" => worker[v].pc = "cancel"
    BY <1>0, <2>1 DEF WorkerState
  <2> QED
    BY <2>1, <2>2 DEF Accounts
<1>8. CASE RecordError(w)
  <2>1. /\ worker[w].pc = "crash" /\ worker' = [worker EXCEPT ![w].pc = IF failFast THEN "cancel" ELSE "loop"]
        /\ UNCHANGED <<failFast, timed, runCancelled, canceledRequests, acknowledged, failed, nextRecord>>
    BY <1>8 DEF RecordError, At, GoTo, settings, counters
  <2>2. /\ \A v \in Workers : v # w => worker'[v] = worker[v]
        /\ worker'[w].pc = IF failFast THEN "cancel" ELSE "loop"
    BY <1>0, <2>1 DEF WorkerState
  <2>3. \A v \in Workers : Held(v)' = Held(v)
    BY <2>1, <2>2 DEF Held
  <2>4. Balanced => Balanced'
    BY <2>1, <2>2, <2>3, SameHeld DEF Taken, Balanced
  <2> QED
    BY <2>1, <2>2, <2>4 DEF Accounts
<1>9. CASE CancelRun(w)
  <2>1. /\ worker[w].pc = "cancel" /\ runCancelled' = TRUE
        /\ worker' = [worker EXCEPT ![w].pc = "done"] /\ UNCHANGED failFast
    BY <1>9 DEF CancelRun, At, GoTo, settings
  <2>2. \A v \in Workers : worker'[v].pc = "cancel" => worker[v].pc = "cancel"
    BY <1>0, <2>1 DEF WorkerState
  <2> QED
    BY <2>1, <2>2 DEF Accounts
<1> QED
  BY <1>1, <1>2, <1>3, <1>4, <1>5, <1>6, <1>7, <1>8, <1>9, Zenon DEF WorkerStep

-----------------------------------------------------------------------------
(***************************************************************************)
(* Together.                                                               *)
(***************************************************************************)
\* What holds of the producer's counters, ranges and conclusions.
Reports == Accounts /\ Tiles /\ ReportAccounts /\ ReportExact /\ NoFalseAlarm

\* The state of a command that has not started or has exited.
Fresh ==
  /\ worker = [w \in Workers |-> Idle]
  /\ nextRecord = 0 /\ acknowledged = 0 /\ failed = 0 /\ canceledRequests = 0
  /\ ranges = {} /\ runCancelled = FALSE
  /\ outcome \in {"not started", "exited"}
  /\ initial \in [Partitions -> Nat] /\ final \in [Partitions -> Nat]
  /\ outcome = "not started" => initial = logEnd
  /\ \A p \in Partitions : initial[p] <= logEnd[p]

\* There is no offset between the end of a log and itself.
LEMMA EmptyInterval == \A x \in Nat : x .. x - 1 = {} /\ x <= x
  OBVIOUS

\* It satisfies the invariant.
LEMMA FreshReports == PInv /\ Fresh => Reports
<1> SUFFICES ASSUME PInv, Fresh PROVE Reports
  OBVIOUS
<1>1. \A w \in Workers : worker[w] = Idle /\ worker[w].pc = "loop"
  BY IdleType DEF Fresh
<1>2. Accounts
  <2>1. \A w \in Workers : Held(w) = {}
    BY <1>1 DEF Held
  <2>2. Outstanding = {} /\ Taken = 0
    <3>1. Outstanding = {}
      BY <2>1 DEF Outstanding
    <3>2. nextRecord = 0 /\ 0 <= Total
      <4>1. \A x \in Nat : 0 <= x
        OBVIOUS
      <4>2. Total \in Nat
        BY ProducerAssumption
      <4> QED
        BY <4>1, <4>2 DEF Fresh
    <3> QED
      BY <3>1, <3>2 DEF Taken
  <2>3. /\ acknowledged = 0 /\ failed = 0 /\ canceledRequests = 0 /\ ~runCancelled
        /\ \A w \in Workers : worker[w].pc \notin {"done", "cancel"}
    BY <1>1 DEF Fresh
  <2>4. acknowledged + failed + Cardinality(Outstanding) = Taken
    <3>1. Cardinality(Outstanding) = 0 /\ 0 + 0 + 0 = 0
      BY <2>2, FS_EmptySet
    <3> QED
      BY <2>2, <2>3, <3>1
  <2>5. Balanced
    BY <2>1, <2>2, <2>3, <2>4, FS_EmptySet, Zenon DEF Balanced
  <2> QED
    BY <2>3, <2>5 DEF Accounts
<1>3. Tiles
  <2>1. Handled = {} /\ Appends = {}
    BY <1>1 DEF Handled, Appends, Fresh
  <2>2. outcome # "exited" => \A p \in Partitions : initial[p] .. logEnd[p] - 1 = {}
    BY EmptyInterval, ZenonT(30) DEF Fresh, PInv, TopicTypes
  <2> QED
    BY <2>1, <2>2, FS_EmptySet DEF Tiles, Fresh
<1> QED
  BY <1>2, <1>3 DEF Reports, ReportAccounts, ReportExact, NoFalseAlarm, Fresh

\* The conclusions stay while Run's variables do.
LEMMA SameConclusions ==
  ASSUME ReportAccounts, ReportExact, NoFalseAlarm,
         UNCHANGED <<outcome, timed, acknowledged, failed, canceledRequests, ranges, initial, final, lost>>
  PROVE  ReportAccounts' /\ ReportExact' /\ NoFalseAlarm'
<1>1. \A p : RangesOf(p)' = RangesOf(p)
  BY DEF RangesOf
<1> QED
  BY <1>1 DEF ReportAccounts, ReportExact, NoFalseAlarm

\* There is nothing to conclude while the workers run.
LEMMA NoConclusion ==
  ASSUME outcome' \notin {"report", "offset mismatch", "discontinuity"}
  PROVE  ReportAccounts' /\ ReportExact' /\ NoFalseAlarm'
  BY ZenonT(30) DEF ReportAccounts, ReportExact, NoFalseAlarm

\* The accounts only depend on the counters and on the workers.
LEMMA SameAccounts ==
  ASSUME Accounts,
         UNCHANGED <<failFast, timed, nextRecord, acknowledged, failed, canceledRequests, runCancelled, worker>>
  PROVE  Accounts'
<1>1. \A w \in Workers : Held(w)' = Held(w)
  BY DEF Held
<1>2. Balanced => Balanced'
  BY <1>1, SameHeld, Zenon DEF Taken, Balanced
<1> QED
  BY <1>2 DEF Accounts

\* Steps in which the ranges and the workers stay as they are.
LEMMA SameTiles ==
  ASSUME PInv, PInv', Grows, Tiles, UNCHANGED <<ranges, worker, initial>>,
         final' \in [Partitions -> Nat], outcome' # "not started" \/ outcome' = outcome,
         outcome' # "exited" /\ ~lost' => outcome # "exited" /\ ~lost /\ logEnd' = logEnd
  PROVE  Tiles'
<1>1. Handled' = Handled /\ \A w : Written(w)' = Written(w)
  BY Zenon DEF Handled, Written
<1>2. Appends' = Appends
  BY <1>1 DEF Appends
<1>3. IsFiniteSet(ranges') /\ (outcome' = "not started" => ranges' = {} /\ Handled' = {})
  BY <1>1, Zenon DEF Tiles
<1> QED
  BY <1>2, <1>3, KeptTiles

\* A run by count that ends with a report has counted all records.
LEMMA EndsAccounted ==
  ASSUME PInv, Accounts, ProducerEnds
  PROVE  ReportAccounts'
<1> SUFFICES ASSUME outcome' = "report", ~timed
             PROVE  acknowledged + failed = Total /\ canceledRequests = 0
  BY DEF ProducerEnds, ReportAccounts, settings, counters
<1>1. (\A w \in Workers : worker[w].pc = "done") /\ ~(crashed /\ failFast)
  BY DEF ProducerEnds, AllDone
<1>2. ~runCancelled
  BY <1>1 DEF PInv, ProducerCausal, Accounts
<1>3. Balanced /\ canceledRequests = 0
  BY <1>2 DEF Accounts, PInv, ProducerTypes
<1>4. Outstanding = {}
  BY <1>1 DEF Outstanding, Held
<1>5. nextRecord >= Total
  BY <1>1, <1>3, ProducerAssumption DEF Balanced
<1>6. Taken = Total
  BY <1>5, ProducerAssumption DEF Taken, PInv, ProducerTypes
<1>7. acknowledged + failed + 0 = Total
  BY <1>3, <1>4, <1>6, FS_EmptySet DEF Balanced
<1> QED
  BY <1>3, <1>7 DEF PInv, ProducerTypes

\* Every step of the producer preserves the invariant.
LEMMA ProducerReports ==
  ASSUME PInv, PInv', Grows, Reports, ProducerNext
  PROVE  Reports'
<1> USE DEF topicVars, settings, counters, errors
<1>0. Accounts /\ Tiles /\ ReportAccounts /\ ReportExact /\ NoFalseAlarm
      /\ initial \in [Partitions -> Nat] /\ final \in [Partitions -> Nat] /\ logEnd \in [Partitions -> Nat]
  BY DEF Reports, Tiles, PInv, TopicTypes
<1>1. CASE ProducerStart
  <2>1. /\ outcome = "not started" /\ outcome' \in {"running", "error"} /\ initial' = logEnd
        /\ UNCHANGED <<failFast, timed, nextRecord, acknowledged, failed, canceledRequests,
                       ranges, runCancelled, worker, final, lost, logEnd>>
    BY <1>1 DEF ProducerStart
  <2>2. Accounts'
    BY <1>0, <2>1, SameAccounts, ZenonT(30)
  <2>3. Tiles'
    <3>1. ranges = {} /\ Handled = {}
      BY <1>0, <2>1, ZenonT(30) DEF Tiles
    <3>2. Handled' = {} /\ Appends' = {}
      BY <2>1, <3>1 DEF Handled, Appends
    <3>3. \A p \in Partitions : initial'[p] .. logEnd'[p] - 1 = {} /\ initial'[p] <= logEnd'[p]
      BY <1>0, <2>1, EmptyInterval, ZenonT(30)
    <3> QED
      BY <1>0, <2>1, <3>1, <3>2, <3>3, FS_EmptySet, ZenonT(30) DEF Tiles
  <2> QED
    BY <2>1, <2>2, <2>3, NoConclusion DEF Reports
<1>2. CASE Expire
  <2>1. UNCHANGED <<failFast, timed, nextRecord, acknowledged, failed, canceledRequests, ranges,
                    runCancelled, worker, initial, final, lost, outcome, logEnd>>
    BY <1>2 DEF Expire
  <2> QED
    BY <1>0, <2>1, SameAccounts, SameTiles, SameConclusions DEF Reports
<1>3. CASE LateAppend
  <2>1. /\ outcome = "running" /\ lost' = TRUE
        /\ UNCHANGED <<failFast, timed, nextRecord, acknowledged, failed, canceledRequests, ranges,
                       runCancelled, worker, initial, final, outcome>>
    BY <1>3 DEF LateAppend
  <2> QED
    BY <1>0, <2>1, SameAccounts, SameTiles, NoConclusion DEF Reports
<1>4. CASE ProducerEnds
  <2>1. /\ outcome = "running" /\ outcome' \notin {"not started", "exited"}
        /\ final' \in {final, logEnd}
        /\ UNCHANGED <<failFast, timed, nextRecord, acknowledged, failed, canceledRequests, ranges,
                       runCancelled, worker, initial, lost, logEnd>>
    BY <1>4, Zenon DEF ProducerEnds, AllDone
  <2>2. Accounts' /\ Tiles'
    BY <1>0, <2>1, SameAccounts, SameTiles
  <2> QED
    BY <1>0, <1>4, <2>2, EndsRight, EndsAccounted DEF Reports
<1>5. CASE ProducerExits
  <2>1. Fresh'
    BY <1>0, <1>5 DEF ProducerExits, Fresh
  <2> QED
    BY <2>1, FreshReports, PTL
<1>6. ASSUME NEW w \in Workers, WorkerStep(w) PROVE Reports'
  <2>1. outcome = "running" /\ outcome' = outcome
    BY <1>6 DEF WorkerStep, Leave, Claim, Send, Handle, Acknowledge, RequestFails, RequestCancelled,
       GiveUp, RecordError, CancelRun, At
  <2> QED
    BY <1>0, <1>6, <2>1, WorkerAccounts, WorkerTiles, NoConclusion, Zenon DEF Reports
<1> QED
  BY <1>1, <1>2, <1>3, <1>4, <1>5, <1>6, Zenon DEF ProducerNext

\* The invariant of the producer's conclusions holds in every reachable state.
THEOREM ReportsInvariance == Spec => []Reports
<1>1. PInv /\ Init => Reports
  <2> SUFFICES ASSUME PInv, Init PROVE Reports
    OBVIOUS
  <2>1. Fresh
    BY EmptyInterval DEF Init, ProducerInit, Fresh, PInv, TopicTypes
  <2> QED
    BY <2>1, FreshReports
<1>2. PInv /\ PInv' /\ Reports /\ [Next]_vars => Reports'
  <2> SUFFICES ASSUME PInv, PInv', Reports, [Next]_vars PROVE Reports'
    OBVIOUS
  <2>1. CASE ProducerNext /\ UNCHANGED consumerVars
    BY <2>1, ProducerPInv, ProducerReports
  <2>2. ASSUME UNCHANGED producerVars, Grows, outcome = "exited" \/ logEnd' = logEnd PROVE Reports'
    <3>1. UNCHANGED <<failFast, timed, nextRecord, acknowledged, failed, canceledRequests, ranges,
                      runCancelled, worker, initial, final, lost, outcome>>
      BY <2>2 DEF producerVars, settings, counters, errors
    <3>2. Accounts'
      BY <3>1, SameAccounts DEF Reports
    <3>3. Tiles'
      <4>1. final' \in [Partitions -> Nat]
        BY <3>1 DEF Reports, Tiles
      <4> QED
        BY <2>2, <3>1, <4>1, SameTiles DEF Reports
    <3> QED
      BY <3>1, <3>2, <3>3, SameConclusions DEF Reports
  <2>3. UNCHANGED logEnd => Grows
    BY DEF Grows, PInv, TopicTypes
  <2>4. CASE Exited /\ ConsumerNext /\ UNCHANGED producerVars
    <3>1. UNCHANGED logEnd
      BY <2>4, Zenon DEF ConsumerNext, ConsumerStart, ReplayExpires, ConsumerEnds, FetcherStep, TakePartition,
         CheckProgress, IdleTimeout, FetchRecords, FetchLogEnd, FetchFails, FetchCancelled,
         LoadCounted, SwapCounted, AfterResponse, Poll, RecordFetchError, CancelFetches, topicVars
    <3> QED
      BY <2>2, <2>3, <2>4, <3>1
  <2>5. CASE Exited /\ StrayAppend /\ UNCHANGED <<producerVars, consumerVars>>
    <3>1. Grows
      BY <2>5, StrayGrows DEF PInv
    <3> QED
      BY <2>2, <2>5, <3>1 DEF Exited
  <2>6. CASE UNCHANGED vars
    BY <2>2, <2>3, <2>6 DEF vars, topicVars
  <2> QED
    BY <2>1, <2>4, <2>5, <2>6 DEF Next, Finished
<1> QED
  BY <1>1, <1>2, BenchInvariance, PTL DEF Spec

\* A producer run by count that ends with a report has counted every record
\* exactly once, however its workers raced for them and whatever failed.
THEOREM ReportsAlwaysAccount == Spec => []ReportAccounts
<1>1. Reports => ReportAccounts
  BY DEF Reports
<1> QED
  BY <1>1, ReportsInvariance, PTL

\* When the producer reports, its acknowledged ranges are exactly what the
\* partitions that got any have grown by: each offset is in one of them.
THEOREM ReportsAlwaysExact == Spec => []ReportExact
<1>1. Reports => ReportExact
  BY DEF Reports
<1> QED
  BY <1>1, ReportsInvariance, PTL

\* The verification fails only when records were appended whose acknowledgement
\* was lost, and then with the offset mismatch, never with a discontinuity.
THEOREM NeverFalseAlarm == Spec => []NoFalseAlarm
<1>1. Reports => NoFalseAlarm
  BY DEF Reports
<1> QED
  BY <1>1, ReportsInvariance, PTL
=============================================================================
