---------------------------- MODULE BenchProofs -----------------------------
(***************************************************************************)
(* Proofs about Bench, for any number of partitions, workers and records:  *)
(* the error that is reported is the causal one, the consumer's counts are *)
(* exact, no record is observed twice, and the consumer says "exhausted"   *)
(* only when it has read everything that was there.                        *)
(***************************************************************************)
EXTENDS Bench, FiniteSetTheorems, TLAPS

(***************************************************************************)
(* The producer: its inductive invariant, preserved by each of its steps.  *)
(***************************************************************************)
WorkerState ==
  [pc : {"loop", "claimed", "sent", "handled", "crash", "cancel", "done"},
   req : Request, base : Nat, err : {"none", "causal", "cancelled"}]

TopicTypes == logEnd \in [Partitions -> Nat] /\ stray \subseteq Request

ProducerTypes ==
  /\ failFast \in BOOLEAN /\ timed \in BOOLEAN /\ partition \in {-1, 0}
  /\ nextRecord \in Nat /\ partitionCounter \in Nat
  /\ acknowledged \in Nat /\ failed \in Nat /\ canceledRequests \in Nat
  /\ ranges \subseteq [part : Partitions, base : Nat, last : Nat]
  /\ worker \in [Workers -> WorkerState]
  /\ \A w \in Workers : worker[w].pc \in {"claimed", "sent", "handled"} => worker[w].req.n > 0

\* A cancellation, and an error that comes from one, are preceded by the
\* error that caused it.
ProducerCausal ==
  /\ crashed \in BOOLEAN /\ runCancelled \in BOOLEAN
  /\ firstErr # "cancelled"
  /\ runCancelled => crashed
  /\ \A w \in Workers : worker[w].pc = "cancel" \/ worker[w].err = "cancelled" => crashed

PInv == TopicTypes /\ ProducerTypes /\ ProducerCausal

Grows == \A p \in Partitions : logEnd[p] <= logEnd'[p]
-----------------------------------------------------------------------------
\* Every counter value selects a partition.
LEMMA RoundRobinType == ASSUME NEW c \in Nat PROVE RoundRobin(c) \in Partitions
  BY TopicAssumption DEF RoundRobin, Partitions

\* The records of a request are added to a partition.
LEMMA AppendedGrows ==
  ASSUME NEW r \in Request, TopicTypes, logEnd' = Appended(r)
  PROVE  logEnd' \in [Partitions -> Nat] /\ Grows
  BY DEF Appended, Request, TopicTypes, Grows

\* A request that is handled late keeps the types of the topic.
LEMMA StrayGrows == TopicTypes /\ StrayAppend => TopicTypes' /\ Grows
<1> SUFFICES ASSUME TopicTypes, StrayAppend PROVE TopicTypes' /\ Grows
  OBVIOUS
<1>1. PICK r \in stray : logEnd' = Appended(r) /\ stray' = stray \ {r}
  BY DEF StrayAppend
<1>2. r \in Request
  BY <1>1 DEF TopicTypes
<1>3. logEnd' \in [Partitions -> Nat] /\ Grows
  BY <1>1, <1>2, AppendedGrows
<1> QED
  BY <1>1, <1>3 DEF TopicTypes

\* What a worker starts with.
LEMMA IdleType == Idle \in WorkerState /\ Idle.pc = "loop" /\ Idle.err = "none"
<1>1. [id |-> 0, part |-> 0, n |-> 0] \in Request
  BY TopicAssumption DEF Request, Partitions
<1> QED
  BY <1>1 DEF Idle, WorkerState

\* The initial states satisfy the invariant of the producer.
LEMMA InitPInv == TopicInit /\ ProducerInit => PInv
<1> SUFFICES ASSUME TopicInit, ProducerInit PROVE PInv
  OBVIOUS
<1>1. TopicTypes
  BY TopicAssumption DEF TopicInit, TopicTypes
<1>2. ProducerTypes
  BY IdleType DEF ProducerInit, ProducerTypes
<1>3. ProducerCausal
  BY IdleType DEF ProducerInit, ProducerCausal
<1> QED
  BY <1>1, <1>2, <1>3 DEF PInv

\* What a worker takes is at least one record.
LEMMA ClaimPositive ==
  ASSUME PInv, ~NothingLeft
  PROVE  ClaimSize(nextRecord) \in Nat /\ ClaimSize(nextRecord) > 0
  BY ProducerAssumption DEF PInv, ProducerTypes, NothingLeft, ClaimSize

\* A step of a worker preserves the invariant, and the log only grows.
LEMMA WorkerPInv ==
  ASSUME NEW w \in Workers, PInv, WorkerStep(w)
  PROVE  PInv' /\ Grows
<1> USE DEF PInv, ProducerTypes, ProducerCausal
<1>0. worker[w] \in WorkerState /\ worker[w].req \in Request
  BY DEF WorkerState
<1>s. ASSUME UNCHANGED logEnd PROVE Grows
  BY <1>s DEF Grows, TopicTypes
<1>1. CASE Leave(w)
  BY <1>1, <1>s, ProducerAssumption DEF Leave, At, GoTo, WorkerState, TopicTypes, topicVars, settings, errors
<1>2. CASE Claim(w)
  <2>1. ClaimSize(nextRecord) \in Nat /\ ClaimSize(nextRecord) > 0
    BY <1>2, ClaimPositive DEF Claim
  <2> DEFINE new == [Idle EXCEPT !.pc = "claimed",
                                 !.req = [id |-> nextRecord, part |-> 0, n |-> ClaimSize(nextRecord)]]
  <2>2. /\ new \in WorkerState /\ new.pc = "claimed" /\ new.err = "none"
        /\ new.req.n = ClaimSize(nextRecord)
    <3>1. [id |-> nextRecord, part |-> 0, n |-> ClaimSize(nextRecord)] \in Request
      BY <2>1, TopicAssumption DEF Request, Partitions
    <3> QED
      BY <3>1, IdleType, Zenon DEF WorkerState
  <2>3. worker' = [worker EXCEPT ![w] = new]
    BY <1>2 DEF Claim
  <2> HIDE DEF new
  <2>4. worker' \in [Workers -> WorkerState]
    BY <2>2, <2>3
  <2>5. /\ \A v \in Workers : worker'[v].pc \in {"claimed", "sent", "handled"} => worker'[v].req.n > 0
        /\ \A v \in Workers : worker'[v].pc = "cancel" \/ worker'[v].err = "cancelled" => crashed
    BY <2>1, <2>2, <2>3
  <2> QED
    BY <1>2, <1>s, <2>4, <2>5, ProducerAssumption
    DEF Claim, TopicTypes, topicVars, settings, errors
<1>3. CASE Send(w)
  <2>1. partition # -1 => partition \in Partitions
    BY TopicAssumption DEF Partitions
  <2>2. RoundRobin(partitionCounter) \in Partitions
    BY RoundRobinType
  <2>3. PICK q \in Partitions : worker' = [worker EXCEPT ![w].pc = "sent", ![w].req.part = q]
    BY <1>3, <2>1, <2>2 DEF Send
  <2>4. partitionCounter' \in Nat
    BY <1>3 DEF Send
  <2>5. worker[w].pc = "claimed"
    BY <1>3 DEF Send, At
  <2>6. worker' \in [Workers -> WorkerState]
    <3>1. [worker[w].req EXCEPT !.part = q] \in Request
      BY <1>0 DEF Request
    <3>2. [worker[w] EXCEPT !.pc = "sent", !.req = [worker[w].req EXCEPT !.part = q]] \in WorkerState
      BY <1>0, <3>1, Zenon DEF WorkerState
    <3>3. worker' = [worker EXCEPT ![w] = [worker[w] EXCEPT !.pc = "sent",
                                                            !.req = [worker[w].req EXCEPT !.part = q]]]
      BY <2>3, Zenon DEF WorkerState
    <3> QED
      BY <3>2, <3>3
  <2>7. \A v \in Workers : worker'[v].req.n = worker[v].req.n /\ worker'[v].err = worker[v].err
    BY <2>3 DEF WorkerState, Request
  <2>8. \A v \in Workers : worker'[v].pc = IF v = w THEN "sent" ELSE worker[v].pc
    BY <2>3 DEF WorkerState
  <2> QED
    BY <1>3, <1>s, <2>4, <2>5, <2>6, <2>7, <2>8 DEF Send, TopicTypes, topicVars, settings, errors
<1>4. CASE Handle(w)
  <2>1. logEnd' \in [Partitions -> Nat] /\ Grows
    BY <1>0, <1>4, AppendedGrows DEF Handle
  <2>2. logEnd[worker[w].req.part] \in Nat
    BY <1>0 DEF Request, TopicTypes
  <2> DEFINE new == [worker[w] EXCEPT !.pc = "handled", !.base = logEnd[worker[w].req.part]]
  <2>a. new \in WorkerState
    BY <1>0, <2>2, Zenon DEF WorkerState
  <2>b. worker' = [worker EXCEPT ![w] = new]
    BY <1>4, Zenon DEF Handle
  <2>3. worker' \in [Workers -> WorkerState]
    BY <2>a, <2>b
  <2>4. \A v \in Workers : worker'[v].req = worker[v].req /\ worker'[v].err = worker[v].err
    BY <1>4 DEF Handle, WorkerState
  <2>5. \A v \in Workers : worker'[v].pc = IF v = w THEN "handled" ELSE worker[v].pc
    BY <1>4 DEF Handle, WorkerState
  <2>6. worker[w].pc = "sent"
    BY <1>4 DEF Handle, At
  <2>7. UNCHANGED <<settings, counters, errors, stray>>
    BY <1>4 DEF Handle
  <2> QED
    BY <2>1, <2>3, <2>4, <2>5, <2>6, <2>7 DEF TopicTypes, settings, errors, counters
<1>5. CASE Acknowledge(w)
  <2>1. worker[w].pc = "handled" /\ worker[w].req.n \in Nat /\ worker[w].req.n > 0
        /\ worker[w].base \in Nat /\ worker[w].req.part \in Partitions
    BY <1>0, <1>5 DEF Acknowledge, At, WorkerState, Request
  <2>2. ranges' \subseteq [part : Partitions, base : Nat, last : Nat] /\ acknowledged' \in Nat
    BY <1>5, <2>1 DEF Acknowledge
  <2> QED
    BY <1>5, <1>s, <2>2 DEF Acknowledge, GoTo, WorkerState, TopicTypes, topicVars, settings, errors
<1>6. CASE RequestFails(w)
  <2>1. PICK e \in {"causal"} \cup (IF runCancelled THEN {"cancelled"} ELSE {}) :
          worker' = [worker EXCEPT ![w].pc = "crash", ![w].err = e]
    BY <1>6, Zenon DEF RequestFails
  <2>2. stray' \subseteq Request
    BY <1>0, <1>6 DEF RequestFails, GiveUp, TopicTypes
  <2>3. failed' \in Nat
    BY <1>0, <1>6 DEF RequestFails, Request
  <2> DEFINE new == [worker[w] EXCEPT !.pc = "crash", !.err = e]
  <2>a. new \in WorkerState /\ new.pc = "crash" /\ new.err = e
    BY <1>0, <2>1, Zenon DEF WorkerState
  <2>b. worker' = [worker EXCEPT ![w] = new]
    BY <2>1, Zenon
  <2> HIDE DEF new
  <2>4. worker' \in [Workers -> WorkerState]
    BY <2>a, <2>b
  <2>5. \A v \in Workers : /\ v # w => worker'[v] = worker[v]
                           /\ v = w => worker'[v].pc = "crash" /\ worker'[v].err = e
    BY <2>a, <2>b
  <2> QED
    BY <1>6, <1>s, <2>2, <2>3, <2>4, <2>5 DEF RequestFails, TopicTypes, settings, errors
<1>7. CASE RequestCancelled(w)
  <2>1. stray' \subseteq Request
    BY <1>0, <1>7 DEF RequestCancelled, GiveUp, TopicTypes
  <2> QED
    BY <1>7, <1>s, <2>1 DEF RequestCancelled, GoTo, WorkerState, TopicTypes, settings, errors
<1>8. CASE RecordError(w)
  <2>1. worker[w].err = "cancelled" => crashed
    OBVIOUS
  <2> QED
    BY <1>8, <1>s, <2>1 DEF RecordError, Recorded, GoTo, WorkerState, TopicTypes, topicVars, settings, counters
<1>9. CASE CancelRun(w)
  <2>1. crashed
    BY <1>9 DEF CancelRun, At
  <2> QED
    BY <1>9, <1>s, <2>1 DEF CancelRun, GoTo, WorkerState, TopicTypes, topicVars, settings, counters
<1> QED
  BY <1>1, <1>2, <1>3, <1>4, <1>5, <1>6, <1>7, <1>8, <1>9 DEF WorkerStep

\* Every step of the producer preserves the invariant, and the log only grows.
LEMMA ProducerPInv == PInv /\ ProducerNext => PInv' /\ Grows
<1> SUFFICES ASSUME PInv, ProducerNext PROVE PInv' /\ Grows
  OBVIOUS
<1>s. ASSUME UNCHANGED logEnd PROVE Grows
  BY <1>s DEF Grows, PInv, TopicTypes
<1>1. CASE ProducerStart
  BY <1>1, <1>s DEF ProducerStart, PInv, TopicTypes, ProducerTypes, ProducerCausal, topicVars, settings, counters, errors
<1>2. CASE Expire
  BY <1>2, <1>s DEF Expire, PInv, TopicTypes, ProducerTypes, ProducerCausal, topicVars, settings, counters, errors
<1>3. CASE LateAppend
  <2>1. TopicTypes' /\ Grows
    BY <1>3, StrayGrows DEF LateAppend, PInv
  <2> QED
    BY <1>3, <2>1 DEF LateAppend, PInv, ProducerTypes, ProducerCausal, settings, counters, errors
<1>4. CASE ProducerEnds
  BY <1>4, <1>s DEF ProducerEnds, PInv, TopicTypes, ProducerTypes, ProducerCausal, topicVars, settings, counters, errors
<1>5. CASE ProducerExits
  BY <1>5, <1>s, IdleType, Zenon DEF ProducerExits, PInv, TopicTypes, ProducerTypes, ProducerCausal, topicVars
<1> QED
  BY <1>1, <1>2, <1>3, <1>4, <1>5, WorkerPInv DEF ProducerNext
-----------------------------------------------------------------------------
(***************************************************************************)
(* The consumer: its inductive invariant.                                  *)
(***************************************************************************)
FetcherState ==
  [pc : {"take", "check", "fetch", "read", "load", "swap", "after", "poll", "crash", "cancel", "done"},
   part : Partitions, off : Nat, n : Nat, end : Nat, seen : Nat,
   err : {"none", "idle", "causal", "cancelled"}]

ConsumerTypes ==
  /\ replay \in BOOLEAN /\ source \in {-1, 0}
  /\ queue \in Seq(Partitions)
  /\ counted \in Nat /\ observed \in Nat /\ overshoot \in Nat
  /\ fetcher \in [Fetchers -> FetcherState]

\* A worker's offset, and the end of the response it holds, are in the log.
WithinLog ==
  \A w \in Fetchers :
    /\ fetcher[w].off <= logEnd[fetcher[w].part]
    /\ fetcher[w].pc \in {"read", "load", "swap"} =>
         fetcher[w].off + fetcher[w].n <= logEnd[fetcher[w].part]

\* The tallies add up after every step; what a worker loaded was below the
\* target.
TalliesOK ==
  /\ counted <= Target
  /\ observed = counted + overshoot
  /\ \A w \in Fetchers : fetcher[w].pc = "swap" => fetcher[w].seen < Target
  /\ cOutcome = "report" /\ ~replay => counted = Target

ConsumerCausal ==
  /\ cCrashed \in BOOLEAN /\ cRunCancelled \in BOOLEAN
  /\ cFirstErr # "cancelled"
  /\ cRunCancelled => cCrashed
  /\ \A w \in Fetchers : fetcher[w].pc = "cancel" \/ fetcher[w].err = "cancelled" => cCrashed

Owns(w) == fetcher[w].pc \notin {"take", "done"}

\* In a run by count a partition is in the queue, or belongs to one worker
\* that has delivered the records before its offset, or is done with.
Ownership ==
  /\ cOutcome = "not started" => delivered = {} /\ observed = 0
  /\ ~replay =>
       /\ \A i, j \in DOMAIN queue : queue[i] = queue[j] => i = j
       /\ \A w \in Fetchers : Owns(w) => \A i \in DOMAIN queue : queue[i] # fetcher[w].part
       /\ \A w, v \in Fetchers : Owns(w) /\ Owns(v) /\ fetcher[w].part = fetcher[v].part => w = v
       /\ \A d \in delivered :
            /\ d[2] \in Nat
            /\ \A i \in DOMAIN queue : queue[i] # d[1]
            /\ \A w \in Fetchers : Owns(w) /\ fetcher[w].part = d[1] => d[2] < fetcher[w].off
       /\ IsFiniteSet(delivered) /\ observed = Cardinality(delivered)

CInv == ConsumerTypes /\ WithinLog /\ TalliesOK /\ ConsumerCausal /\ Ownership
-----------------------------------------------------------------------------
(***************************************************************************)
(* Its steps preserve it.                                                  *)
(***************************************************************************)
\* The arithmetic of offsets and counts.
LEMMA Sums ==
  /\ \A x, y \in Nat : x + y \in Nat
  /\ \A x, y, z \in Nat : z <= y => x + y - z \in Nat
  /\ \A x, y, z \in Nat : x < y => x < y + z
  /\ \A x, y, z \in Nat : y <= z - x => x + y <= z
  /\ \A x, y \in Nat : ~(x >= y) => x < y
  OBVIOUS

\* The offsets of a response.
LEMMA OffsetsOf ==
  ASSUME NEW x \in Nat, NEW y \in Nat, NEW z \in x .. x + y - 1
  PROVE  z \in Nat /\ z < x + y /\ ~(z < x)
  OBVIOUS

\* The smaller of two numbers.
LEMMA MinOfTwo ==
  ASSUME NEW a \in Int, NEW b \in Int
  PROVE  Min({a, b}) \in Int /\ Min({a, b}) <= a /\ Min({a, b}) <= b /\ Min({a, b}) \in {a, b}
<1>1. \E x \in {a, b} : \A y \in {a, b} : x =< y
  <2>1. CASE a <= b
    BY <2>1
  <2>2. CASE b < a
    BY <2>2
  <2> QED
    BY <2>1, <2>2
<1>2. Min({a, b}) \in {a, b} /\ \A y \in {a, b} : Min({a, b}) =< y
  BY <1>1 DEF Min
<1> QED
  BY <1>2

\* n records of partition q, from offset a.
Records(q, a, n) == {<<q, o>> : o \in a .. a + n - 1}

\* n consecutive records of a partition are n records.
LEMMA RunOfRecords ==
  ASSUME NEW q, NEW a \in Nat, NEW n \in Nat
  PROVE  IsFiniteSet(Records(q, a, n)) /\ Cardinality(Records(q, a, n)) = n
<1> DEFINE D == a .. a + n - 1
           S == Records(q, a, n)
           f == [o \in D |-> <<q, o>>]
<1>1. IsFiniteSet(D) /\ Cardinality(D) = n
  BY FS_Interval
<1>2. f \in Surjection(D, S)
  BY Zenon DEF Surjection, Records
<1>3. f \in Injection(D, S)
  <2>1. \A x, y \in D : f[x] = f[y] => x = y
    OBVIOUS
  <2>2. f \in [D -> S]
    BY DEF Records
  <2> QED
    BY <2>1, <2>2 DEF Injection, IsInjective
<1> HIDE DEF D, S, f
<1>4. IsFiniteSet(S) /\ Cardinality(S) = Cardinality(D)
  BY <1>1, <1>2, <1>3, FS_Surjection
<1> QED
  BY <1>1, <1>4 DEF D, S

\* The initial states satisfy the invariant of the consumer.
LEMMA InitCInv == Init => CInv
<1> SUFFICES ASSUME Init PROVE CInv
  OBVIOUS
<1>1. /\ NoFetch \in FetcherState /\ NoFetch.pc = "take" /\ NoFetch.off = 0
      /\ NoFetch.part = 0 /\ NoFetch.err = "none"
  BY TopicAssumption DEF NoFetch, FetcherState, Partitions
<1>2. /\ replay = FALSE /\ source = -1 /\ delivered = {} /\ cOutcome = "not started"
      /\ cCrashed = FALSE /\ cFirstErr = "none" /\ cRunCancelled = FALSE
  BY DEF Init, ConsumerInit
<1>c. counted = 0 /\ observed = 0 /\ overshoot = 0
  BY DEF Init, ConsumerInit
<1>q. queue = <<>>
  BY DEF Init, ConsumerInit
<1>3. \A w \in Fetchers : fetcher[w] = NoFetch
  BY DEF Init, ConsumerInit
<1>4. ConsumerTypes
  <2>1. fetcher \in [Fetchers -> FetcherState]
    BY <1>1 DEF Init, ConsumerInit
  <2>2. queue \in Seq(Partitions)
    BY <1>q
  <2>3. replay \in BOOLEAN /\ source \in {-1, 0}
    BY <1>2
  <2>4. counted \in Nat /\ observed \in Nat /\ overshoot \in Nat
    BY <1>c
  <2> QED
    BY <2>1, <2>2, <2>3, <2>4 DEF ConsumerTypes
<1>5. WithinLog
  <2>1. logEnd[0] \in Nat
    <3>1. PInv
      BY InitPInv DEF Init
    <3> QED
      BY <3>1, TopicAssumption DEF PInv, TopicTypes, Partitions
  <2> QED
    BY <1>1, <1>3, <2>1 DEF WithinLog
<1>6. TalliesOK
  <2>1. counted <= Target /\ observed = counted + overshoot
    BY <1>c, ConsumerAssumption
  <2>2. cOutcome # "report" /\ \A w \in Fetchers : fetcher[w].pc # "swap"
    BY <1>1, <1>2, <1>3
  <2> QED
    BY <2>1, <2>2 DEF TalliesOK
<1>7. ConsumerCausal
  BY <1>1, <1>2, <1>3 DEF ConsumerCausal
<1>8. Ownership
  <2>1. \A w \in Fetchers : ~Owns(w)
    BY <1>1, <1>3 DEF Owns
  <2>2. DOMAIN queue = {}
    BY <1>q
  <2>3. IsFiniteSet(delivered) /\ Cardinality(delivered) = 0
    BY <1>2, FS_EmptySet
  <2> QED
    BY <1>2, <1>c, <2>1, <2>2, <2>3 DEF Ownership
<1> QED
  BY <1>4, <1>5, <1>6, <1>7, <1>8 DEF CInv

\* The growth of the log does not concern the consumer.
LEMMA GrowsCInv ==
  ASSUME PInv, CInv, Grows, TopicTypes', UNCHANGED consumerVars
  PROVE  CInv'
<1> USE DEF consumerVars, cSettings, tallies, cErrors
<1>1. ConsumerTypes' /\ TalliesOK' /\ ConsumerCausal'
  BY DEF CInv, ConsumerTypes, TalliesOK, ConsumerCausal
<1>2. WithinLog'
  <2> SUFFICES ASSUME NEW w \in Fetchers
               PROVE /\ fetcher[w].off <= logEnd'[fetcher[w].part]
                     /\ fetcher[w].pc \in {"read", "load", "swap"} =>
                          fetcher[w].off + fetcher[w].n <= logEnd'[fetcher[w].part]
    BY DEF WithinLog
  <2>1. fetcher[w].part \in Partitions /\ fetcher[w].off \in Nat /\ fetcher[w].n \in Nat
    BY DEF CInv, ConsumerTypes, FetcherState
  <2>2. logEnd[fetcher[w].part] \in Nat /\ logEnd'[fetcher[w].part] \in Nat
        /\ logEnd[fetcher[w].part] <= logEnd'[fetcher[w].part]
    BY <2>1 DEF PInv, TopicTypes, Grows
  <2> QED
    BY <2>1, <2>2 DEF CInv, WithinLog
<1>3. Ownership'
  BY DEF CInv, Ownership, Owns
<1> QED
  BY <1>1, <1>2, <1>3 DEF CInv

\* A worker that keeps its partition and its offset, or gives the partition
\* up, leaves the ownership as it is.
LEMMA OwnershipKept ==
  ASSUME Ownership, UNCHANGED <<queue, delivered, observed, replay, cOutcome>>,
         \A v \in Fetchers : Owns(v)' =>
           /\ Owns(v) /\ fetcher'[v].part = fetcher[v].part
           /\ fetcher'[v].off = fetcher[v].off \/ replay
  PROVE  Ownership'
<1>1. ~replay =>
        /\ \A w \in Fetchers : Owns(w)' => \A i \in DOMAIN queue : queue[i] # fetcher'[w].part
        /\ \A w, v \in Fetchers : Owns(w)' /\ Owns(v)' /\ fetcher'[w].part = fetcher'[v].part => w = v
        /\ \A d \in delivered : \A w \in Fetchers :
             Owns(w)' /\ fetcher'[w].part = d[1] => d[2] < fetcher'[w].off
  BY DEF Ownership
<1> QED
  BY <1>1 DEF Ownership

\* A step of a worker that changes neither the tallies nor the queue.
LEMMA MoveCInv ==
  ASSUME PInv, CInv, NEW w \in Fetchers, NEW g \in FetcherState,
         fetcher' = [fetcher EXCEPT ![w] = g],
         UNCHANGED <<replay, source, queue, counted, observed, overshoot, delivered, cOutcome, logEnd>>,
         g.part = fetcher[w].part,
         g.pc \notin {"take", "done"} => Owns(w),
         g.off = fetcher[w].off \/ (replay /\ g.off = 0),
         g.pc \in {"read", "load", "swap"} => g.off + g.n <= logEnd[g.part],
         g.pc = "swap" => g.seen < Target,
         g.pc = "cancel" \/ g.err = "cancelled" => cCrashed',
         cCrashed' \in BOOLEAN, cRunCancelled' \in BOOLEAN, cFirstErr' # "cancelled",
         cRunCancelled' => cCrashed', cCrashed => cCrashed'
  PROVE  CInv'
<1>0. \A v \in Fetchers : fetcher'[v] = IF v = w THEN g ELSE fetcher[v]
  BY DEF CInv, ConsumerTypes
<1>1. ConsumerTypes'
  BY DEF CInv, ConsumerTypes
<1>2. WithinLog'
  <2>1. logEnd[g.part] \in Nat
    BY DEF FetcherState, PInv, TopicTypes
  <2>2. g.off <= logEnd[g.part]
    BY <2>1 DEF CInv, WithinLog
  <2> QED
    BY <1>0, <2>2 DEF CInv, WithinLog
<1>3. TalliesOK'
  BY <1>0 DEF CInv, TalliesOK
<1>4. ConsumerCausal'
  BY <1>0 DEF CInv, ConsumerCausal
<1>5. Ownership'
  <2>1. \A v \in Fetchers : Owns(v)' =>
           /\ Owns(v) /\ fetcher'[v].part = fetcher[v].part
           /\ fetcher'[v].off = fetcher[v].off \/ replay
    BY <1>0 DEF Owns
  <2> QED
    BY <2>1, OwnershipKept DEF CInv
<1> QED
  BY <1>1, <1>2, <1>3, <1>4, <1>5 DEF CInv

\* A worker tallies its response.
LEMMA TallyCInv ==
  ASSUME PInv, CInv, NEW w \in Fetchers, fetcher[w].pc \in {"load", "swap"}, cOutcome = "running",
         NEW accepted \in Nat, accepted <= fetcher[w].n,
         counted' = counted + accepted, counted' <= Target, Tally(w, accepted),
         UNCHANGED <<replay, source, queue, cOutcome, logEnd, cCrashed, cRunCancelled, cFirstErr>>
  PROVE  CInv'
<1> DEFINE f == fetcher[w]
           new == Records(f.part, f.off, f.n)
           g == [f EXCEPT !.pc = "after", !.off = f.off + f.n]
<1>0. f \in FetcherState /\ f.off \in Nat /\ f.n \in Nat /\ f.part \in Partitions
  BY DEF CInv, ConsumerTypes, FetcherState
<1>1. /\ g \in FetcherState /\ g.pc = "after" /\ g.off = f.off + f.n
      /\ g.part = f.part /\ g.n = f.n /\ g.err = f.err
  <2>1. f.off + f.n \in Nat
    BY <1>0
  <2> HIDE DEF f
  <2> QED
    BY <1>0, <2>1, Zenon DEF FetcherState
<1>2. /\ fetcher' = [fetcher EXCEPT ![w] = g]
      /\ observed' = observed + f.n
      /\ overshoot' = overshoot + f.n - accepted
      /\ delivered' = delivered \cup new
  <2>1. fetcher' = [fetcher EXCEPT ![w].pc = "after", ![w].off = f.off + f.n]
    BY DEF Tally
  <2> QED
    BY <2>1, Zenon DEF Tally, Records, CInv, ConsumerTypes, FetcherState
<1>3. Owns(w)
  BY DEF Owns
<1>4. \A x \in new : x[1] = f.part /\ x[2] \in f.off .. f.off + f.n - 1
  BY DEF Records
<1>5. IsFiniteSet(new) /\ Cardinality(new) = f.n
  BY <1>0, RunOfRecords
<1> HIDE DEF f, new, g
<1>6. \A v \in Fetchers : fetcher'[v] = IF v = w THEN g ELSE fetcher[v]
  BY <1>2 DEF CInv, ConsumerTypes
<1>7. ConsumerTypes'
  <2>1. observed' \in Nat /\ overshoot' \in Nat /\ counted' \in Nat
    <3>1. observed \in Nat /\ overshoot \in Nat /\ counted \in Nat
      BY Zenon DEF CInv, ConsumerTypes
    <3>2. accepted <= f.n
      BY DEF f
    <3> QED
      BY <1>0, <1>2, <3>1, <3>2, Sums
  <2>2. fetcher' \in [Fetchers -> FetcherState]
    BY <1>1, <1>2 DEF CInv, ConsumerTypes
  <2> QED
    BY <2>1, <2>2 DEF CInv, ConsumerTypes
<1>8. WithinLog'
  <2>1. f.off + f.n <= logEnd[f.part]
    BY DEF f, CInv, WithinLog
  <2> QED
    BY <1>1, <1>6, <2>1 DEF CInv, WithinLog
<1>9. TalliesOK'
  <2>1. observed' = counted' + overshoot'
    <3>1. counted \in Nat /\ overshoot \in Nat /\ observed = counted + overshoot
      BY Zenon DEF CInv, TalliesOK, ConsumerTypes
    <3> QED
      BY <1>0, <1>2, <3>1
  <2>2. \A v \in Fetchers : fetcher'[v].pc = "swap" => fetcher'[v].seen < Target
    BY <1>1, <1>6, Zenon DEF CInv, TalliesOK
  <2> QED
    BY <2>1, <2>2 DEF TalliesOK
<1>10. ConsumerCausal'
  <2>1. g.err = "cancelled" => cCrashed
    BY <1>1, Zenon DEF f, CInv, ConsumerCausal
  <2> QED
    BY <1>1, <1>6, <2>1 DEF CInv, ConsumerCausal
<1>11. ASSUME ~replay
       PROVE  /\ \A v \in Fetchers : Owns(v)' => \A i \in DOMAIN queue : queue[i] # fetcher'[v].part
              /\ \A u, v \in Fetchers : Owns(u)' /\ Owns(v)' /\ fetcher'[u].part = fetcher'[v].part => u = v
  <2>1. \A v \in Fetchers : Owns(v)' => Owns(v) /\ fetcher'[v].part = fetcher[v].part
    BY <1>1, <1>3, <1>6 DEF Owns, f
  <2> QED
    BY <1>11, <2>1 DEF CInv, Ownership
<1>12. ASSUME ~replay, NEW d \in delivered'
       PROVE  /\ d[2] \in Nat
              /\ \A i \in DOMAIN queue : queue[i] # d[1]
              /\ \A v \in Fetchers : Owns(v)' /\ fetcher'[v].part = d[1] => d[2] < fetcher'[v].off
  <2>1. CASE d \in new
    <3>1. d[1] = fetcher[w].part /\ d[2] < f.off + f.n /\ d[2] \in Nat
      BY <1>0, <1>4, <2>1, OffsetsOf DEF f
    <3>2. \A i \in DOMAIN queue : queue[i] # d[1]
      BY <1>3, <1>12, <3>1, ZenonT(30) DEF CInv, Ownership
    <3>3. \A v \in Fetchers : Owns(v)' /\ fetcher'[v].part = d[1] => v = w
      BY <1>1, <1>3, <1>6, <1>12, <3>1, Zenon DEF CInv, Ownership, Owns
    <3> QED
      BY <1>1, <1>6, <3>1, <3>2, <3>3, ZenonT(30)
  <2>2. CASE d \in delivered
    <3>1. /\ d[2] \in Nat
          /\ \A i \in DOMAIN queue : queue[i] # d[1]
          /\ \A v \in Fetchers : Owns(v) /\ fetcher[v].part = d[1] => d[2] < fetcher[v].off
      BY <1>12, <2>2 DEF CInv, Ownership
    <3>2. CASE d[1] = f.part
      <4>1. d[2] < fetcher[w].off
        BY <1>3, <3>1, <3>2, Zenon DEF f
      <4>2. d[2] < g.off
        <5>1. d[2] < f.off
          BY <4>1 DEF f
        <5> QED
          BY <1>0, <1>1, <3>1, <5>1, Sums, Zenon
      <4> QED
        BY <1>6, <3>1, <4>1, <4>2, Zenon DEF Owns
    <3>3. CASE d[1] # f.part
      BY <1>1, <1>6, <3>1, <3>3 DEF Owns
    <3> QED
      BY <3>2, <3>3, Zenon
  <2> QED
    BY <1>2, <2>1, <2>2
<1>13. ASSUME ~replay
       PROVE  IsFiniteSet(delivered') /\ observed' = Cardinality(delivered')
  <2>1. delivered \cap new = {}
    <3> SUFFICES ASSUME NEW d \in delivered, d \in new PROVE FALSE
      OBVIOUS
    <3>1. d[1] = fetcher[w].part /\ ~(d[2] < fetcher[w].off)
      BY <1>0, <1>4, OffsetsOf, Zenon DEF f
    <3>2. d[2] < fetcher[w].off
      BY <1>3, <1>13, <3>1 DEF CInv, Ownership
    <3> QED
      BY <3>1, <3>2
  <2>2. IsFiniteSet(delivered) /\ observed = Cardinality(delivered)
    BY <1>13 DEF CInv, Ownership
  <2>3. IsFiniteSet(delivered \cup new)
        /\ Cardinality(delivered \cup new) = Cardinality(delivered) + Cardinality(new) - Cardinality(delivered \cap new)
    BY <1>5, <2>2, FS_Union
  <2>4. Cardinality(delivered \cap new) = 0
    BY <2>1, FS_EmptySet
  <2>5. observed \in Nat
    BY Zenon DEF CInv, ConsumerTypes
  <2> QED
    BY <1>0, <1>2, <1>5, <2>2, <2>3, <2>4, <2>5
<1>14. Ownership'
  <2>1. ~replay => \A i, j \in DOMAIN queue : queue[i] = queue[j] => i = j
    BY DEF CInv, Ownership
  <2> QED
    BY <1>11, <1>12, <1>13, <2>1, Zenon DEF Ownership
<1> QED
  BY <1>7, <1>8, <1>9, <1>10, <1>14 DEF CInv

\* A worker takes the next partition, or finds none.
LEMMA TakeCInv ==
  ASSUME PInv, CInv, NEW w \in Fetchers, TakePartition(w)
  PROVE  CInv'
<1> USE DEF topicVars, cSettings, tallies, cErrors
<1>0. fetcher[w] \in FetcherState /\ fetcher[w].pc = "take"
  BY DEF CInv, ConsumerTypes, TakePartition, FetcherAt
<1>1. CASE cRunCancelled \/ queue = <<>>
  <2> DEFINE g == [fetcher[w] EXCEPT !.pc = "done"]
  <2>1. fetcher' = [fetcher EXCEPT ![w] = g] /\ UNCHANGED queue
    BY <1>1 DEF TakePartition, FetcherTo
  <2>2. /\ g \in FetcherState /\ g.pc = "done" /\ g.part = fetcher[w].part
        /\ g.off = fetcher[w].off /\ g.err = fetcher[w].err
    BY <1>0 DEF FetcherState
  <2> HIDE DEF g
  <2> QED
    BY <2>1, <2>2, MoveCInv, Zenon DEF TakePartition, CInv, ConsumerCausal
<1>2. CASE ~(cRunCancelled \/ queue = <<>>)
  <2> DEFINE g == [NoFetch EXCEPT !.pc = "check", !.part = Head(queue)]
  <2>1. /\ queue \in Seq(Partitions) /\ queue # <<>>
        /\ Head(queue) = queue[1] /\ Head(queue) \in Partitions /\ 1 \in DOMAIN queue
        /\ Tail(queue) \in Seq(Partitions)
        /\ \A i \in DOMAIN Tail(queue) : i + 1 \in DOMAIN queue /\ i + 1 # 1 /\ Tail(queue)[i] = queue[i + 1]
        /\ DOMAIN Tail(queue) \subseteq Nat
    BY <1>2 DEF CInv, ConsumerTypes
  <2>2. fetcher' = [fetcher EXCEPT ![w] = g] /\ queue' = Tail(queue)
    BY <1>2 DEF TakePartition, Remaining
  <2>3. /\ g \in FetcherState /\ g.pc = "check" /\ g.part = queue[1]
        /\ g.off = 0 /\ g.err = "none"
    BY <2>1, Zenon DEF NoFetch, FetcherState
  <2> HIDE DEF g
  <2>4. \A v \in Fetchers : fetcher'[v] = IF v = w THEN g ELSE fetcher[v]
    BY <2>2 DEF CInv, ConsumerTypes
  <2>5. ConsumerTypes'
    BY <2>1, <2>2, <2>3 DEF TakePartition, CInv, ConsumerTypes
  <2>6. WithinLog'
    <3>1. logEnd[g.part] \in Nat
      BY <2>3 DEF FetcherState, PInv, TopicTypes
    <3> QED
      BY <2>3, <2>4, <3>1 DEF TakePartition, CInv, WithinLog
  <2>7. TalliesOK'
    BY <2>3, <2>4 DEF TakePartition, CInv, TalliesOK
  <2>8. ConsumerCausal'
    BY <2>3, <2>4 DEF TakePartition, CInv, ConsumerCausal
  <2>9. Ownership'
    <3>1. UNCHANGED <<replay, delivered, observed, cOutcome>>
      BY DEF TakePartition
    <3> SUFFICES ASSUME ~replay
                 PROVE  /\ \A i, j \in DOMAIN queue' : queue'[i] = queue'[j] => i = j
                        /\ \A u \in Fetchers : Owns(u)' => \A i \in DOMAIN queue' : queue'[i] # fetcher'[u].part
                        /\ \A u, v \in Fetchers : Owns(u)' /\ Owns(v)' /\ fetcher'[u].part = fetcher'[v].part => u = v
                        /\ \A d \in delivered :
                             /\ \A i \in DOMAIN queue' : queue'[i] # d[1]
                             /\ \A u \in Fetchers : Owns(u)' /\ fetcher'[u].part = d[1] => d[2] < fetcher'[u].off
      BY <3>1 DEF CInv, Ownership
    <3>2. \A i \in DOMAIN queue' : i \in Nat /\ i + 1 \in DOMAIN queue /\ i + 1 # 1 /\ queue'[i] = queue[i + 1]
      BY <2>1, <2>2
    <3>3. \A i, j \in DOMAIN queue' : queue'[i] = queue'[j] => i = j
      <4> SUFFICES ASSUME NEW i \in DOMAIN queue', NEW j \in DOMAIN queue', queue'[i] = queue'[j]
                   PROVE i = j
        OBVIOUS
      <4>1. i + 1 \in DOMAIN queue /\ j + 1 \in DOMAIN queue /\ queue[i + 1] = queue[j + 1]
        BY <3>2
      <4>2. i + 1 = j + 1
        BY <4>1 DEF CInv, Ownership
      <4> QED
        BY <3>2, <4>2
    <3>4. \A i \in DOMAIN queue' : queue'[i] # queue[1]
      BY <2>1, <3>2 DEF CInv, Ownership
    <3>5. \A u \in Fetchers : u # w /\ Owns(u)' => Owns(u) /\ fetcher'[u].part = fetcher[u].part
                                                /\ fetcher'[u].off = fetcher[u].off
      BY <2>4 DEF Owns
    <3>6. \A u \in Fetchers : u # w /\ Owns(u)' =>
            \A i \in DOMAIN queue : queue[i] # fetcher'[u].part
      BY <3>5 DEF CInv, Ownership
    <3>7. ASSUME NEW u \in Fetchers, Owns(u)', NEW i \in DOMAIN queue'
          PROVE  queue'[i] # fetcher'[u].part
      <4>1. CASE u = w
        BY <2>3, <2>4, <3>4, <4>1
      <4>2. CASE u # w
        <5>1. i + 1 \in DOMAIN queue /\ queue'[i] = queue[i + 1]
          BY <3>2
        <5> QED
          BY <3>6, <3>7, <4>2, <5>1
      <4> QED
        BY <4>1, <4>2
    <3>8. \A u, v \in Fetchers : Owns(u)' /\ Owns(v)' /\ fetcher'[u].part = fetcher'[v].part => u = v
      <4> SUFFICES ASSUME NEW u \in Fetchers, NEW v \in Fetchers, Owns(u)', Owns(v)',
                          fetcher'[u].part = fetcher'[v].part, u # v
                   PROVE FALSE
        OBVIOUS
      <4>1. CASE u # w /\ v # w
        BY <3>5, <4>1 DEF CInv, Ownership
      <4>2. CASE u = w
        BY <2>1, <2>3, <2>4, <3>6, <4>2
      <4>3. CASE v = w
        BY <2>1, <2>3, <2>4, <3>6, <4>3
      <4> QED
        BY <4>1, <4>2, <4>3
    <3>9. ASSUME NEW d \in delivered
          PROVE  /\ \A i \in DOMAIN queue' : queue'[i] # d[1]
                 /\ \A u \in Fetchers : Owns(u)' /\ fetcher'[u].part = d[1] => d[2] < fetcher'[u].off
      <4>1. /\ \A i \in DOMAIN queue : queue[i] # d[1]
            /\ \A u \in Fetchers : Owns(u) /\ fetcher[u].part = d[1] => d[2] < fetcher[u].off
        BY DEF CInv, Ownership
      <4>2. fetcher'[w].part # d[1]
        BY <2>1, <2>3, <2>4, <4>1
      <4> QED
        BY <3>2, <3>5, <4>1, <4>2
    <3> QED
      BY <3>3, <3>7, <3>8, <3>9
  <2> QED
    BY <2>5, <2>6, <2>7, <2>8, <2>9 DEF CInv
<1> QED
  BY <1>1, <1>2

\* Every step of a worker preserves the invariant of the consumer.
LEMMA FetcherCInv ==
  ASSUME PInv, CInv, NEW w \in Fetchers, FetcherStep(w)
  PROVE  CInv'
<1> USE DEF topicVars, cSettings, tallies, cErrors, FetcherAt, FetcherTo
<1> DEFINE f == fetcher[w]
<1>0. /\ f \in FetcherState /\ fetcher \in [Fetchers -> FetcherState]
      /\ f.off \in Nat /\ f.n \in Nat /\ f.part \in Partitions /\ logEnd[f.part] \in Nat
  BY DEF CInv, ConsumerTypes, FetcherState, PInv, TopicTypes
<1>c. /\ cCrashed \in BOOLEAN /\ cRunCancelled \in BOOLEAN /\ cFirstErr # "cancelled"
      /\ cRunCancelled => cCrashed
      /\ f.pc = "cancel" \/ f.err = "cancelled" => cCrashed
  BY DEF CInv, ConsumerCausal
<1>1. CASE TakePartition(w)
  BY <1>1, TakeCInv
<1>2. CASE CheckProgress(w)
  <2> DEFINE g == [f EXCEPT !.pc = IF Finish THEN "done" ELSE "fetch"]
  <2>1. fetcher' = [fetcher EXCEPT ![w] = g] /\ f.pc = "check"
    BY <1>2 DEF CheckProgress
  <2>2. /\ g \in FetcherState /\ g.pc \in {"done", "fetch"} /\ g.part = f.part
        /\ g.off = f.off /\ g.err = f.err
    BY <1>0 DEF FetcherState
  <2> HIDE DEF g
  <2> QED
    BY <1>2, <1>c, <2>1, <2>2, MoveCInv, Zenon DEF CheckProgress, Owns
<1>3. CASE IdleTimeout(w)
  <2> DEFINE g == [f EXCEPT !.pc = "crash", !.err = "idle"]
  <2>1. fetcher' = [fetcher EXCEPT ![w] = g] /\ f.pc = "check"
    BY <1>0, <1>3, Zenon DEF IdleTimeout
  <2>2. /\ g \in FetcherState /\ g.pc = "crash" /\ g.part = f.part
        /\ g.off = f.off /\ g.err = "idle"
    BY <1>0, Zenon DEF FetcherState
  <2> HIDE DEF g
  <2> QED
    BY <1>3, <1>c, <2>1, <2>2, MoveCInv, Zenon DEF IdleTimeout, Owns
<1>4. CASE FetchRecords(w)
  <2>1. PICK n \in 0 .. MaxFetch : /\ n <= logEnd[f.part] - f.off
                                   /\ fetcher' = [fetcher EXCEPT ![w].pc = "read", ![w].n = n]
    BY <1>4, Zenon DEF FetchRecords
  <2> DEFINE g == [f EXCEPT !.pc = "read", !.n = n]
  <2>2. fetcher' = [fetcher EXCEPT ![w] = g] /\ f.pc = "fetch" /\ n \in Nat
    <3>1. n \in Nat
      BY <2>1, ConsumerAssumption
    <3>2. f.pc = "fetch"
      BY <1>4 DEF FetchRecords
    <3>3. fetcher' = [fetcher EXCEPT ![w] = g]
      BY <1>0, <2>1, Zenon
    <3> QED
      BY <3>1, <3>2, <3>3
  <2>3. /\ g \in FetcherState /\ g.pc = "read" /\ g.part = f.part
        /\ g.off = f.off /\ g.err = f.err /\ g.n = n
    BY <1>0, <2>2, Zenon DEF FetcherState
  <2> HIDE DEF g
  <2>4. g.off + g.n <= logEnd[g.part]
    BY <1>0, <2>1, <2>2, <2>3
  <2> QED
    BY <1>4, <1>c, <2>2, <2>3, <2>4, MoveCInv, Zenon DEF FetchRecords, Owns
<1>5. CASE FetchLogEnd(w)
  <2> DEFINE g == [f EXCEPT !.end = logEnd[f.part], !.pc = IF f.n > 0 THEN "load" ELSE "after"]
  <2>1. fetcher' = [fetcher EXCEPT ![w] = g] /\ f.pc = "read"
    BY <1>0, <1>5, Zenon DEF FetchLogEnd
  <2>2. /\ g \in FetcherState /\ g.pc \in {"load", "after"} /\ g.part = f.part
        /\ g.off = f.off /\ g.err = f.err /\ g.n = f.n
    BY <1>0, Zenon DEF FetcherState
  <2> HIDE DEF g
  <2>3. g.off + g.n <= logEnd[g.part]
    BY <2>1, <2>2 DEF CInv, WithinLog
  <2> QED
    BY <1>5, <1>c, <2>1, <2>2, <2>3, MoveCInv, Zenon DEF FetchLogEnd, Owns
<1>6. CASE FetchFails(w)
  <2>1. PICK e \in {"causal"} \cup (IF cRunCancelled THEN {"cancelled"} ELSE {}) :
          fetcher' = [fetcher EXCEPT ![w].pc = "crash", ![w].err = e]
    BY <1>6, Zenon DEF FetchFails
  <2> DEFINE g == [f EXCEPT !.pc = "crash", !.err = e]
  <2>2. fetcher' = [fetcher EXCEPT ![w] = g] /\ f.pc \in {"fetch", "read"}
    BY <1>0, <1>6, <2>1, Zenon DEF FetchFails
  <2>3. e \in {"causal", "cancelled"} /\ (e = "cancelled" => cCrashed)
    BY <1>c, <2>1
  <2>4. /\ g \in FetcherState /\ g.pc = "crash" /\ g.part = f.part
        /\ g.off = f.off /\ g.err = e
    BY <1>0, <2>3, Zenon DEF FetcherState
  <2> HIDE DEF g
  <2> QED
    BY <1>6, <1>c, <2>2, <2>3, <2>4, MoveCInv, Zenon DEF FetchFails, Owns
<1>7. CASE FetchCancelled(w)
  <2> DEFINE g == [f EXCEPT !.pc = "done"]
  <2>1. fetcher' = [fetcher EXCEPT ![w] = g]
    BY <1>0, <1>7 DEF FetchCancelled
  <2>2. /\ g \in FetcherState /\ g.pc = "done" /\ g.part = f.part
        /\ g.off = f.off /\ g.err = f.err
    BY <1>0 DEF FetcherState
  <2> HIDE DEF g
  <2> QED
    BY <1>7, <1>c, <2>1, <2>2, MoveCInv, Zenon DEF FetchCancelled
<1>8. CASE LoadCounted(w)
  <2>0. f.pc = "load" /\ cOutcome = "running"
    BY <1>8 DEF LoadCounted
  <2>1. CASE counted >= Target
    <3>1. counted' = counted + 0 /\ counted' <= Target /\ 0 <= f.n
      BY <1>0, <1>8 DEF LoadCounted, CInv, ConsumerTypes, TalliesOK
    <3>2. Tally(w, 0)
      BY <1>8, <2>1 DEF LoadCounted
    <3> QED
      BY <1>8, <2>0, <3>1, <3>2, TallyCInv DEF LoadCounted
  <2>2. CASE ~(counted >= Target)
    <3> DEFINE g == [f EXCEPT !.pc = "swap", !.seen = counted]
    <3>1. fetcher' = [fetcher EXCEPT ![w] = g]
      BY <1>0, <1>8, <2>2, Zenon DEF LoadCounted
    <3>2. /\ g \in FetcherState /\ g.pc = "swap" /\ g.part = f.part /\ g.seen = counted
          /\ g.off = f.off /\ g.err = f.err /\ g.n = f.n
      BY <1>0, Zenon DEF FetcherState, CInv, ConsumerTypes
    <3> HIDE DEF g
    <3>3. g.off + g.n <= logEnd[g.part]
      BY <2>0, <3>2 DEF CInv, WithinLog
    <3>4. g.seen < Target
      BY <2>2, <3>2, Sums, ConsumerAssumption DEF CInv, ConsumerTypes
    <3> QED
      BY <1>8, <1>c, <2>0, <2>2, <3>1, <3>2, <3>3, <3>4, MoveCInv, Zenon DEF LoadCounted, Owns
  <2> QED
    BY <2>1, <2>2
<1>9. CASE SwapCounted(w)
  <2>0. f.pc = "swap" /\ cOutcome = "running" /\ f.seen \in Nat /\ f.seen < Target
    BY <1>0, <1>9 DEF SwapCounted, FetcherState, CInv, TalliesOK
  <2>1. CASE Unchanged(f.seen)
    <3> DEFINE accepted == Min({f.n, Target - f.seen})
    <3>1. accepted \in Nat /\ accepted <= f.n /\ accepted <= Target - f.seen
      <4>1. f.n \in Int /\ Target - f.seen \in Int /\ Target - f.seen > 0 /\ f.n >= 0
        BY <1>0, <2>0, ConsumerAssumption
      <4>2. accepted \in Int /\ accepted <= f.n /\ accepted <= Target - f.seen
            /\ accepted \in {f.n, Target - f.seen}
        BY <4>1, MinOfTwo, Zenon
      <4> HIDE DEF accepted
      <4> QED
        BY <1>0, <4>1, <4>2
    <3>2. counted' = f.seen + accepted /\ Tally(w, accepted)
      BY <1>9, <2>1 DEF SwapCounted
    <3> HIDE DEF accepted
    <3>3. counted' = counted + accepted /\ counted' <= Target
      <4>1. counted' = counted + accepted
        BY <2>1, <3>2 DEF Unchanged
      <4>2. f.seen + accepted <= Target
        BY <2>0, <3>1, Sums, ConsumerAssumption
      <4> QED
        BY <3>2, <4>1, <4>2
    <3> QED
      BY <1>9, <2>0, <3>1, <3>2, <3>3, TallyCInv DEF SwapCounted
  <2>2. CASE ~Unchanged(f.seen)
    <3> DEFINE g == [f EXCEPT !.pc = "load"]
    <3>1. fetcher' = [fetcher EXCEPT ![w] = g]
      BY <1>0, <1>9, <2>2 DEF SwapCounted
    <3>2. /\ g \in FetcherState /\ g.pc = "load" /\ g.part = f.part
          /\ g.off = f.off /\ g.err = f.err /\ g.n = f.n
      BY <1>0 DEF FetcherState
    <3> HIDE DEF g
    <3>3. g.off + g.n <= logEnd[g.part]
      BY <2>0, <3>2 DEF CInv, WithinLog
    <3>4. UNCHANGED <<counted, observed, overshoot, delivered>>
      BY <1>9, <2>2 DEF SwapCounted
    <3> QED
      BY <1>9, <1>c, <2>0, <3>1, <3>2, <3>3, <3>4, MoveCInv, Zenon DEF SwapCounted, Owns
  <2> QED
    BY <2>1, <2>2
<1>10. CASE AfterResponse(w)
  <2>0. f.pc = "after"
    BY <1>10 DEF AfterResponse
  <2>1. CASE ReachedEnd(f) /\ ~replay
    <3> DEFINE g == [f EXCEPT !.pc = "take"]
    <3>1. fetcher' = [fetcher EXCEPT ![w] = g]
      BY <1>0, <1>10, <2>1 DEF AfterResponse
    <3>2. /\ g \in FetcherState /\ g.pc = "take" /\ g.part = f.part
          /\ g.off = f.off /\ g.err = f.err
      BY <1>0 DEF FetcherState
    <3> HIDE DEF g
    <3> QED
      BY <1>10, <1>c, <3>1, <3>2, MoveCInv, Zenon DEF AfterResponse
  <2>2. CASE ~(ReachedEnd(f) /\ ~replay)
    <3> DEFINE g == [f EXCEPT !.pc = IF f.n = 0 THEN "poll" ELSE "check",
                              !.off = IF ReachedEnd(f) THEN 0 ELSE f.off]
    <3>1. fetcher' = [fetcher EXCEPT ![w] = g]
      BY <1>0, <1>10, <2>2, Zenon DEF AfterResponse, FetcherState
    <3>2. /\ g \in FetcherState /\ g.pc \in {"poll", "check"} /\ g.part = f.part
          /\ g.off = f.off \/ (replay /\ g.off = 0)
          /\ g.err = f.err
      BY <1>0, <2>2, Zenon DEF FetcherState
    <3> HIDE DEF g
    <3> QED
      BY <1>10, <1>c, <2>0, <3>1, <3>2, MoveCInv, Zenon DEF AfterResponse, Owns
  <2> QED
    BY <2>1, <2>2
<1>11. CASE Poll(w)
  <2>1. PICK to \in {"check", "done"} : fetcher' = [fetcher EXCEPT ![w].pc = to]
    BY <1>11 DEF Poll
  <2> DEFINE g == [f EXCEPT !.pc = to]
  <2>2. fetcher' = [fetcher EXCEPT ![w] = g] /\ f.pc = "poll"
    BY <1>0, <1>11, <2>1 DEF Poll
  <2>3. /\ g \in FetcherState /\ g.pc \in {"check", "done"} /\ g.part = f.part
        /\ g.off = f.off /\ g.err = f.err
    BY <1>0 DEF FetcherState
  <2> HIDE DEF g
  <2> QED
    BY <1>11, <1>c, <2>2, <2>3, MoveCInv, Zenon DEF Poll, Owns
<1>12. CASE RecordFetchError(w)
  <2> DEFINE g == [f EXCEPT !.pc = "cancel"]
  <2>1. fetcher' = [fetcher EXCEPT ![w] = g] /\ f.pc = "crash"
    BY <1>0, <1>12 DEF RecordFetchError
  <2>2. /\ g \in FetcherState /\ g.pc = "cancel" /\ g.part = f.part
        /\ g.off = f.off /\ g.err = f.err
    BY <1>0 DEF FetcherState
  <2>3. cCrashed' = TRUE /\ cFirstErr' # "cancelled" /\ cRunCancelled' = cRunCancelled
    BY <1>12, <1>c DEF RecordFetchError
  <2> HIDE DEF g
  <2> QED
    BY <1>12, <1>c, <2>1, <2>2, <2>3, MoveCInv, Zenon DEF RecordFetchError, Owns
<1>13. CASE CancelFetches(w)
  <2> DEFINE g == [f EXCEPT !.pc = "done"]
  <2>1. fetcher' = [fetcher EXCEPT ![w] = g] /\ f.pc = "cancel"
    BY <1>0, <1>13 DEF CancelFetches
  <2>2. /\ g \in FetcherState /\ g.pc = "done" /\ g.part = f.part
        /\ g.off = f.off /\ g.err = f.err
    BY <1>0 DEF FetcherState
  <2>3. cRunCancelled' = TRUE /\ cCrashed' = cCrashed /\ cCrashed /\ cFirstErr' = cFirstErr
    BY <1>13, <1>c, <2>1 DEF CancelFetches
  <2>4. /\ cCrashed' \in BOOLEAN /\ cRunCancelled' \in BOOLEAN /\ cFirstErr' # "cancelled"
        /\ cRunCancelled' => cCrashed'
        /\ cCrashed => cCrashed'
        /\ cCrashed'
    BY <1>c, <2>3
  <2>5. UNCHANGED <<replay, source, queue, counted, observed, overshoot, delivered, cOutcome, logEnd>>
    BY <1>13 DEF CancelFetches
  <2> HIDE DEF g
  <2> QED
    BY <2>1, <2>2, <2>4, <2>5, MoveCInv, Zenon
<1> QED
  BY <1>1, <1>2, <1>3, <1>4, <1>5, <1>6, <1>7, <1>8, <1>9, <1>10, <1>11, <1>12, <1>13 DEF FetcherStep

\* Every step of the consumer preserves its invariant.
LEMMA ConsumerCInv == PInv /\ CInv /\ ConsumerNext => CInv'
<1> SUFFICES ASSUME PInv, CInv, ConsumerNext PROVE CInv'
  OBVIOUS
<1> USE DEF topicVars, cSettings, tallies, cErrors
<1>1. CASE ConsumerStart
  <2> DEFINE pcOf(w) == IF w \in Started(source') THEN "take" ELSE "done"
  <2>1. \A w \in Fetchers : fetcher'[w] = [NoFetch EXCEPT !.pc = pcOf(w)]
    BY <1>1 DEF ConsumerStart
  <2>2. \A x \in {"take", "done"} :
          LET g == [NoFetch EXCEPT !.pc = x]
          IN  g \in FetcherState /\ g.pc = x /\ g.part = 0 /\ g.off = 0 /\ g.err = "none"
    BY TopicAssumption DEF NoFetch, FetcherState, Partitions
  <2>3. \A w \in Fetchers :
          /\ fetcher'[w] \in FetcherState /\ fetcher'[w].pc \in {"take", "done"}
          /\ fetcher'[w].part = 0 /\ fetcher'[w].off = 0 /\ fetcher'[w].err = "none"
    BY <2>1, <2>2, Zenon
  <2>4. /\ replay' \in BOOLEAN /\ source' \in {-1, 0}
        /\ queue' = ToConsume(source') /\ cOutcome' \in {"running", "error"}
        /\ cOutcome = "not started"
        /\ UNCHANGED <<counted, observed, overshoot, delivered, cCrashed, cFirstErr, cRunCancelled, logEnd>>
    BY <1>1 DEF ConsumerStart
  <2>5. /\ queue' \in Seq(Partitions)
        /\ \A i, j \in DOMAIN queue' : queue'[i] = queue'[j] => i = j
    <3>1. CASE source' = -1
      <4>1. queue' = [i \in 1 .. PartitionCount |-> i - 1]
        BY <2>4, <3>1 DEF ToConsume
      <4>2. \A i \in 1 .. PartitionCount : i - 1 \in Partitions
        BY TopicAssumption DEF Partitions
      <4> QED
        BY <4>1, <4>2, TopicAssumption
    <3>2. CASE source' = 0
      <4>1. queue' = <<0>> /\ 0 \in Partitions
        <5>1. 0 # -1 /\ 0 \in Partitions
          BY TopicAssumption DEF Partitions
        <5>2. queue' = ToConsume(0)
          BY <2>4, <3>2
        <5> QED
          BY <5>1, <5>2 DEF ToConsume
      <4> QED
        BY <4>1
    <3> QED
      BY <2>4, <3>1, <3>2
  <2>6. ConsumerTypes'
    <3>1. fetcher' \in [Fetchers -> FetcherState]
      BY <1>1, <2>3 DEF ConsumerStart
    <3> QED
      BY <2>4, <2>5, <3>1 DEF CInv, ConsumerTypes
  <2>7. WithinLog'
    <3>1. logEnd[0] \in Nat
      BY TopicAssumption DEF PInv, TopicTypes, Partitions
    <3>2. logEnd' = logEnd
      BY <2>4
    <3> QED
      BY <2>3, <3>1, <3>2 DEF WithinLog
  <2>8. TalliesOK'
    BY <2>3, <2>4 DEF CInv, TalliesOK
  <2>9. ConsumerCausal'
    BY <2>3, <2>4 DEF CInv, ConsumerCausal
  <2>10. Ownership'
    <3>1. \A w \in Fetchers : ~Owns(w)'
      BY <2>3 DEF Owns
    <3>2. delivered = {} /\ observed = 0
      BY <2>4 DEF CInv, Ownership
    <3>3. IsFiniteSet(delivered) /\ Cardinality(delivered) = 0
      BY <3>2, FS_EmptySet
    <3> QED
      BY <2>4, <2>5, <3>1, <3>2, <3>3 DEF Ownership
  <2> QED
    BY <2>6, <2>7, <2>8, <2>9, <2>10 DEF CInv
<1>2. CASE ReplayExpires
  <2> USE <1>2 DEF ReplayExpires
  <2>1. ConsumerTypes' /\ WithinLog' /\ TalliesOK' /\ ConsumerCausal'
    BY Zenon DEF CInv, ConsumerTypes, WithinLog, TalliesOK, ConsumerCausal
  <2>2. Ownership'
    BY Zenon DEF CInv, Ownership, Owns
  <2> QED
    BY <2>1, <2>2, Zenon DEF CInv
<1>3. CASE ConsumerEnds
  <2> USE <1>3 DEF ConsumerEnds
  <2>1. ConsumerTypes' /\ WithinLog' /\ ConsumerCausal'
    BY DEF CInv, ConsumerTypes, WithinLog, ConsumerCausal
  <2>2. TalliesOK'
    <3>1. /\ counted <= Target /\ observed = counted + overshoot
          /\ \A w \in Fetchers : fetcher[w].pc = "swap" => fetcher[w].seen < Target
          /\ counted \in Nat
      BY Zenon DEF CInv, TalliesOK, ConsumerTypes
    <3> QED
      BY <3>1, ConsumerAssumption DEF TalliesOK
  <2>3. Ownership'
    BY DEF CInv, Ownership, Owns
  <2> QED
    BY <2>1, <2>2, <2>3 DEF CInv
<1> QED
  BY <1>1, <1>2, <1>3, FetcherCInv DEF ConsumerNext
-----------------------------------------------------------------------------
\* The inductive invariant of the benchmark holds in every reachable state.
THEOREM BenchInvariance == Spec => [](PInv /\ CInv)
<1>1. Init => PInv /\ CInv
  BY InitPInv, InitCInv DEF Init
<1>2. PInv /\ CInv /\ [Next]_vars => (PInv /\ CInv)'
  <2> SUFFICES ASSUME PInv, CInv, [Next]_vars PROVE PInv' /\ CInv'
    OBVIOUS
  <2>0. ASSUME UNCHANGED <<producerVars, topicVars>> PROVE PInv' /\ Grows
    <3>1. UNCHANGED <<settings, counters, errors, worker, logEnd, stray>>
      BY <2>0 DEF producerVars, topicVars
    <3>2. TopicTypes' /\ Grows
      BY <3>1 DEF PInv, TopicTypes, Grows
    <3>3. ProducerTypes'
      BY <3>1, Zenon DEF settings, counters, PInv, ProducerTypes
    <3>4. ProducerCausal'
      BY <3>1 DEF errors, PInv, ProducerCausal
    <3> QED
      BY <3>2, <3>3, <3>4 DEF PInv
  <2>1. CASE ProducerNext /\ UNCHANGED consumerVars
    BY <2>1, ProducerPInv, GrowsCInv DEF PInv
  <2>2. CASE Exited /\ ConsumerNext /\ UNCHANGED producerVars
    <3>1. UNCHANGED topicVars
      BY <2>2, Zenon DEF ConsumerNext, ConsumerStart, ReplayExpires, ConsumerEnds, FetcherStep, TakePartition,
         CheckProgress, IdleTimeout, FetchRecords, FetchLogEnd, FetchFails, FetchCancelled,
         LoadCounted, SwapCounted, AfterResponse, Poll, RecordFetchError, CancelFetches, topicVars
    <3> QED
      BY <2>0, <2>2, <3>1, ConsumerCInv
  <2>3. CASE Exited /\ StrayAppend /\ UNCHANGED <<producerVars, consumerVars>>
    <3>1. TopicTypes' /\ Grows
      BY <2>3, StrayGrows, Zenon DEF PInv
    <3>2. PInv'
      BY <2>3, <3>1, Zenon DEF producerVars, settings, counters, errors, PInv, ProducerTypes, ProducerCausal
    <3> QED
      BY <2>3, <3>1, <3>2, GrowsCInv
  <2>4. CASE UNCHANGED vars
    BY <2>0, <2>4, GrowsCInv DEF vars, PInv
  <2> QED
    BY <2>1, <2>2, <2>3, <2>4 DEF Next, Finished
<1> QED
  BY <1>1, <1>2, PTL DEF Spec

\* The variables keep their types and every worker reads within the log.
THEOREM BenchTypes == Spec => []BenchTypeOK
<1>1. PInv /\ CInv => BenchTypeOK
  <2> SUFFICES ASSUME PInv, CInv PROVE BenchTypeOK
    OBVIOUS
  <2>1. \A w \in Workers : worker[w].req \in Request
    BY DEF PInv, ProducerTypes, WorkerState
  <2>2. \A w \in Fetchers : fetcher[w].part \in Partitions /\ fetcher[w].off <= logEnd[fetcher[w].part]
    BY DEF CInv, ConsumerTypes, FetcherState, WithinLog
  <2>3. \A i \in DOMAIN queue : queue[i] \in Partitions
    BY DEF CInv, ConsumerTypes
  <2> QED
    BY <2>1, <2>2, <2>3, Zenon DEF BenchTypeOK, PInv, CInv, TopicTypes, ProducerTypes, ConsumerTypes
<1> QED
  BY <1>1, BenchInvariance, PTL

\* The error that either command reports is never a cancellation that
\* another error caused.
THEOREM ErrorsAlwaysCausal == Spec => []ErrorIsCausal
<1>1. PInv /\ CInv => ErrorIsCausal
  BY DEF PInv, ProducerCausal, CInv, ConsumerCausal, ErrorIsCausal
<1> QED
  BY <1>1, BenchInvariance, PTL

\* The consumer's counts add up, and stop at the target, for any number of
\* workers that race in claimConsumed.
THEOREM CountsAlwaysExact == Spec => []CountsExact
<1>1. PInv /\ CInv => CountsExact
  BY DEF CInv, TalliesOK, CountsExact
<1> QED
  BY <1>1, BenchInvariance, PTL

\* In a run by count no record is observed twice.
THEOREM RecordsObservedOnce == Spec => []ObservedOnce
<1>1. PInv /\ CInv => ObservedOnce
  BY DEF CInv, Ownership, ObservedOnce
<1> QED
  BY <1>1, BenchInvariance, PTL
-----------------------------------------------------------------------------
\* Every non-empty set of natural numbers has a least element.
LEMMA LeastElement ==
  ASSUME NEW T, T \subseteq Nat, T # {}
  PROVE  \E m \in T : \A k \in T : m <= k
<1> DEFINE R == OpToRel(<, Nat)
<1>1. IsWellFoundedOn(R, Nat)
  BY NatLessThanWellFounded
<1>2. \A y, x \in Nat : y < x => <<y, x>> \in R
  BY DEF OpToRel
<1> HIDE DEF R
<1>3. PICK x \in T : \A y \in T : ~ (<<y, x>> \in R)
  BY <1>1, WFMin, Zenon
<1>4. ASSUME NEW y \in T PROVE x <= y
  <2>1. x \in Nat /\ y \in Nat /\ ~ (<<y, x>> \in R)
    BY <1>3
  <2>2. ~ (y < x)
    BY <1>2, <2>1
  <2> QED
    BY <2>1, <2>2
<1> QED
  BY <1>4

\* The order of offsets.
LEMMA Below ==
  /\ \A x, y, z \in Nat : x < y /\ y <= z => x < z
  /\ \A x, y, z \in Nat : x <= y /\ y <= z => x <= z
  /\ \A x, y, z \in Nat : x < y => ~(y + z <= x) /\ x < y + z /\ x <= y
  /\ \A x, y \in Nat : x < y => ~(x >= y) /\ y - x \in Int /\ y - x >= 0
  OBVIOUS
-----------------------------------------------------------------------------
(***************************************************************************)
(* The consumer that finds the partitions exhausted.                       *)
(***************************************************************************)
\* A partition is in the queue, or a worker has delivered it up to its offset,
\* or all that was there when the run began is delivered.
Queued(p) == \E j \in DOMAIN queue : queue[j] = p
Scanning(w, p) ==
  Owns(w) /\ fetcher[w].part = p /\ \A o \in 0 .. fetcher[w].off - 1 : <<p, o>> \in delivered
Drained(p) == \A o \in 0 .. present[p] - 1 : <<p, o>> \in delivered

\* The partitions that are to be consumed.
Chosen == {ToConsume(source)[i] : i \in DOMAIN ToConsume(source)}

\* A run by count that has met no error and not reached its target.
Searching == cOutcome = "running" /\ ~replay /\ ~cCrashed /\ counted < Target

Scan ==
  /\ present \in [Partitions -> Nat]
  /\ \A p \in Partitions : present[p] <= logEnd[p]
  /\ \A w \in Fetchers :
       fetcher[w].pc \in {"load", "swap", "after"} => present[fetcher[w].part] <= fetcher[w].end
  /\ Searching =>
       /\ \A p \in Chosen : Queued(p) \/ (\E w \in Fetchers : Scanning(w, p)) \/ Drained(p)
       /\ queue = <<>> \/ \E w \in Fetchers : fetcher[w].pc # "done"
  /\ ExhaustedHonestly

\* A step of a worker that goes on with its partition, takes one from the queue
\* or is done with one.
LEMMA ScanStep ==
  ASSUME Scan, cOutcome = "running", NEW w \in Fetchers,
         \A v \in Fetchers : v # w => fetcher'[v] = fetcher[v],
         UNCHANGED <<source, replay, present, cOutcome, logEnd>>,
         delivered \subseteq delivered',
         fetcher'[w].pc \in {"load", "swap", "after"} => present[fetcher'[w].part] <= fetcher'[w].end,
         Searching' => /\ Searching
                       /\ \A p : Queued(p) => Queued(p)' \/ Scanning(w, p)'
                       /\ \A p : Scanning(w, p) => Scanning(w, p)' \/ Drained(p)'
                       /\ queue' = <<>> \/ fetcher'[w].pc # "done"
  PROVE  Scan'
<1>1. \A v \in Fetchers :
        fetcher'[v].pc \in {"load", "swap", "after"} => present[fetcher'[v].part] <= fetcher'[v].end
  BY Zenon DEF Scan
<1>2. ASSUME Searching', NEW p \in Chosen
      PROVE  Queued(p)' \/ (\E v \in Fetchers : Scanning(v, p)') \/ Drained(p)'
  <2>1. Queued(p) \/ (\E v \in Fetchers : Scanning(v, p)) \/ Drained(p)
    BY <1>2, Zenon DEF Scan
  <2>2. Drained(p) => Drained(p)'
    BY Zenon DEF Drained
  <2>3. \A v \in Fetchers : v # w /\ Scanning(v, p) => Scanning(v, p)'
    BY Zenon DEF Scanning, Owns
  <2> QED
    BY <1>2, <2>1, <2>2, <2>3, Zenon
<1>3. Searching' => queue' = <<>> \/ \E v \in Fetchers : fetcher'[v].pc # "done"
  BY Zenon
<1>4. ExhaustedHonestly'
  BY Zenon DEF ExhaustedHonestly
<1>5. present' \in [Partitions -> Nat] /\ \A p \in Partitions : present'[p] <= logEnd'[p]
  BY Zenon DEF Scan
<1>6. Chosen' = Chosen
  BY Zenon DEF Chosen, ToConsume
<1>7. \A v \in Fetchers :
        fetcher'[v].pc \in {"load", "swap", "after"} => present'[fetcher'[v].part] <= fetcher'[v].end
  BY <1>1, Zenon
<1>8. Searching' =>
        \A p \in Chosen' : Queued(p)' \/ (\E v \in Fetchers : Scanning(v, p)') \/ Drained(p)'
  BY <1>2, <1>6, Zenon
<1> QED
  BY <1>3, <1>4, <1>5, <1>7, <1>8, Zenon DEF Scan

\* A step in which a worker keeps its partition and its offset.
LEMMA ScanKeeps ==
  ASSUME Scan, cOutcome = "running", NEW w \in Fetchers, NEW g,
         fetcher \in [Fetchers -> FetcherState], fetcher' = [fetcher EXCEPT ![w] = g],
         g.part = fetcher[w].part,
         UNCHANGED <<source, replay, queue, present, cOutcome, logEnd>>,
         delivered \subseteq delivered',
         g.pc \in {"load", "swap", "after"} => present[g.part] <= g.end,
         Searching' => Searching /\ g.off = fetcher[w].off /\ g.pc \notin {"take", "done"}
  PROVE  Scan'
<1>1. fetcher'[w] = g /\ \A v \in Fetchers : v # w => fetcher'[v] = fetcher[v]
  BY ZenonT(30)
<1>2. ASSUME Searching', NEW p, Scanning(w, p) PROVE Scanning(w, p)'
  BY <1>1, <1>2 DEF Scanning, Owns
<1>3. \A p : Queued(p) => Queued(p)'
  BY DEF Queued
<1> QED
  BY <1>1, <1>2, <1>3, ScanStep, Zenon

\* Records that were tallied are delivered.
LEMMA TallyScan ==
  ASSUME CInv, Scan, cOutcome = "running", NEW w \in Fetchers, fetcher[w].pc \in {"load", "swap"},
         NEW accepted, Tally(w, accepted), Searching' => Searching,
         UNCHANGED <<source, replay, queue, present, cOutcome, logEnd>>
  PROVE  Scan'
<1> DEFINE f == fetcher[w]
           g == [f EXCEPT !.pc = "after", !.off = f.off + f.n]
<1>0. fetcher \in [Fetchers -> FetcherState] /\ f \in FetcherState
      /\ f.off \in Nat /\ f.n \in Nat
  BY DEF CInv, ConsumerTypes, FetcherState
<1>1. g.pc = "after" /\ g.off = f.off + f.n /\ g.part = f.part /\ g.end = f.end
  BY <1>0 DEF FetcherState
<1>2. /\ fetcher' = [fetcher EXCEPT ![w] = g]
      /\ delivered' = delivered \cup {<<f.part, o>> : o \in f.off .. f.off + f.n - 1}
  <2>1. fetcher' = [fetcher EXCEPT ![w].pc = "after", ![w].off = f.off + f.n]
    BY DEF Tally
  <2> QED
    BY <1>0, <2>1, Zenon DEF Tally, FetcherState
<1> HIDE DEF g
<1>3. fetcher'[w] = g /\ \A v \in Fetchers : v # w => fetcher'[v] = fetcher[v]
  BY <1>0, <1>2, ZenonT(30)
<1>4. ASSUME NEW p, Scanning(w, p) PROVE Scanning(w, p)'
  <2>1. f.part = p /\ \A o \in 0 .. f.off - 1 : <<p, o>> \in delivered
    BY <1>4 DEF Scanning
  <2>2. ASSUME NEW o \in 0 .. (f.off + f.n) - 1 PROVE <<p, o>> \in delivered'
    <3>1. CASE o \in 0 .. f.off - 1
      BY <1>2, <2>1, <3>1
    <3>2. CASE o \in f.off .. f.off + f.n - 1
      BY <1>2, <2>1, <3>2, Zenon
    <3>3. o \in 0 .. f.off - 1 \/ o \in f.off .. f.off + f.n - 1
      <4> HIDE DEF f
      <4> QED
        BY <1>0
    <3> QED
      BY <3>1, <3>2, <3>3
  <2>3. fetcher'[w].pc = "after" /\ fetcher'[w].part = p /\ fetcher'[w].off = f.off + f.n
    BY <1>1, <1>3, <2>1, ZenonT(30)
  <2>4. \A o \in 0 .. fetcher'[w].off - 1 : <<p, o>> \in delivered'
    BY <2>2, <2>3
  <2> QED
    BY <2>3, <2>4, ZenonT(30) DEF Scanning, Owns
<1>5. \A p : Queued(p) => Queued(p)'
  BY DEF Queued
<1>6. present[g.part] <= g.end
  BY <1>1, Zenon DEF Scan
<1> QED
  BY <1>1, <1>2, <1>3, <1>4, <1>5, <1>6, ScanStep, ZenonT(30)

\* A worker takes a partition, or finds that there is none.
LEMMA TakeScan ==
  ASSUME CInv, Scan, NEW w \in Fetchers, TakePartition(w)
  PROVE  Scan'
<1> DEFINE g == [NoFetch EXCEPT !.pc = "check", !.part = Head(queue)]
<1>0. /\ fetcher \in [Fetchers -> FetcherState] /\ cOutcome = "running" /\ fetcher[w].pc = "take"
      /\ UNCHANGED <<source, replay, present, cOutcome, logEnd, delivered, cCrashed, counted>>
      /\ (cRunCancelled => cCrashed) /\ queue \in Seq(Partitions)
  BY DEF CInv, ConsumerTypes, ConsumerCausal, TakePartition, FetcherAt, cSettings, tallies, cErrors, topicVars
<1>1. Searching' => Searching /\ ~cRunCancelled
  BY <1>0 DEF Searching
<1>2. \A p : ~Scanning(w, p)
  BY <1>0 DEF Scanning, Owns
<1>3. CASE cRunCancelled \/ queue = <<>>
  <2>1. fetcher' = [fetcher EXCEPT ![w].pc = "done"] /\ queue' = queue
    BY <1>3 DEF TakePartition, FetcherTo
  <2>2. fetcher'[w].pc = "done" /\ \A v \in Fetchers : v # w => fetcher'[v] = fetcher[v]
    BY <1>0, <2>1 DEF FetcherState
  <2>3. \A p : Queued(p) => Queued(p)'
    BY <2>1 DEF Queued
  <2> QED
    BY <1>0, <1>1, <1>2, <1>3, <2>1, <2>2, <2>3, ScanStep
<1>4. CASE ~(cRunCancelled \/ queue = <<>>)
  <2>1. fetcher' = [fetcher EXCEPT ![w] = g] /\ queue' = Tail(queue)
    BY <1>4 DEF TakePartition, Remaining
  <2>2. g.pc = "check" /\ g.part = Head(queue) /\ g.off = 0
    BY DEF NoFetch
  <2> HIDE DEF g
  <2>3. fetcher'[w] = g /\ \A v \in Fetchers : v # w => fetcher'[v] = fetcher[v]
    BY <1>0, <2>1
  <2>4. ASSUME NEW p, Queued(p) PROVE Queued(p)' \/ Scanning(w, p)'
    <3>1. PICK j \in DOMAIN queue : queue[j] = p
      BY <2>4 DEF Queued
    <3>2. CASE j = 1
      <4>1. g.part = p /\ 0 .. 0 - 1 = {}
        BY <1>0, <1>4, <2>2, <3>1, <3>2
      <4> QED
        BY <2>2, <2>3, <4>1 DEF Scanning, Owns
    <3>3. CASE j # 1
      <4>1. j - 1 \in DOMAIN Tail(queue) /\ Tail(queue)[j - 1] = queue[j]
        BY <1>0, <1>4, <3>1, <3>3
      <4> QED
        BY <2>1, <3>1, <4>1 DEF Queued
    <3> QED
      BY <3>2, <3>3
  <2> QED
    BY <1>0, <1>1, <1>2, <2>2, <2>3, <2>4, ScanStep, Zenon
<1> QED
  BY <1>3, <1>4

\* A worker reaches the end of its partition.
LEMMA AfterScan ==
  ASSUME CInv, Scan, NEW w \in Fetchers, AfterResponse(w)
  PROVE  Scan'
<1> DEFINE f == fetcher[w]
<1>0. /\ fetcher \in [Fetchers -> FetcherState] /\ cOutcome = "running" /\ f.pc = "after"
      /\ f \in FetcherState /\ f.off \in Nat /\ f.end \in Nat /\ f.part \in Partitions
      /\ UNCHANGED <<source, replay, queue, present, cOutcome, logEnd, delivered, cCrashed, counted>>
  BY DEF CInv, ConsumerTypes, FetcherState, AfterResponse, FetcherAt, cSettings, tallies, cErrors, topicVars
<1>s. Searching' => Searching
  BY <1>0 DEF Searching
<1>1. CASE ReachedEnd(f) /\ ~replay
  <2>1. fetcher' = [fetcher EXCEPT ![w].pc = "take"]
    BY <1>1 DEF AfterResponse, FetcherTo
  <2>2. fetcher'[w].pc = "take" /\ \A v \in Fetchers : v # w => fetcher'[v] = fetcher[v]
    BY <1>0, <2>1 DEF FetcherState
  <2>3. present[f.part] \in Nat /\ present[f.part] <= f.off
    <3>1. present[f.part] \in Nat /\ present[f.part] <= f.end /\ f.end <= f.off
      BY <1>0, <1>1, Zenon DEF Scan, ReachedEnd
    <3>2. f.end \in Nat /\ f.off \in Nat
      BY <1>0
    <3>3. \A x, y, z \in Nat : x <= y /\ y <= z => x <= z
      BY Below
    <3> QED
      BY <3>1, <3>2, <3>3, Zenon
  <2>4. ASSUME NEW p, Scanning(w, p) PROVE Drained(p)'
    <3>1. f.part = p /\ \A o \in 0 .. f.off - 1 : <<p, o>> \in delivered
      BY <2>4 DEF Scanning
    <3>2. 0 .. present[f.part] - 1 \subseteq 0 .. f.off - 1
      BY <1>0, <2>3
    <3> QED
      BY <1>0, <3>1, <3>2, ZenonT(30) DEF Drained
  <2>5. \A p : Queued(p) => Queued(p)'
    BY <1>0 DEF Queued
  <2> QED
    BY <1>0, <1>s, <2>2, <2>4, <2>5, ScanStep, Zenon
<1>2. CASE ~(ReachedEnd(f) /\ ~replay)
  <2> DEFINE g == [f EXCEPT !.pc = IF f.n = 0 THEN "poll" ELSE "check",
                            !.off = IF ReachedEnd(f) THEN 0 ELSE f.off]
  <2>1. fetcher' = [fetcher EXCEPT ![w] = g]
    BY <1>0, <1>2, Zenon DEF AfterResponse, FetcherState
  <2>2. /\ g.pc \in {"poll", "check"} /\ g.part = f.part
        /\ ~replay => g.off = f.off
    BY <1>0, <1>2 DEF FetcherState
  <2> HIDE DEF g
  <2>3. Searching' => Searching /\ g.off = fetcher[w].off /\ g.pc \notin {"take", "done"}
    BY <1>0, <1>s, <2>2, ZenonT(30) DEF Searching
  <2> QED
    BY <1>0, <2>1, <2>2, <2>3, ScanKeeps, Zenon
<1> QED
  BY <1>1, <1>2

\* A step of a worker preserves the invariant.
LEMMA FetcherScan ==
  ASSUME PInv, CInv, CInv', Scan, NEW w \in Fetchers, FetcherStep(w)
  PROVE  Scan'
<1> USE DEF topicVars, cSettings, tallies, cErrors, FetcherAt, FetcherTo
<1> DEFINE f == fetcher[w]
<1>0. /\ f \in FetcherState /\ fetcher \in [Fetchers -> FetcherState]
      /\ f.part \in Partitions
      /\ f.pc \in {"load", "swap", "after"} => present[f.part] <= f.end
      /\ counted \in Nat /\ counted' \in Nat
  BY Zenon DEF CInv, ConsumerTypes, FetcherState, Scan
<1>c. /\ cRunCancelled => cCrashed
      /\ f.pc = "cancel" => cCrashed
  BY Zenon DEF CInv, ConsumerCausal
<1>1. CASE TakePartition(w)
  BY <1>1, TakeScan
<1>2. CASE CheckProgress(w)
  <2> DEFINE g == [f EXCEPT !.pc = IF Finish THEN "done" ELSE "fetch"]
  <2>1. fetcher' = [fetcher EXCEPT ![w] = g] /\ cOutcome = "running"
    BY <1>2 DEF CheckProgress
  <2>2. /\ g.pc = (IF Finish THEN "done" ELSE "fetch") /\ g.part = f.part /\ g.off = f.off
    BY <1>0 DEF FetcherState
  <2> HIDE DEF g
  <2>3. UNCHANGED <<source, replay, queue, present, cOutcome, logEnd, delivered, cCrashed, counted>>
    BY <1>2 DEF CheckProgress
  <2>4. Searching' => Searching /\ ~Finish
    <3>1. Searching' => Searching
      BY <2>3, Zenon DEF Searching
    <3>2. Searching => ~Finish
      BY <1>0, ConsumerAssumption, Below, Zenon DEF Searching, Finish
    <3> QED
      BY <3>1, <3>2
  <2> QED
    BY <1>0, <2>1, <2>2, <2>3, <2>4, ScanKeeps, Zenon
<1>3. CASE IdleTimeout(w)
  <2> DEFINE g == [f EXCEPT !.pc = "crash", !.err = "idle"]
  <2>1. fetcher' = [fetcher EXCEPT ![w] = g] /\ cOutcome = "running"
    BY <1>0, <1>3, Zenon DEF IdleTimeout
  <2>2. g.pc = "crash" /\ g.part = f.part /\ g.off = f.off
    BY <1>0 DEF FetcherState
  <2> HIDE DEF g
  <2>3. UNCHANGED <<source, replay, queue, present, cOutcome, logEnd, delivered, cCrashed, counted>>
    BY <1>3 DEF IdleTimeout
  <2>4. Searching' => Searching
    BY <2>3 DEF Searching
  <2> QED
    BY <1>0, <2>1, <2>2, <2>3, <2>4, ScanKeeps, Zenon
<1>4. CASE FetchRecords(w)
  <2>1. PICK n : fetcher' = [fetcher EXCEPT ![w].pc = "read", ![w].n = n]
    BY <1>4, Zenon DEF FetchRecords
  <2> DEFINE g == [f EXCEPT !.pc = "read", !.n = n]
  <2>2. fetcher' = [fetcher EXCEPT ![w] = g] /\ cOutcome = "running"
    BY <1>0, <1>4, <2>1, Zenon DEF FetchRecords
  <2>3. g.pc = "read" /\ g.part = f.part /\ g.off = f.off
    BY <1>0 DEF FetcherState
  <2> HIDE DEF g
  <2>4. UNCHANGED <<source, replay, queue, present, cOutcome, logEnd, delivered, cCrashed, counted>>
    BY <1>4 DEF FetchRecords
  <2>5. Searching' => Searching
    BY <2>4 DEF Searching
  <2> QED
    BY <1>0, <2>2, <2>3, <2>4, <2>5, ScanKeeps, Zenon
<1>5. CASE FetchLogEnd(w)
  <2> DEFINE g == [f EXCEPT !.end = logEnd[f.part], !.pc = IF f.n > 0 THEN "load" ELSE "after"]
  <2>1. fetcher' = [fetcher EXCEPT ![w] = g] /\ cOutcome = "running"
    BY <1>0, <1>5, Zenon DEF FetchLogEnd
  <2>2. g.pc \in {"load", "after"} /\ g.part = f.part /\ g.off = f.off /\ g.end = logEnd[f.part]
    BY <1>0 DEF FetcherState
  <2> HIDE DEF g
  <2>3. UNCHANGED <<source, replay, queue, present, cOutcome, logEnd, delivered, cCrashed, counted>>
    BY <1>5 DEF FetchLogEnd
  <2>4. Searching' => Searching
    BY <2>3 DEF Searching
  <2>5. present[g.part] <= g.end
    BY <1>0, <2>2, Zenon DEF Scan
  <2> QED
    BY <1>0, <2>1, <2>2, <2>3, <2>4, <2>5, ScanKeeps, Zenon
<1>6. CASE FetchFails(w)
  <2>1. PICK e : fetcher' = [fetcher EXCEPT ![w].pc = "crash", ![w].err = e]
    BY <1>6, Zenon DEF FetchFails
  <2> DEFINE g == [f EXCEPT !.pc = "crash", !.err = e]
  <2>2. fetcher' = [fetcher EXCEPT ![w] = g] /\ cOutcome = "running"
    BY <1>0, <1>6, <2>1, Zenon DEF FetchFails
  <2>3. g.pc = "crash" /\ g.part = f.part /\ g.off = f.off
    BY <1>0 DEF FetcherState
  <2> HIDE DEF g
  <2>4. UNCHANGED <<source, replay, queue, present, cOutcome, logEnd, delivered, cCrashed, counted>>
    BY <1>6 DEF FetchFails
  <2>5. Searching' => Searching
    BY <2>4 DEF Searching
  <2> QED
    BY <1>0, <2>2, <2>3, <2>4, <2>5, ScanKeeps, Zenon
<1>7. CASE FetchCancelled(w)
  <2> DEFINE g == [f EXCEPT !.pc = "done"]
  <2>1. fetcher' = [fetcher EXCEPT ![w] = g] /\ cOutcome = "running" /\ cCrashed
    BY <1>0, <1>7, <1>c DEF FetchCancelled
  <2>2. g.pc = "done" /\ g.part = f.part
    BY <1>0 DEF FetcherState
  <2> HIDE DEF g
  <2>3. UNCHANGED <<source, replay, queue, present, cOutcome, logEnd, delivered, cCrashed, counted>>
    BY <1>7 DEF FetchCancelled
  <2>4. ~Searching'
    BY <2>1, <2>3 DEF Searching
  <2> QED
    BY <1>0, <2>1, <2>2, <2>3, <2>4, ScanKeeps, Zenon
<1>8. CASE LoadCounted(w)
  <2>0. f.pc = "load" /\ cOutcome = "running"
        /\ UNCHANGED <<source, replay, queue, present, cOutcome, logEnd, cCrashed, counted>>
    BY <1>8 DEF LoadCounted
  <2>s. Searching' => Searching
    BY <2>0 DEF Searching
  <2>1. CASE counted >= Target
    <3>1. Tally(w, 0)
      BY <1>8, <2>1 DEF LoadCounted
    <3> QED
      BY <2>0, <2>s, <3>1, TallyScan
  <2>2. CASE ~(counted >= Target)
    <3> DEFINE g == [f EXCEPT !.pc = "swap", !.seen = counted]
    <3>1. fetcher' = [fetcher EXCEPT ![w] = g] /\ delivered' = delivered
      BY <1>0, <1>8, <2>2, Zenon DEF LoadCounted
    <3>2. g.pc = "swap" /\ g.part = f.part /\ g.off = f.off /\ g.end = f.end
      BY <1>0 DEF FetcherState
    <3> HIDE DEF g
    <3> QED
      BY <1>0, <2>0, <2>s, <3>1, <3>2, ScanKeeps, Zenon
  <2> QED
    BY <2>1, <2>2
<1>9. CASE SwapCounted(w)
  <2>0. f.pc = "swap" /\ cOutcome = "running"
        /\ UNCHANGED <<source, replay, queue, present, cOutcome, logEnd, cCrashed>>
    BY <1>9 DEF SwapCounted
  <2>1. CASE Unchanged(f.seen)
    <3> DEFINE accepted == Min({f.n, Target - f.seen})
    <3>1. counted' = f.seen + accepted /\ Tally(w, accepted)
      BY <1>9, <2>1 DEF SwapCounted
    <3>2. accepted \in Int /\ accepted >= 0
      <4>1. f.n \in Nat /\ f.seen \in Nat /\ f.seen < Target
        BY <1>0, <2>0, Zenon DEF FetcherState, CInv, TalliesOK
      <4>2. f.n \in Int /\ f.n >= 0 /\ Target - f.seen \in Int /\ Target - f.seen >= 0
        <5>1. \A x \in Nat : x \in Int /\ x >= 0
          OBVIOUS
        <5>2. Target \in Nat
          BY ConsumerAssumption
        <5> QED
          BY <4>1, <5>1, <5>2, Below, Zenon
      <4>3. accepted \in Int /\ accepted \in {f.n, Target - f.seen}
        BY <4>2, MinOfTwo, ZenonT(30)
      <4> HIDE DEF accepted
      <4> QED
        BY <4>2, <4>3
    <3> HIDE DEF accepted
    <3>3. counted' < Target => counted < Target
      <4>1. counted' = counted + accepted
        BY <2>1, <3>1 DEF Unchanged
      <4> QED
        BY <1>0, <3>2, <4>1, ConsumerAssumption
    <3>4. Searching' => Searching
      BY <2>0, <3>3 DEF Searching
    <3> QED
      BY <2>0, <3>1, <3>4, TallyScan, Zenon
  <2>2. CASE ~Unchanged(f.seen)
    <3> DEFINE g == [f EXCEPT !.pc = "load"]
    <3>1. fetcher' = [fetcher EXCEPT ![w] = g] /\ UNCHANGED <<delivered, counted>>
      BY <1>0, <1>9, <2>2 DEF SwapCounted
    <3>2. g.pc = "load" /\ g.part = f.part /\ g.off = f.off /\ g.end = f.end
      BY <1>0 DEF FetcherState
    <3> HIDE DEF g
    <3>3. Searching' => Searching
      BY <2>0, <3>1 DEF Searching
    <3> QED
      BY <1>0, <2>0, <3>1, <3>2, <3>3, ScanKeeps, Zenon
  <2> QED
    BY <2>1, <2>2
<1>10. CASE AfterResponse(w)
  BY <1>10, AfterScan
<1>11. CASE Poll(w)
  <2>1. PICK to \in {"check", "done"} :
          fetcher' = [fetcher EXCEPT ![w].pc = to] /\ (to = "done" => cRunCancelled)
    BY <1>11 DEF Poll
  <2> DEFINE g == [f EXCEPT !.pc = to]
  <2>2. fetcher' = [fetcher EXCEPT ![w] = g] /\ cOutcome = "running"
    BY <1>0, <1>11, <2>1 DEF Poll
  <2>3. g.pc = to /\ g.part = f.part /\ g.off = f.off
    BY <1>0 DEF FetcherState
  <2> HIDE DEF g
  <2>4. UNCHANGED <<source, replay, queue, present, cOutcome, logEnd, delivered, cCrashed, counted>>
    BY <1>11 DEF Poll
  <2>5. Searching' => Searching /\ to = "check"
    BY <1>c, <2>1, <2>4 DEF Searching
  <2> QED
    BY <1>0, <2>1, <2>2, <2>3, <2>4, <2>5, ScanKeeps, Zenon
<1>12. CASE RecordFetchError(w)
  <2> DEFINE g == [f EXCEPT !.pc = "cancel"]
  <2>1. fetcher' = [fetcher EXCEPT ![w] = g] /\ cOutcome = "running" /\ cCrashed' = TRUE
    BY <1>0, <1>12 DEF RecordFetchError
  <2>2. g.pc = "cancel" /\ g.part = f.part
    BY <1>0 DEF FetcherState
  <2> HIDE DEF g
  <2>3. UNCHANGED <<source, replay, queue, present, cOutcome, logEnd, delivered>>
    BY <1>12 DEF RecordFetchError
  <2>4. ~Searching'
    BY <2>1 DEF Searching
  <2> QED
    BY <1>0, <2>1, <2>2, <2>3, <2>4, ScanKeeps, Zenon
<1>13. CASE CancelFetches(w)
  <2> DEFINE g == [f EXCEPT !.pc = "done"]
  <2>1. fetcher' = [fetcher EXCEPT ![w] = g] /\ cOutcome = "running" /\ cCrashed
    BY <1>0, <1>13, <1>c DEF CancelFetches
  <2>2. g.pc = "done" /\ g.part = f.part
    BY <1>0 DEF FetcherState
  <2> HIDE DEF g
  <2>3. UNCHANGED <<source, replay, queue, present, cOutcome, logEnd, delivered, cCrashed>>
    BY <1>13 DEF CancelFetches
  <2>4. ~Searching'
    BY <2>1, <2>3 DEF Searching
  <2> QED
    BY <1>0, <2>1, <2>2, <2>3, <2>4, ScanKeeps, Zenon
<1> QED
  BY <1>1, <1>2, <1>3, <1>4, <1>5, <1>6, <1>7, <1>8, <1>9, <1>10, <1>11, <1>12, <1>13, Zenon DEF FetcherStep

\* A finite set has subsets of every smaller size.
LEMMA SubsetOfSize ==
  ASSUME NEW F, IsFiniteSet(F), NEW k \in Nat, k <= Cardinality(F)
  PROVE  \E S \in SUBSET F : Cardinality(S) = k
<1>1. \A S \in SUBSET F : IsFiniteSet(S) /\ Cardinality(S) \in Nat
  BY FS_Subset, FS_CardinalityType
<1> DEFINE T == {n \in Nat : n >= k /\ \E S \in SUBSET F : Cardinality(S) = n}
<1>2. Cardinality(F) \in T
  BY <1>1
<1>3. T \subseteq Nat /\ T # {}
  BY <1>2
<1>4. PICK m \in T : \A n \in T : m <= n
  <2> HIDE DEF T
  <2> QED
    BY <1>3, LeastElement, Zenon
<1>5. PICK S \in SUBSET F : Cardinality(S) = m
  BY <1>4
<1>6. CASE m # k
  <2>1. m \in Nat /\ m > k /\ m - 1 \in Nat /\ m - 1 >= k
    BY <1>4, <1>6
  <2>2. S # {}
    BY <1>5, <2>1, FS_EmptySet
  <2>3. PICK x \in S : TRUE
    BY <2>2
  <2>4. Cardinality(S \ {x}) = m - 1
    BY <1>1, <1>5, <2>3, FS_RemoveElement
  <2>5. S \ {x} \in SUBSET F
    OBVIOUS
  <2>6. m - 1 \in T
    BY <2>1, <2>4, <2>5
  <2>7. ~(m <= m - 1)
    BY <2>1
  <2> QED
    BY <1>4, <2>6, <2>7
<1> QED
  BY <1>5, <1>6

\* At least one worker is started, and there is something to consume.
LEMMA SomeStarted ==
  ASSUME NEW src \in {-1, 0}
  PROVE  /\ Started(src) \subseteq Fetchers /\ Started(src) # {}
         /\ \A i \in DOMAIN ToConsume(src) : ToConsume(src)[i] \in Partitions
<1>1. /\ Len(ToConsume(src)) \in Nat \ {0}
      /\ \A i \in DOMAIN ToConsume(src) : ToConsume(src)[i] \in Partitions
  <2>1. CASE src = -1
    <3>1. ToConsume(src) = [i \in 1 .. PartitionCount |-> i - 1]
      BY <2>1 DEF ToConsume
    <3>2. \A i \in 1 .. PartitionCount : i - 1 \in Partitions
      BY TopicAssumption DEF Partitions
    <3> QED
      BY <3>1, <3>2, TopicAssumption
  <2>2. CASE src = 0
    <3>1. 0 # -1 /\ 0 \in Partitions
      BY TopicAssumption DEF Partitions
    <3>2. ToConsume(src) = <<0>>
      BY <2>2, <3>1 DEF ToConsume
    <3> QED
      BY <3>1, <3>2
  <2> QED
    BY <2>1, <2>2
<1>2. IsFiniteSet(Fetchers) /\ Cardinality(Fetchers) \in Nat /\ Cardinality(Fetchers) # 0
  BY ConsumerAssumption, FS_CardinalityType, FS_EmptySet
<1> DEFINE k == Min({Cardinality(Fetchers), Len(ToConsume(src))})
<1>3. k \in Nat \ {0} /\ k <= Cardinality(Fetchers)
  <2>1. Cardinality(Fetchers) \in Int /\ Len(ToConsume(src)) \in Int
    BY <1>1, <1>2
  <2>2. k \in {Cardinality(Fetchers), Len(ToConsume(src))} /\ k <= Cardinality(Fetchers)
    BY <2>1, MinOfTwo, Zenon
  <2> HIDE DEF k
  <2> QED
    BY <1>1, <1>2, <2>2
<1>4. Started(src) = CHOOSE S \in SUBSET Fetchers : Cardinality(S) = k
  BY DEF Started
<1> HIDE DEF k
<1>5. Started(src) \in SUBSET Fetchers /\ Cardinality(Started(src)) = k
  BY <1>2, <1>3, <1>4, SubsetOfSize
<1>6. Started(src) # {}
  BY <1>3, <1>5, FS_EmptySet
<1> QED
  BY <1>1, <1>5, <1>6

\* Every step of the consumer preserves the invariant.
LEMMA ConsumerScan ==
  ASSUME PInv, CInv, CInv', Scan, ConsumerNext
  PROVE  Scan'
<1> USE DEF topicVars, cSettings, tallies, cErrors
<1>0. present \in [Partitions -> Nat] /\ logEnd \in [Partitions -> Nat]
  BY Zenon DEF Scan, PInv, TopicTypes
<1>1. CASE ConsumerStart
  <2>1. /\ source' \in {-1, 0} /\ queue' = ToConsume(source') /\ present' = logEnd /\ logEnd' = logEnd
        /\ cOutcome' \in {"running", "error"}
    BY <1>1 DEF ConsumerStart
  <2>2. \A w \in Fetchers :
          fetcher'[w] = [NoFetch EXCEPT !.pc = IF w \in Started(source') THEN "take" ELSE "done"]
    BY <1>1 DEF ConsumerStart
  <2>3. \A w \in Fetchers : fetcher'[w].pc = IF w \in Started(source') THEN "take" ELSE "done"
    BY <2>2, Zenon DEF NoFetch
  <2>4. \E w \in Fetchers : fetcher'[w].pc # "done"
    BY <2>1, <2>3, SomeStarted, Zenon
  <2>5. \A p \in Chosen' : Queued(p)'
    BY <2>1 DEF Chosen, Queued
  <2>6. \A p \in Partitions : present'[p] <= logEnd'[p]
    BY <1>0, <2>1
  <2>7. \A w \in Fetchers : fetcher'[w].pc \notin {"load", "swap", "after"}
    BY <2>3
  <2>8. ExhaustedHonestly'
    BY <2>1 DEF ExhaustedHonestly
  <2>9. present' \in [Partitions -> Nat]
    BY <1>0, <2>1
  <2> QED
    BY <2>4, <2>5, <2>6, <2>7, <2>8, <2>9, Zenon DEF Scan
<1>2. CASE ReplayExpires
  <2>1. replay' /\ replay' = replay /\ cOutcome = "running"
        /\ UNCHANGED <<source, queue, delivered, present, fetcher, cOutcome, logEnd>>
    BY <1>2 DEF ReplayExpires
  <2>2. ~Searching'
    BY <2>1 DEF Searching
  <2>3. ExhaustedHonestly'
    BY <2>1, Zenon DEF ExhaustedHonestly
  <2> QED
    BY <2>1, <2>2, <2>3, Zenon DEF Scan
<1>3. CASE ConsumerEnds
  <2>1. /\ cOutcome = "running" /\ \A w \in Fetchers : fetcher[w].pc = "done"
        /\ cOutcome' = IF ~replay /\ counted < Target THEN "exhausted" ELSE IF cCrashed THEN "failed" ELSE "report"
        /\ UNCHANGED <<source, replay, queue, counted, delivered, cCrashed, present, fetcher, logEnd>>
    BY <1>3, Zenon DEF ConsumerEnds
  <2>2. ~Searching'
    BY <2>1 DEF Searching
  <2>3. ExhaustedHonestly'
    <3> SUFFICES ASSUME cOutcome' = "exhausted", ~cCrashed,
                        NEW i \in DOMAIN ToConsume(source), NEW o \in 0 .. present[ToConsume(source)[i]] - 1
                 PROVE  <<ToConsume(source)[i], o>> \in delivered
      BY <2>1 DEF ExhaustedHonestly, ToConsume
    <3>1. Searching
      BY <2>1 DEF Searching
    <3>2. queue = <<>>
      BY <2>1, <3>1, Zenon DEF Scan
    <3>3. ASSUME NEW p PROVE ~Queued(p) /\ \A w \in Fetchers : ~Scanning(w, p)
      BY <2>1, <3>2 DEF Queued, Scanning, Owns
    <3>4. \A p \in Chosen : Drained(p)
      BY <3>1, <3>3, Zenon DEF Scan
    <3>5. ToConsume(source)[i] \in Chosen
      BY DEF Chosen
    <3> QED
      BY <3>4, <3>5 DEF Drained
  <2> QED
    BY <2>1, <2>2, <2>3, Zenon DEF Scan
<1> QED
  BY <1>1, <1>2, <1>3, FetcherScan DEF ConsumerNext

\* Steps of the topic and of the producer.
LEMMA SameScan ==
  ASSUME PInv, PInv', Grows, Scan, UNCHANGED consumerVars
  PROVE  Scan'
<1>1. UNCHANGED <<source, replay, queue, counted, delivered, cCrashed, present, fetcher, cOutcome>>
  BY DEF consumerVars, cSettings, tallies, cErrors
<1>2. \A p \in Partitions : present'[p] <= logEnd'[p]
  <2> SUFFICES ASSUME NEW p \in Partitions PROVE present[p] <= logEnd'[p]
    BY <1>1, Zenon
  <2>1. /\ present[p] \in Nat /\ logEnd[p] \in Nat /\ logEnd'[p] \in Nat
        /\ present[p] <= logEnd[p] /\ logEnd[p] <= logEnd'[p]
    BY ZenonT(30) DEF Scan, PInv, TopicTypes, Grows
  <2> QED
    BY <2>1
<1>3. Chosen' = Chosen
  BY <1>1 DEF Chosen, ToConsume
<1>4. ASSUME NEW p PROVE (Queued(p)' <=> Queued(p)) /\ (Drained(p)' <=> Drained(p))
                         /\ \A w \in Fetchers : Scanning(w, p)' <=> Scanning(w, p)
  BY <1>1 DEF Queued, Drained, Scanning, Owns
<1>5. Searching' <=> Searching
  BY <1>1 DEF Searching
<1>6. ExhaustedHonestly'
  BY <1>1, Zenon DEF Scan, ExhaustedHonestly, ToConsume
<1> QED
  BY <1>1, <1>2, <1>3, <1>4, <1>5, <1>6, Zenon DEF Scan

\* The invariant of the scan holds in every reachable state.
THEOREM ScanInvariance == Spec => []Scan
<1>1. PInv /\ CInv /\ Init => Scan
  <2> SUFFICES ASSUME PInv, CInv, Init PROVE Scan
    OBVIOUS
  <2>1. \A w \in Fetchers : fetcher[w].pc = "take"
    BY DEF Init, ConsumerInit, NoFetch
  <2>2. present = logEnd /\ cOutcome = "not started"
    BY DEF Init, ConsumerInit
  <2>3. logEnd \in [Partitions -> Nat] /\ \A p \in Partitions : logEnd[p] <= logEnd[p]
    BY DEF PInv, TopicTypes
  <2> QED
    BY <2>1, <2>2, <2>3, Zenon DEF Scan, Searching, ExhaustedHonestly
<1>2. PInv /\ PInv' /\ CInv /\ CInv' /\ Scan /\ [Next]_vars => Scan'
  <2> SUFFICES ASSUME PInv, PInv', CInv, CInv', Scan, [Next]_vars PROVE Scan'
    OBVIOUS
  <2>1. CASE ProducerNext /\ UNCHANGED consumerVars
    BY <2>1, ProducerPInv, SameScan
  <2>2. CASE Exited /\ ConsumerNext /\ UNCHANGED producerVars
    BY <2>2, ConsumerScan
  <2>3. CASE Exited /\ StrayAppend /\ UNCHANGED <<producerVars, consumerVars>>
    <3>1. Grows
      BY <2>3, StrayGrows DEF PInv
    <3> QED
      BY <2>3, <3>1, SameScan
  <2>4. CASE UNCHANGED vars
    <3>1. Grows /\ UNCHANGED consumerVars
      BY <2>4 DEF Grows, PInv, TopicTypes, vars, topicVars
    <3> QED
      BY <3>1, SameScan
  <2> QED
    BY <2>1, <2>2, <2>3, <2>4 DEF Next, Finished
<1> QED
  BY <1>1, <1>2, BenchInvariance, PTL DEF Spec

\* A consumer that ends with "exhausted", and met no error, has delivered every
\* record that was in its partitions when it began, however its workers shared
\* the queue.
THEOREM AlwaysExhaustedHonestly == Spec => []ExhaustedHonestly
<1>1. Scan => ExhaustedHonestly
  BY DEF Scan
<1> QED
  BY <1>1, ScanInvariance, PTL
=============================================================================
