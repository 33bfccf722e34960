--------------------------- MODULE BenchProducer ---------------------------
(***************************************************************************)
(* ProducerBench.Run (internal/bench/producer.go): concurrent workers      *)
(* claim batches of records from a shared counter, send each as one        *)
(* Produce request with a timeout, and tally the outcomes; afterwards the  *)
(* main goroutine checks the acknowledged offset ranges against the log    *)
(* end offsets that DescribeTopic gives before and after the run.          *)
(*                                                                         *)
(* A request may fail before or after its records were appended.  With     *)
(* fail-fast, the first error cancels the run and with it the requests of  *)
(* the other workers.  Whether errors.Is recognises the error of a         *)
(* cancelled request depends on the gRPC library; both are possible.       *)
(* Counters that are only read after wg.Wait change with the step that     *)
(* leads to them.                                                          *)
(***************************************************************************)
EXTENDS BenchTopic, FiniteSets, FiniteSetsExt

CONSTANTS
  Workers,    \* the worker goroutines
  Total,      \* -count
  BatchSize,  \* -batch-size
  MaxClaimed  \* bound: records claimed in a run with a duration

ASSUME ProducerAssumption ==
  Workers # {} /\ Total \in Nat \ {0} /\ BatchSize \in Nat \ {0} /\ MaxClaimed \in Nat

VARIABLES
  failFast, timed, partition,    \* ProducerBench.failFast, duration > 0, partition
  nextRecord, partitionCounter,  \* the shared counters of the workers
  acknowledged, failed,          \* records of requests that succeeded or failed
  canceledRequests,
  ranges,                        \* ProducerBench.ranges
  crashed, firstErr,             \* ProducerBench.crashed and firstErr
  runCancelled, expired,         \* runCtx.Err() # nil; the duration is over
  worker,                        \* worker -> where it is and its request
  initial, final,                \* log end offsets before and after the run
  lost,                          \* history: records were appended but not acknowledged
  outcome                        \* how Run ended

counters == <<nextRecord, partitionCounter, acknowledged, failed, canceledRequests, ranges>>
errors == <<crashed, firstErr, runCancelled>>
settings == <<failFast, timed, partition>>
producerVars == <<settings, counters, errors, expired, worker, initial, final, lost, outcome>>

Idle == [pc |-> "loop", req |-> [id |-> 0, part |-> 0, n |-> 0], base |-> 0, err |-> "none"]

ProducerInit ==
  /\ failFast \in BOOLEAN /\ timed \in BOOLEAN /\ partition \in {-1, 0}
  /\ nextRecord = 0 /\ partitionCounter = 0
  /\ acknowledged = 0 /\ failed = 0 /\ canceledRequests = 0 /\ ranges = {}
  /\ crashed = FALSE /\ firstErr = "none" /\ runCancelled = FALSE /\ expired = FALSE
  /\ worker = [w \in Workers |-> Idle]
  /\ initial = logEnd /\ final = logEnd /\ lost = FALSE
  /\ outcome = "not started"

\* DescribeTopic gives the initial offsets and the workers start, or Run
\* returns an error.
ProducerStart ==
  /\ outcome = "not started"
  /\ outcome' \in {"running", "error"}
  /\ initial' = logEnd
  /\ UNCHANGED <<settings, counters, errors, expired, worker, final, lost, topicVars>>

GoTo(w, pc) == worker' = [worker EXCEPT ![w].pc = pc]
At(w, pc) == outcome = "running" /\ worker[w].pc = pc
-----------------------------------------------------------------------------
(***************************************************************************)
(* A worker.                                                               *)
(***************************************************************************)
\* Mutant: the last batch is not shortened.
ClaimSize_Full(start) == BatchSize

\* The number of records a worker takes at counter value start.
ClaimSize(start) ==
  IF timed \/ Total - start >= BatchSize THEN BatchSize ELSE Total - start

NothingLeft == IF timed THEN expired ELSE nextRecord >= Total

\* runCtx is done, the duration is over or all records are claimed; the
\* claim that finds nothing has raised the counter all the same.
Leave(w) ==
  /\ At(w, "loop")
  /\ runCancelled \/ NothingLeft
  /\ GoTo(w, "done")
  /\ nextRecord' = IF runCancelled \/ timed THEN nextRecord ELSE nextRecord + BatchSize
  /\ UNCHANGED <<settings, partitionCounter, acknowledged, failed, canceledRequests, ranges,
                 errors, expired, initial, final, lost, outcome, topicVars>>

Claim(w) ==
  /\ At(w, "loop")
  /\ ~runCancelled /\ ~NothingLeft
  /\ timed => nextRecord < MaxClaimed
  /\ worker' = [worker EXCEPT ![w] =
       [Idle EXCEPT !.pc = "claimed",
                    !.req = [id |-> nextRecord, part |-> 0, n |-> ClaimSize(nextRecord)]]]
  /\ nextRecord' = nextRecord + BatchSize
  /\ UNCHANGED <<settings, partitionCounter, acknowledged, failed, canceledRequests, ranges,
                 errors, expired, initial, final, lost, outcome, topicVars>>

\* Mutant: partitions are numbered from 1.
RoundRobin_FromOne(c) == (c % PartitionCount) + 1

\* The partition for counter value c when none is given.
RoundRobin(c) == c % PartitionCount

\* The partition is chosen and the request sent.
Send(w) ==
  /\ At(w, "claimed")
  /\ IF partition # -1
     THEN /\ worker' = [worker EXCEPT ![w].pc = "sent", ![w].req.part = partition]
          /\ UNCHANGED partitionCounter
     ELSE /\ worker' = [worker EXCEPT ![w].pc = "sent",
                                      ![w].req.part = RoundRobin(partitionCounter)]
          /\ partitionCounter' = partitionCounter + 1
  /\ UNCHANGED <<settings, nextRecord, acknowledged, failed, canceledRequests, ranges,
                 errors, expired, initial, final, lost, outcome, topicVars>>

\* The broker appends the records while the client waits for the response.
Handle(w) ==
  /\ At(w, "sent") /\ ~runCancelled
  /\ logEnd' = Appended(worker[w].req)
  /\ worker' = [worker EXCEPT ![w].pc = "handled", ![w].base = logEnd[worker[w].req.part]]
  /\ UNCHANGED <<settings, counters, errors, expired, initial, final, lost, outcome, stray>>

Acknowledge(w) ==
  /\ At(w, "handled")
  /\ LET r == worker[w].req
     IN  /\ acknowledged' = acknowledged + r.n
         /\ ranges' = ranges \cup {[part |-> r.part, base |-> worker[w].base,
                                    last |-> worker[w].base + r.n - 1]}
  /\ GoTo(w, "loop")
  /\ UNCHANGED <<settings, nextRecord, partitionCounter, failed, canceledRequests,
                 errors, expired, initial, final, lost, outcome, topicVars>>

\* What becomes of the records when the client gets an error: they are in
\* the log, or the request is still on its way, or it came to nothing.
GiveUp(w) ==
  \/ /\ At(w, "handled")
     /\ lost' = TRUE
     /\ UNCHANGED stray
  \/ /\ At(w, "sent")
     /\ stray' \in {stray, stray \cup {worker[w].req}}
     /\ UNCHANGED lost

\* The timeout of the request, a broken connection or an error response.
RequestFails(w) ==
  /\ GiveUp(w)
  /\ failed' = failed + worker[w].req.n
  /\ \E e \in {"causal"} \cup (IF runCancelled THEN {"cancelled"} ELSE {}) :
       worker' = [worker EXCEPT ![w].pc = "crash", ![w].err = e]
  /\ UNCHANGED <<settings, nextRecord, partitionCounter, acknowledged, canceledRequests, ranges,
                 errors, expired, initial, final, outcome, logEnd>>

\* The error is recognised as a cancellation by another worker's fail-fast.
RequestCancelled(w) ==
  /\ GiveUp(w)
  /\ runCancelled
  /\ canceledRequests' = canceledRequests + 1
  /\ GoTo(w, "loop")
  /\ UNCHANGED <<settings, nextRecord, partitionCounter, acknowledged, failed, ranges,
                 errors, expired, initial, final, outcome, logEnd>>

\* Mutant: the latest error replaces the first.
Recorded_Latest(err) == err

\* ProducerBench.firstErr after an error.
Recorded(err) == IF crashed THEN firstErr ELSE err

\* The critical section of the error path; with fail-fast, cancelRun and
\* return follow.
RecordError(w) ==
  /\ At(w, "crash")
  /\ crashed' = TRUE
  /\ firstErr' = Recorded(worker[w].err)
  /\ GoTo(w, IF failFast THEN "cancel" ELSE "loop")
  /\ UNCHANGED <<settings, counters, runCancelled, expired, initial, final, lost, outcome, topicVars>>

CancelRun(w) ==
  /\ At(w, "cancel")
  /\ runCancelled' = TRUE
  /\ GoTo(w, "done")
  /\ UNCHANGED <<settings, counters, crashed, firstErr, expired, initial, final, lost, outcome, topicVars>>

\* A request that was given up is handled before the run ends.
LateAppend ==
  /\ outcome = "running"
  /\ StrayAppend
  /\ lost' = TRUE
  /\ UNCHANGED <<settings, counters, errors, expired, worker, initial, final, outcome>>

\* The duration is over.
Expire ==
  /\ outcome = "running" /\ timed /\ ~expired
  /\ expired' = TRUE
  /\ UNCHANGED <<settings, counters, errors, worker, initial, final, lost, outcome, topicVars>>
-----------------------------------------------------------------------------
(***************************************************************************)
(* The main goroutine after wg.Wait.                                       *)
(***************************************************************************)
AllDone == outcome = "running" /\ \A w \in Workers : worker[w].pc = "done"

RangesOf(p) == {r \in ranges : r.part = p}
RecordsOf(p) == MapThenSumSet(LAMBDA r : r.last - r.base + 1, RangesOf(p))

\* Mutant: the log end is compared as if the topic had been empty.
GrowthMatches_FromZero(ends) ==
  \A p \in Partitions : RangesOf(p) # {} => ends[p] = RecordsOf(p)

\* Mutant: the sum of the ranges is not compared with the growth of the log.
GrowthMatches_Skip(ends) == TRUE

\* Every partition with acknowledged ranges has grown by as many records.
GrowthMatches(ends) ==
  \A p \in Partitions : RangesOf(p) # {} => ends[p] - initial[p] = RecordsOf(p)

\* After sortRanges, every range begins where the one before it ended.
RangesContinuous ==
  \A p \in Partitions : \A r, s \in RangesOf(p) :
    r.base < s.base /\ ~(\E t \in RangesOf(p) : r.base < t.base /\ t.base < s.base)
      => r.last + 1 = s.base

ProducerEnds ==
  /\ AllDone
  /\ IF crashed /\ failFast
     THEN outcome' = "fail-fast" /\ UNCHANGED final
     ELSE \/ /\ final' = logEnd
             /\ outcome' = IF ~GrowthMatches(logEnd) THEN "offset mismatch"
                           ELSE IF ~RangesContinuous THEN "discontinuity"
                           ELSE "report"
          \/ outcome' = "error" /\ UNCHANGED final
  /\ UNCHANGED <<settings, counters, errors, expired, worker, initial, lost, topicVars>>
-----------------------------------------------------------------------------
ProducerEnded == outcome \notin {"not started", "running", "exited"}

\* The command prints its report or its error and exits; nothing of its
\* state is left.
ProducerExits ==
  /\ ProducerEnded
  /\ outcome' = "exited"
  /\ failFast' = FALSE /\ timed' = FALSE /\ partition' = -1
  /\ nextRecord' = 0 /\ partitionCounter' = 0
  /\ acknowledged' = 0 /\ failed' = 0 /\ canceledRequests' = 0 /\ ranges' = {}
  /\ crashed' = FALSE /\ firstErr' = "none" /\ runCancelled' = FALSE /\ expired' = FALSE
  /\ worker' = [w \in Workers |-> Idle]
  /\ initial' = [p \in Partitions |-> 0] /\ final' = [p \in Partitions |-> 0] /\ lost' = FALSE
  /\ UNCHANGED topicVars

WorkerStep(w) ==
  \/ Leave(w) \/ Claim(w) \/ Send(w) \/ Handle(w) \/ Acknowledge(w)
  \/ RequestFails(w) \/ RequestCancelled(w) \/ RecordError(w) \/ CancelRun(w)

ProducerNext ==
  \/ ProducerStart \/ Expire \/ LateAppend \/ ProducerEnds \/ ProducerExits
  \/ \E w \in Workers : WorkerStep(w)
=============================================================================
