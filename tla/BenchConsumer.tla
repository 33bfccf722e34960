--------------------------- MODULE BenchConsumer ---------------------------
(***************************************************************************)
(* ConsumerBench.Run (internal/bench/consumer.go): workers take partitions *)
(* from a queue and fetch each from offset 0 (the default of -offset) to   *)
(* its end.  The records count towards the target by a compare-and-swap    *)
(* loop; what comes in beyond the target is overshoot.  With a duration, a *)
(* worker reads its partition again and again until the time is over.      *)
(*                                                                         *)
(* The first error or idle timeout cancels the run.  A response holds      *)
(* consecutive records from the offset on (LogRead), so that the           *)
(* continuity check of the code passes.  Counters that are only read after *)
(* wg.Wait change with the step that leads to them.                        *)
(***************************************************************************)
EXTENDS BenchTopic, Sequences, FiniteSets, FiniteSetsExt

CONSTANTS
  Fetchers,    \* -concurrency, as a set of worker goroutines
  Target,      \* -count
  MaxFetch,    \* most records in one response (-max-bytes)
  MaxObserved  \* bound: records observed in a run with a duration

ASSUME ConsumerAssumption ==
  /\ Fetchers # {} /\ IsFiniteSet(Fetchers)
  /\ Target \in Nat /\ MaxFetch \in Nat \ {0} /\ MaxObserved \in Nat

VARIABLES
  replay, source,                     \* duration > 0; ConsumerBench.partition
  queue,                              \* partitionChan
  counted, observed, overshoot,       \* countedRecords, observedRecords, overshootRecords
  cCanceledRequests, failedRequests,  \* canceledRequests, failedRequests
  cCrashed, cFirstErr,                \* ConsumerBench.crashed and firstErr
  cRunCancelled, cExpired,            \* runCtx.Err() # nil; the duration is over
  fetcher,                            \* worker -> where it is, its partition and its response
  present,                            \* history: log end offsets when the run began
  delivered,                          \* history: the records in the responses
  cOutcome                            \* how Run ended

cSettings == <<replay, source>>
tallies == <<counted, observed, overshoot, delivered>>
cErrors == <<cCanceledRequests, failedRequests, cCrashed, cFirstErr, cRunCancelled>>
consumerVars == <<cSettings, queue, tallies, cErrors, cExpired, fetcher, present, cOutcome>>

NoFetch == [pc |-> "take", part |-> 0, off |-> 0, n |-> 0, end |-> 0, seen |-> 0, err |-> "none"]

ConsumerInit ==
  /\ replay = FALSE /\ source = -1
  /\ queue = <<>>
  /\ counted = 0 /\ observed = 0 /\ overshoot = 0 /\ delivered = {}
  /\ cCanceledRequests = 0 /\ failedRequests = 0
  /\ cCrashed = FALSE /\ cFirstErr = "none" /\ cRunCancelled = FALSE /\ cExpired = FALSE
  /\ fetcher = [w \in Fetchers |-> NoFetch]
  /\ present = logEnd
  /\ cOutcome = "not started"

\* partitionsToConsume
ToConsume(src) == IF src = -1 THEN [i \in 1 .. PartitionCount |-> i - 1] ELSE <<src>>

\* No more workers than partitions.
Started(src) ==
  CHOOSE S \in SUBSET Fetchers :
    Cardinality(S) = Min({Cardinality(Fetchers), Len(ToConsume(src))})

\* The command is given its flags; DescribeTopic gives the partitions and the
\* workers start, or Run returns an error.
ConsumerStart ==
  /\ cOutcome = "not started"
  /\ cOutcome' \in {"running", "error"}
  /\ replay' \in BOOLEAN /\ source' \in {-1, 0}
  /\ queue' = ToConsume(source')
  /\ fetcher' = [w \in Fetchers |-> [NoFetch EXCEPT !.pc = IF w \in Started(source') THEN "take" ELSE "done"]]
  /\ present' = logEnd
  /\ UNCHANGED <<tallies, cErrors, cExpired, topicVars>>

FetcherAt(w, pc) == cOutcome = "running" /\ fetcher[w].pc = pc
FetcherTo(w, pc) == fetcher' = [fetcher EXCEPT ![w].pc = pc]
-----------------------------------------------------------------------------
(***************************************************************************)
(* A worker.                                                               *)
(***************************************************************************)
\* Mutant: a partition stays in the queue when a worker takes it.
Remaining_Same(q) == IF Len(q) = 1 THEN <<>> ELSE <<Head(q)>> \o Tail(Tail(q))

\* The queue after a partition is taken.
Remaining(q) == Tail(q)

TakePartition(w) ==
  /\ FetcherAt(w, "take")
  /\ IF cRunCancelled \/ queue = <<>>
     THEN FetcherTo(w, "done") /\ UNCHANGED queue
     ELSE /\ fetcher' = [fetcher EXCEPT ![w] = [NoFetch EXCEPT !.pc = "check", !.part = Head(queue)]]
          /\ queue' = Remaining(queue)
  /\ UNCHANGED <<cSettings, tallies, cErrors, cExpired, present, cOutcome, topicVars>>

\* Mutant: the end of the duration is not looked at.
Finish_CountOnly == ~replay /\ counted >= Target

\* The duration is over, or the target is reached.
Finish == IF replay THEN cExpired ELSE counted >= Target

CheckProgress(w) ==
  /\ FetcherAt(w, "check")
  /\ replay /\ ~Finish => observed < MaxObserved
  /\ FetcherTo(w, IF Finish THEN "done" ELSE "fetch")
  /\ UNCHANGED <<cSettings, queue, tallies, cErrors, cExpired, present, cOutcome, topicVars>>

\* No record has come for idleTimeout.
IdleTimeout(w) ==
  /\ FetcherAt(w, "check") /\ ~Finish
  /\ fetcher' = [fetcher EXCEPT ![w].pc = "crash", ![w].err = "idle"]
  /\ UNCHANGED <<cSettings, queue, tallies, cErrors, cExpired, present, cOutcome, topicVars>>

\* The broker reads the records at the offset, and then the log end offset.
\* After cancelRun the client takes no new response.
FetchRecords(w) ==
  /\ FetcherAt(w, "fetch") /\ ~cRunCancelled
  /\ LET left == logEnd[fetcher[w].part] - fetcher[w].off
     IN  \E n \in 0 .. MaxFetch :
           /\ n <= left /\ (n = 0 <=> left = 0)
           /\ fetcher' = [fetcher EXCEPT ![w].pc = "read", ![w].n = n]
  /\ UNCHANGED <<cSettings, queue, tallies, cErrors, cExpired, present, cOutcome, topicVars>>

FetchLogEnd(w) ==
  /\ FetcherAt(w, "read")
  /\ fetcher' = [fetcher EXCEPT ![w].end = logEnd[fetcher[w].part],
                                ![w].pc = IF fetcher[w].n > 0 THEN "load" ELSE "after"]
  /\ UNCHANGED <<cSettings, queue, tallies, cErrors, cExpired, present, cOutcome, topicVars>>

\* The request times out or fails.
FetchFails(w) ==
  /\ FetcherAt(w, "fetch") \/ FetcherAt(w, "read")
  /\ failedRequests' = failedRequests + 1
  /\ \E e \in {"causal"} \cup (IF cRunCancelled THEN {"cancelled"} ELSE {}) :
       fetcher' = [fetcher EXCEPT ![w].pc = "crash", ![w].err = e]
  /\ UNCHANGED <<cSettings, queue, tallies, cCanceledRequests, cCrashed, cFirstErr, cRunCancelled,
                 cExpired, present, cOutcome, topicVars>>

\* The error is recognised as a cancellation by another worker.
FetchCancelled(w) ==
  /\ FetcherAt(w, "fetch") \/ FetcherAt(w, "read")
  /\ cRunCancelled
  /\ cCanceledRequests' = cCanceledRequests + 1
  /\ FetcherTo(w, "done")
  /\ UNCHANGED <<cSettings, queue, tallies, failedRequests, cCrashed, cFirstErr, cRunCancelled,
                 cExpired, present, cOutcome, topicVars>>

\* The tallies for a response of which accepted records count.
Tally(w, accepted) ==
  LET f == fetcher[w]
  IN  /\ observed' = observed + f.n
      /\ overshoot' = overshoot + f.n - accepted
      /\ delivered' = delivered \cup {<<f.part, o>> : o \in f.off .. f.off + f.n - 1}
      /\ fetcher' = [fetcher EXCEPT ![w].pc = "after", ![w].off = f.off + f.n]

\* claimConsumed: the load.
LoadCounted(w) ==
  /\ FetcherAt(w, "load")
  /\ IF counted >= Target
     THEN Tally(w, 0)
     ELSE /\ fetcher' = [fetcher EXCEPT ![w].pc = "swap", ![w].seen = counted]
          /\ UNCHANGED <<observed, overshoot, delivered>>
  /\ UNCHANGED <<cSettings, queue, counted, cErrors, cExpired, present, cOutcome, topicVars>>

\* Mutant: a store in place of the compare-and-swap.
Unchanged_Blind(seen) == TRUE

\* The compare-and-swap finds the loaded value.
Unchanged(seen) == counted = seen

\* claimConsumed: the compare-and-swap, which loads again when it fails.
SwapCounted(w) ==
  /\ FetcherAt(w, "swap")
  /\ LET f == fetcher[w]
         accepted == Min({f.n, Target - f.seen})
     IN  IF Unchanged(f.seen)
         THEN counted' = f.seen + accepted /\ Tally(w, accepted)
         ELSE FetcherTo(w, "load") /\ UNCHANGED tallies
  /\ UNCHANGED <<cSettings, queue, cErrors, cExpired, present, cOutcome, topicVars>>

\* Mutant: the end of the partition is seen one record early.
ReachedEnd_Early(f) == f.off + 1 >= f.end

\* The offset is at the log end offset of the response.
ReachedEnd(f) == f.off >= f.end

\* The end of the loop body: at the end of the partition, start it again or
\* go on to the next one; after an empty response, wait for pollInterval.
AfterResponse(w) ==
  /\ FetcherAt(w, "after")
  /\ LET f == fetcher[w]
     IN  IF ReachedEnd(f) /\ ~replay
         THEN FetcherTo(w, "take")
         ELSE fetcher' = [fetcher EXCEPT ![w].pc = IF f.n = 0 THEN "poll" ELSE "check",
                                         ![w].off = IF ReachedEnd(f) THEN 0 ELSE @]
  /\ UNCHANGED <<cSettings, queue, tallies, cErrors, cExpired, present, cOutcome, topicVars>>

Poll(w) ==
  /\ FetcherAt(w, "poll")
  /\ \/ FetcherTo(w, "check")
     \/ cRunCancelled /\ FetcherTo(w, "done")
  /\ UNCHANGED <<cSettings, queue, tallies, cErrors, cExpired, present, cOutcome, topicVars>>

\* The critical section of the error paths.
RecordFetchError(w) ==
  /\ FetcherAt(w, "crash")
  /\ cCrashed' = TRUE
  /\ cFirstErr' = IF cCrashed THEN cFirstErr ELSE fetcher[w].err
  /\ FetcherTo(w, "cancel")
  /\ UNCHANGED <<cSettings, queue, tallies, cCanceledRequests, failedRequests, cRunCancelled,
                 cExpired, present, cOutcome, topicVars>>

CancelFetches(w) ==
  /\ FetcherAt(w, "cancel")
  /\ cRunCancelled' = TRUE
  /\ FetcherTo(w, "done")
  /\ UNCHANGED <<cSettings, queue, tallies, cCanceledRequests, failedRequests, cCrashed, cFirstErr,
                 cExpired, present, cOutcome, topicVars>>

ReplayExpires ==
  /\ cOutcome = "running" /\ replay /\ ~cExpired
  /\ cExpired' = TRUE
  /\ UNCHANGED <<cSettings, queue, tallies, cErrors, fetcher, present, cOutcome, topicVars>>
-----------------------------------------------------------------------------
\* The main goroutine after wg.Wait.
ConsumerEnds ==
  /\ cOutcome = "running" /\ \A w \in Fetchers : fetcher[w].pc = "done"
  /\ cOutcome' = IF ~replay /\ counted < Target THEN "exhausted"
                 ELSE IF cCrashed THEN "failed"
                 ELSE "report"
  /\ UNCHANGED <<cSettings, queue, tallies, cErrors, cExpired, fetcher, present, topicVars>>

FetcherStep(w) ==
  \/ TakePartition(w) \/ CheckProgress(w) \/ IdleTimeout(w)
  \/ FetchRecords(w) \/ FetchLogEnd(w) \/ FetchFails(w) \/ FetchCancelled(w)
  \/ LoadCounted(w) \/ SwapCounted(w) \/ AfterResponse(w) \/ Poll(w)
  \/ RecordFetchError(w) \/ CancelFetches(w)

ConsumerNext ==
  \/ ConsumerStart \/ ReplayExpires \/ ConsumerEnds
  \/ \E w \in Fetchers : FetcherStep(w)

ConsumerEnded == cOutcome \notin {"not started", "running"}
=============================================================================
