------------------------------- MODULE Bench -------------------------------
(***************************************************************************)
(* A benchmark as benchmarks/scripts/run-benchmarks.sh runs it: the        *)
(* producer command and, when it has ended, the consumer command on the    *)
(* same topic.  Requests that the producer gave up may still be handled    *)
(* while it checks its offsets and while the consumer runs.                *)
(***************************************************************************)
EXTENDS BenchProducer, BenchConsumer

vars == <<topicVars, producerVars, consumerVars>>

Init == TopicInit /\ ProducerInit /\ ConsumerInit

Exited == outcome = "exited"

Finished == Exited /\ ConsumerEnded /\ UNCHANGED vars

Next ==
  \/ ProducerNext /\ UNCHANGED consumerVars
  \/ Exited /\ ConsumerNext /\ UNCHANGED producerVars
  \/ Exited /\ StrayAppend /\ UNCHANGED <<producerVars, consumerVars>>
  \/ Finished

\* Every goroutine that can take a step takes one: a request ends at the
\* latest with its timeout, and the duration passes.  Nothing makes a request
\* arrive that was given up, and the idle timeout is not relied on: it never
\* fires while records keep coming.  The main goroutines' DescribeTopic calls
\* have no timeout: the broker is taken to answer them.
Fairness ==
  /\ \A w \in Workers : WF_vars(WorkerStep(w) /\ UNCHANGED consumerVars)
  /\ \A w \in Fetchers : WF_vars(Exited /\ FetcherStep(w) /\ ~IdleTimeout(w) /\ UNCHANGED producerVars)
  /\ WF_vars((ProducerStart \/ Expire \/ ProducerEnds \/ ProducerExits) /\ UNCHANGED consumerVars)
  /\ WF_vars(Exited /\ (ConsumerStart \/ ReplayExpires \/ ConsumerEnds) /\ UNCHANGED producerVars)

Spec == Init /\ [][Next]_vars /\ Fairness
-----------------------------------------------------------------------------
\* Every variable has its type, every request goes to a partition of the
\* topic, and the consumer never asks for records beyond the end of a log.
BenchTypeOK ==
  /\ logEnd \in [Partitions -> Nat]
  /\ stray \subseteq Request
  /\ \A w \in Workers : worker[w].req \in Request
  /\ ranges \subseteq [part : Partitions, base : Nat, last : Nat]
  /\ \A w \in Fetchers : fetcher[w].part \in Partitions /\ fetcher[w].off <= logEnd[fetcher[w].part]
  /\ \A i \in DOMAIN queue : queue[i] \in Partitions
  /\ {nextRecord, partitionCounter, acknowledged, failed, canceledRequests,
      counted, observed, overshoot} \subseteq Nat

\* The error that a run reports is the one that stopped it, never the
\* cancellation that it caused in the requests of the other workers
\* (ProducerBench.firstErr and ConsumerBench.firstErr).
ErrorIsCausal == firstErr # "cancelled" /\ cFirstErr # "cancelled"

\* A producer run by count that ends with a report has accounted for every
\* record exactly once, as acknowledged or as failed.
ReportAccounts ==
  outcome = "report" /\ ~timed => acknowledged + failed = Total /\ canceledRequests = 0

\* When the producer reports, the acknowledged ranges of every partition that
\* has any cover exactly the offsets by which the partition grew.
ReportExact ==
  outcome = "report" =>
    \A p \in Partitions :
      RangesOf(p) # {} =>
        \A o \in initial[p] .. final[p] :
          Cardinality({r \in RangesOf(p) : r.base <= o /\ o <= r.last})
            = IF o < final[p] THEN 1 ELSE 0

\* The offset verification fails only when the broker appended records whose
\* acknowledgement the producer did not get, and it never gets as far as a
\* discontinuity of the ranges.
NoFalseAlarm ==
  /\ outcome = "offset mismatch" => lost
  /\ outcome # "discontinuity"

\* The consumer counts no more than the target, counts or reports as
\* overshoot every record it observed, and reports a run by count only when
\* it counted the target.
CountsExact ==
  /\ counted <= Target
  /\ ConsumerEnded => observed = counted + overshoot
  /\ cOutcome = "report" /\ ~replay => counted = Target

\* A consumer run by count observes no record twice, although workers share
\* the partitions.
ObservedOnce == ~replay => observed = Cardinality(delivered)

\* A consumer that says that the partitions are exhausted, and met no error,
\* has read every record that was there when it began.
ExhaustedHonestly ==
  cOutcome = "exhausted" /\ ~cCrashed =>
    \A i \in DOMAIN ToConsume(source) : \A o \in 0 .. present[ToConsume(source)[i]] - 1 :
      <<ToConsume(source)[i], o>> \in delivered

\* Both commands end: no worker waits for ever on a request, on the counter
\* or on another worker.
BenchEnds == <>(Exited /\ ConsumerEnded)

\* With a duration, -count is ignored: every record that is consumed counts.
DurationIgnoresCount == cOutcome = "report" /\ replay => counted = observed
=============================================================================
