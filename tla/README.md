# A TLA+ verification of the message broker

The broker stores records in partitioned, append-only logs on one machine and
serves producers and consumers over gRPC. This directory holds TLA+ models of
its parts, TLC runs on small instances, and TLAPS proofs for instances of any
size. `PROJECT.json` maps every definition to the lines it models.

## The system and its parts

| Part | Source | State | Operations that change it | What makes it hard |
|---|---|---|---|---|
| Partition log | `internal/storage/store.go`, `segment.go`; `internal/partition` forwards to it | log files, segment list, log end and earliest offset, `writeFailed` | `OpenStore`, `Append`, `ApplyRetention`, `Close` | crashes between steps, operations that half fail, files against memory |
| Sparse index | same files | index file, entries in memory | index part of `Append`, `recoverSegment`, `rebuildIndex` | derived data that may be older, newer or damaged |
| Read path | `Store.Read` | none | none | two binary searches, scan across boundaries, limit |
| Offset store | `internal/offsets/store.go` | one file, a map, `size`, `writeFailed` | `OpenStore`, `Commit`, `Close` | failed commits that reappear, torn entries |
| Request handlers | `internal/grpcserver/broker_handler.go` | none of their own | `Produce`, `Fetch`, `CommitOffset` | several locked calls per request |
| Topic manager | `internal/topic/manager.go` | partition directories, `topics.json`, a map | `NewManager`, `CreateTopic`, `Close` | a transaction over three places, with rollback |
| Lifecycle | `internal/broker/broker.go`, `cmd/broker/main.go`, the server wrappers | flags, channels, wait groups | `Start`, `Shutdown`, goroutines, signals | two callers of `Shutdown`, order of closing |
| Benchmark clients | `internal/bench/producer.go`, `consumer.go`, their commands | shared counters, acknowledged ranges, a queue of partitions, the first error | `ProducerBench.Run`, `ConsumerBench.Run` | workers that race, requests handled after their timeout, cancellation |

How they interact: a handler resolves a partition through the topic manager and
calls the partition log, which serialises everything under `Store.mu`.
`CommitOffset` checks an offset against the log and hands it to the offset
store. A background worker applies retention to every partition. The lifecycle
code starts all of it and must stop it in the right order. The benchmark
clients are separate processes that see a topic only through requests.

## Modules

| Module | Models | State and actions |
|---|---|---|
| `AbstractLog` | what a partition promises | the batches that are kept, the first and the next offset, the acknowledged batches; `Call`, `Append`, `AppendAcknowledged`, `Acknowledge`, `Trim` |
| `PartitionLog` | one partition's store | `disk` is the directory (base offset to file); `segments`, `leo`, `earliest`, `writeFailed` are the fields of `Store`; `pc` is where the holder of `Store.mu` is. `OpenStart`, `RecoverSegment`, `OpenDone`, `OpenFail`; `AppendStart`, `Roll`, `Write`, `Flush` and their failures; `RetentionStart`, `RetainByAge`, `RetainBySize`; `Close`; `Crash`, `PowerFailure` |
| `SegmentIndex` | index of one segment | entries in memory and in the file, with the start of every batch for the log; `AppendBatch`, `AppendIndexEntry`, `Flush`, `Open` (validate or rebuild), `Crash`, `PowerFailure` |
| `LogRead` | `Store.Read` | `segments` with their batches and index entries, which `Grow` and `RollOnly` extend between reads; `reader` holds the local variables of a call and the loop it is in: `StartRead`, `EnterSegment`, `EnterBatch`, `ScanRecord`, `LeaveBatch`, `LeaveSegment`, `EndOfLog`, `BatchUnreadable`, `Return` |
| `SortSearch` | Go's `sort.Search` (external) | the binary search itself, so that a predicate that is not monotone gives what Go gives |
| `OffsetStore` | the offset store | `file`, `offsets`, `size`, `writeFailed`; `RecoverEntry`, `RecoverDone`, `CommitStart`, `CommitWrite`, `CommitSync` and their failures |
| `ConsumerGroup` | handlers and a consumer group, composed with `PartitionLog` | every call a handler makes on the log is a step; all steps of the log come between them |
| `TopicManager` | the topic manager | `dirs`, `meta` (`topics.json`), `topics` (memory); `Open`, and `OpenUnread` when `topics.json` cannot be examined; one step per directory, rename, publication and rollback; `snaps` is what a power failure may leave, `missed` the topics that the running process did not load, `recreated` (history) those of them that were created a second time; `ManagerCrash`, `ManagerPowerFailure` |
| `BrokerLifecycle` | start and shutdown | one program counter per goroutine, and a record `b` of what they share |
| `BenchTopic` | the topic as the benchmark clients see it (external) | log end offset per partition; requests that were given up and may still be handled |
| `BenchProducer` | `ProducerBench.Run` | the shared counters, ranges and error fields of `ProducerBench`, a program counter and request per worker; `Claim`, `Send`, `Handle`, `Acknowledge`, `RequestFails`, `RequestCancelled`, `RecordError`, `CancelRun`, and the verification in `ProducerEnds` |
| `BenchConsumer` | `ConsumerBench.Run` | the queue of partitions, the counters, the error fields, a program counter, offset and response per worker; `TakePartition`, `FetchRecords`, `FetchLogEnd`, `LoadCounted` and `SwapCounted` (`claimConsumed`), `AfterResponse`, the error paths, `ConsumerEnds` |
| `Bench` | a benchmark | the producer and, when it has exited, the consumer, on one topic |

`PartitionLogProofs`, `PartitionLogContract` (the refinement, and the consumer
group on top of it), `PartitionLogPower` (power failures), `SegmentIndexProofs`,
`LogReadProofs`, `BrokerProofs` (`OffsetStore`, `TopicManager`, `BrokerLifecycle`), `BenchProofs` and
`BenchReportProofs` hold the proofs. A module of proofs that extends several models
needs names that do not clash, which is why those models call their specifications
`StoreSpec`, `ManagerSpec`, `BrokerSpec` and `ReadSpec`.
The `MC*` modules only define small sets for the configurations.

Refinement. `PartitionLog` implements `AbstractLog`: the kept batches are those
of all files, the log starts at the lowest base offset of a file and ends at the
end of the last one. A write is `Append` (sync mode, or a call that fails later)
or `AppendAcknowledged` (async mode), the fsync that ends a call is
`Acknowledge`, the deletion of a file is `Trim`; rolls, recovery, failures and
crashes are stuttering steps, which is the point of the exercise: none of them
may show. The property is `ImplementsLog`. It holds for process crashes; a power
failure may take back batches that were not acknowledged, which is no step of the
abstract log.

Abstractions. A batch is its base offset, its number of records, its timestamp
and the number of the `Append` call, which stands for the content. A file is its
complete batches and what follows them: nothing, an incomplete batch (which
recovery cuts off in the active segment) or bytes that fail a check (which
recovery refuses). Every record has the same encoded size. The clock is any
element of `Times` at any call, so it may go backwards. An entry of the offset
store is its key and the number of the commit. In the composition the offset
store is one variable, `committed`; `OffsetStore` justifies that a commit is
durable when it returns and that a failed one may or may not take effect.

Crashes. `Crash` ends the process: completed file operations stay, since the
page cache belongs to the operating system. `PowerFailure` also takes away any
suffix of what was not fsynced and leaves arbitrary bytes in its place.
Directory changes are the delicate part. With `Journaled = TRUE` they reach the
disk in order and no later than the next fsync of a file, which is how
journaling file systems commonly behave. With `Journaled = FALSE` only a
sync of the directory helps, which is all POSIX promises.

## Runs

Violated properties are the documented claims that the code does not keep; each
has an entry under `findings`.

| Run | Checks | Distinct states |
|---|---|---|
| `log_sync` | sync mode with process crashes and power failures: the log stays contiguous, memory matches the files, acknowledged batches stay, only the tail of the active segment is ever damaged | 238,765 |
| `log_power_posix` | violated: the directory entry of a new segment is never synced, so an acknowledged batch can be lost | |
| `group` | async mode with process crashes: a response's log end covers its records and its earliest offset passes none that is still there, committed offsets lie in the log, an offset never changes its record, at-least-once processing; recovery accepts every directory, retention deletes only what it may, and the partition implements the abstract log | 796,374 |
| `group_power` | violated: a recovered batch is served without an fsync; after a power failure its offsets are reused and an acknowledged record is skipped | |
| `offsets` | the map is the replay of the file; successful commits survive | 132,012 |
| `index` | a lookup always starts at the right batch; an undamaged index is kept | 105,375 |
| `read` | a read returns exactly what a full scan would | 6,322,167 |
| `lifecycle` | storage is closed last, readiness is withdrawn for good; a signal ends the process, and so does a failed server unless a handler never returns | 5,914 |
| `double_shutdown` | violated: a signal during the monitor's shutdown lets main report a clean exit before storage is closed | |
| `topics` | the broker can always start; created topics and records are kept, through process crashes and power failures; a start that cannot examine `topics.json` endangers only topics that are then created again | 477,893 |
| `bench` | the producer's report accounts for every record and for every offset by which the topic grew, and it raises no false alarm; the consumer's counts are exact and no record is observed twice; the error that is reported is the cause; both end | 756,342 |
| `bench_duration` | violated: with a duration the consumer still counts no more than `-count` | |

Bounds, and why they are enough. Four appends of one or two records with segments
of one or two batches give up to four segments, so that rolls, deletions and
restarts follow each other in every order; the size limit makes retention delete,
two clock readings let timestamps fall, and `MaxRelative = 1` lets the
relative-offset limit be met. `ConsumerGroup` has larger segments and three
appends: one delivered, one lost or failed, one in its place. `OffsetStore` has
two keys and five commits, enough for a failed commit to be recovered and
overtaken twice. `SegmentIndex` has four batches and three openings with an
interval of four bytes, so that some batches are indexed and some are not.
`LogRead` has every layout of up to five records of one or two bytes, with up to five
batches and segments, and limits from nothing to five bytes; its log starts at 2, so
that there are offsets before it. `TopicManager` has two topics
and two partitions, so that a retry may use another count, and four calls of
`CreateTopic` (`MaxCreations`): both topics created, one or both created again after a
start that did not read `topics.json`, or failed and tried again; its topics are
interchangeable, which is the only symmetry used (the properties of that run are
invariants). `Bench` has two workers of each kind, two partitions of which one
holds a record of an earlier run (`Earlier`), and three records in batches of two,
so that the last batch is short, one worker finds nothing, and a partition may get
two ranges or none; the target of three is reached, missed or exceeded by a
response of two. The bounds `MaxSent`, `MaxCommits`, `MaxBatches`, `MaxOpens`,
`MaxRequests`, `MaxCreations`, `MaxClaimed` and `MaxObserved` are named in the modules and stand
only in guards; the last two end the runs with a duration, which have no end of
their own but the clock.

Deadlock is checked in every run. `SegmentIndex`, `BrokerLifecycle` and `Bench`
have an explicit stuttering step for the end (bounds used up; process ended).

Fairness is assumed in `BrokerLifecycle` and `Bench`. In `Bench` every worker and
both main goroutines go on when they can (weak fairness for each): a request ends
at the latest with its timeout, and a duration passes. The `DescribeTopic` calls
before and after a run have no timeout of their own, so for the main goroutines this
assumes a broker that answers them or closes the connection. No request is forced to
succeed, to fail, or to be handled after it was given up, and the consumer's idle
timeout is not forced to fire. In `BrokerLifecycle` goroutines that can run are run
(weak fairness for each); a server that was told to stop returns from `Serve`;
and a `select` with a cancelled context and a ticker takes the
cancelled case in the end (strong fairness, because Go picks at random among
ready cases). A server is never forced to fail and no signal is forced to come. Nor
is a handler forced to return: a health `Watch` lasts as long as its client wants, and
a response may wait for a client that does not read. The monitor and `Start` call
`Shutdown` without a deadline, so a failed broker may wait in `GracefulStop` for such
a handler for ever (`Draining`). `FailureEndsProcess` says that nothing else can keep
it: the process ends, or it stays in that wait from some point on. A signal ends it in
either case (`SignalEndsProcess`), because the deadline of `main`'s own `Shutdown`
forces the stop, and a second call returns at once. Handlers of the HTTP server are
bounded by its read and write timeouts.

`topics.json` that cannot be examined. `NewManager` takes any error of `os.Stat` for a
missing file and starts without topics (`OpenUnread`). `CreateTopic` of an existing topic
is then not refused: it may change the partition count in `topics.json`, and its
rollback removes directories that hold records. The properties of `TopicManager`
therefore except these topics, by name: `StartupAccepts` and `RecordsKept` the
topics that were created a second time (`recreated`), `CreatedTopicsServed` also those
that the running process did not load (`missed`). Without any one of these exceptions
TLC finds a counterexample. What is left is that the damage is confined: since
`saveMetadata` merges with the file, all other topics are there again after the next
start that reads it. Apart from that, a topic whose metadata could not be synced
(`warned`) is not promised to survive a power failure before the next fsync; it does
survive a crash of the process.

## Proofs

Proved by TLAPS for every value of the constants that the named assumptions
allow (sizes, limits, clock readings, sets of keys and topics, number of calls):

- `PartitionLogProofs`, for `Spec` (process crashes at every step):
  `TypeCorrect`, `SegmentsAlwaysContiguous`, `MemoryAlwaysMatches`,
  `RecoveryAlwaysAccepts`, `AckedAlwaysRetained`, `DeletesOnlyExpiredFiles`.
- `PartitionLogContract`, for `Spec`: `Implementation` (the partition log
  implements the abstract log), `AlwaysTiled` (what the abstract log promises) and
  `LogAlwaysTiled`, which follows from the two. For `GroupSpec`: `GroupTypes`,
  `ResponsesCoverRecords`, `CommitsWithinLog`, `DeliveriesStable`,
  `GroupProcessesAtLeastOnce`.
- `PartitionLogPower`, for `PowerSpec` (power failures as well):
  `OnlyTailEverDamaged`, `AckedSurvivesPowerFailure`, `OpenAfterPowerFailure`. These three assume `Durable`, that is sync mode and a
  file system that keeps directory changes in order; run `log_power_posix` shows
  that the second part of the assumption is needed, and async mode promises
  nothing about power failures.
- `SegmentIndexProofs`, for any log and index interval: `SearchCorrect` (the binary
  search of `sort.Search`), `RebuiltSound` (`rebuildIndex`) and, for `Spec`
  (crashes and power failures), `TypesKept`, `LookupCorrect`, `UndamagedIndexKept`.
- `LogReadProofs`, for `ReadSpec` with logs and limits of any size:
  `ReadsAlwaysExact`.
- `BrokerProofs`, for `StoreSpec` (crashes and power failures): `TypeCorrect`,
  `MapAlwaysReplay`, `AckedAlwaysSurvives`; for `ManagerSpec` (crashes and power
  failures): `ManagerTypesKept`, `StartupAlwaysAccepts`, `TopicsNeverLost`,
  `RecordsNeverRemoved`; for `BrokerSpec`, with any number of requests:
  `BrokerTypesKept`, `ReadinessStaysWithdrawn`, `StoresClosedLast`.
- `BenchProofs`, for any number of partitions, workers and records: `BenchTypes`,
  `ErrorsAlwaysCausal` and, of the consumer, `CountsAlwaysExact`,
  `RecordsObservedOnce`, `AlwaysExhaustedHonestly`. On top of it
  `BenchReportProofs`, of the producer: `ReportsAlwaysAccount`,
  `ReportsAlwaysExact`, `NeverFalseAlarm`.

The argument for the log. None of the properties is inductive. The invariant
`IInv` says what is always true of the directory alone (`DiskOK`: every file is
continuous, every file but the last is non-empty, whole, and continued by
another file), of the segment list, including while it is being built
(`SegmentsOK`), of the files that `OpenStore` has still to open (`UnopenedOK`:
the next one begins at the end of the last), and of the point the running
operation has reached (`PcOK`). `DiskOK` must hold in every state, not only when
the store is down, because a crash may come at any step; that is why a roll,
which adds an empty file, needs the fact that the segment before it is not empty.
Memory and files may differ once `writeFailed` is set, so `SegmentsOK` claims
agreement only before that, and `DiskOK` carries recovery over the gap. The
proof has lemmas about single files, about a directory in which one file changes,
appears or disappears, and one lemma per action. `DeletesOnlyExpired` follows
because the segment's newest timestamp is an upper bound for its file.

The refinement needs one fact beyond `IInv`: `CallsOK`, that every batch in the
files comes from an earlier call, or is the one that the running call has just
written. Lemmas say which changes of the directory are invisible (a new empty file
after the last one, other bytes at the end of a file) and what a write and a
deletion do to the batches, the start and the end of the log; `NextSimulates` has
one case per action.

Power failures. `IInv` does not survive one: the last file may end in arbitrary
bytes, and what `OpenStore` has read by then is not to be trusted. `PowerInv` says
what is on stable storage (`Stable`: every file but the last is whole and fsynced,
acknowledged batches lie in fsynced parts, and the directory changes that may still
be lost are the creation of the last file, of which nothing is fsynced, and removals
of whole files at the front), and that a directory is either one that satisfies `IInv` or `Damaged`: bad bytes after the last file, in a
store that is down or has still to reach that file. A damaged store can only refuse
to open, so the two halves never mix. The step that needs care is `PowerFailure`
itself, which picks how many directory changes and how much of every file survive:
`Stable` bounds both.

The group is proved on top of the abstract log, not of the files. `LogGrows` says
all that the handlers depend on: the end never moves back, and a batch that was
not there before begins at or after the old end. `GInv` then says that what was
delivered, or is in the response being built, is the only content that those
offsets have; that everything before the committed offset, and before the position
of the consumer, was processed; and what the handlers have read so far (`AnswerOK`).
The check in `CommitOffset` is made against an old end, which is enough because the
end only grows. Under power failures it does not (run `group_power`).

For the benchmark the invariant says, for the producer, that a cancellation and an
error that comes from one are preceded by an error that was recorded
(`ProducerCausal`). For the consumer it says that the tallies add up after every
step and that what a worker loaded before its compare-and-swap was below the target
(`TalliesOK`); and that in a run by count every partition is in the queue, or
belongs to one worker, or is done with, and that a worker's records lie before its
offset (`Ownership`), so that a response never repeats a record.

Two more invariants rest on that one. `Reports` is about the producer's report. The
records that workers hold are disjoint and, with the counters, make up what was
claimed (`Balanced`, as long as the run is by count and not cancelled). The ranges
that were acknowledged, or whose response is on its way, are disjoint parts of what
is new in the logs, and all of it unless a response was lost (`Tiles`). The
producer compares a sum of lengths with the growth of the logs, so the proof must
say what the sum is: `RecordsCounted` shows that over disjoint ranges it is the
number of offsets they cover. Equality with the growth then leaves no offset
uncovered, which is `ReportExact`. `Scan` is about the consumer: while a run by count
has met no error and not reached its target, every partition is in the queue, or
delivered up to the offset of the worker that has it, or delivered to the end that
it had at the start (`present`), and the last worker leaves only when the queue is
empty.

For the index the invariant separates memory, whose entries always point to batches
in order (`Sound`), from the file, of which that is known only as long as nothing
damaged it (`FileFollows`); validation or a rebuild restores the first from the
second. That a search over sound entries starts at the right batch needs
`SearchCorrect`, since the code searches instead of scanning.

For `Read` the invariant has two halves. `Layout` is about the log: its segments, and
in each of them the batches, hold the records one after the other without a gap,
and an index entry names the batch that begins at its offset. `ReaderOK` is about the
call. What it has collected is the records from the wanted offset up to `curr`, and
their sizes add up to its count of bytes (`Collected`). Wherever it is in the three
loops, the scan has not passed `curr` (`AtSegment`, `AtBatch`, `AtRecord`): that holds
at the start because both searches land at or before the wanted offset
(`SegmentForCorrect`, `ScanFromCorrect`), and again in every further segment, where the
code searches the index anew. A record that is not skipped is therefore the one
at `curr`, so that none is left out or given twice; and a call that ends because the
next record does not fit has the sum to show it (`Complete`, with `SizeInStep` for what
one record more adds to the sum). The theorem does not depend on how the log came by its
batches, segments and entries, as long as they satisfy `Layout`. `SegmentIndex` and
`PartitionLog` are where those facts are shown of the code.

For the lifecycle the invariant says what the steps of `Shutdown` that are behind
have established (`Progress`), that a serving goroutine reports at most one error
(`ErrorsOK`), and that nobody calls `Shutdown` while `Start` is still to mark the
broker ready (`StartsAlone`); the last is why readiness cannot come back.

Recursive definitions. The induction theorems of the library cannot be applied (they
take an operator as a parameter). Where a proof needs a recursively defined function
(`bisect`, `Rebuilt`, `MapThenSumSet`), it exhibits a function that solves the
recursive equation, or shows one to exist, and then argues by the least
counterexample (`LeastElement`).

For the offset store the invariant adds that commit numbers increase along the
file, that acknowledged entries are within the fsynced part, and that the map is
the replay of the first `size` entries, also half-way through recovery. For the
topic manager it adds that memory and `topics.json` agree except about topics that
were not loaded and the topic between its rename and its publication, that only a
topic that was not loaded is created a second time (`MemoryAgrees`), and that every state of the disk
that a power failure may leave is as sound as the present one (`MediaSound`).

Every invariant, action property and refinement that a passing run checks is
proved. Only model-checked is liveness, which is beyond the prover:
`FailureEndsProcess` and `SignalEndsProcess` of `BrokerLifecycle`, `BenchEnds` of
`Bench`. The four violated properties are shown by TLC's counterexamples.

## Not modelled

The byte formats and checksums (a batch is complete, incomplete or bad), the
admin service, metrics, logging, configuration, the command-line clients, the
latency sampler and the printed reports of the benchmark clients, generated code.
They hold no state that the properties depend on. `Produce` is one call of
`Append` and appears as that. `LogRead` leaves out the refusals of a closed or failed
store, which are in `ConsumerGroup` (`Readable`).

Faults that are outside the models: the offset log's directory entry is taken to be durable; the
topic manager's directory changes are taken to reach the disk in order
(`Journaled` in `PartitionLog`); the retention age is taken as given, before its
conversion to nanoseconds, which overflows beyond 292 years. A signal that comes
before `main` has installed its handler ends the process as a crash does. In
`Bench` the topic is not trimmed and the broker does not restart.
