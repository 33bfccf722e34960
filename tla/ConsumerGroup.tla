---------------------------- MODULE ConsumerGroup ----------------------------
(***************************************************************************)
(* One consumer group reading one partition through the broker: the Fetch, *)
(* CommitOffset and FetchCommittedOffset handlers (internal/grpcserver/    *)
(* broker_handler.go) composed with the partition log (PartitionLog) and   *)
(* the group's durable offset (offsets.Store; OffsetStore has its detail). *)
(*                                                                         *)
(* A handler takes Store.mu once for every call it makes on the log, so    *)
(* every such call is a step of its own, and the steps of Append,          *)
(* ApplyRetention, Close and crashes come between them.  The client        *)
(* fetches from its position, processes what it got and commits its        *)
(* position; an instance that starts resumes at the committed offset.      *)
(***************************************************************************)
EXTENDS PartitionLog

VARIABLES
  committed,  \* the group's offset in the offset log, fsynced by Commit
  position,   \* the client's next offset to fetch
  delivered,  \* history: the records the client has processed, <<offset, id>>
  handler,    \* the running handler: "none", "fetch" or "commit"
  step,       \* how many of its calls have returned
  answer      \* what these calls returned

groupVars == <<committed, position, delivered, handler, step, answer>>
allVars == <<vars, groupVars>>

Answer == [records : SUBSET (Nat \X Nat), next : Nat, low : Nat, end : Nat]
NoAnswer == [records |-> {}, next |-> 0, low |-> 0, end |-> 0]

GroupInit ==
  /\ Init
  /\ committed = 0 /\ position = 0 /\ delivered = {}
  /\ handler = "none" /\ step = 1 /\ answer = NoAnswer

\* Nobody holds Store.mu for writing.
CanRead == phase \in {"open", "closed"} /\ pc = "idle"

Begin(h) == handler' = h /\ step' = 1 /\ answer' = NoAnswer
EndHandler == Begin("none")
Advance == step' = step + 1 /\ UNCHANGED handler

\* The records stored at the offsets from lo to hi - 1.
RecordsIn(lo, hi) ==
  {<<p[1], p[2].id>> : p \in
     {q \in (lo .. hi - 1) \X UNION {Range(disk[b].batches) : b \in DOMAIN disk} :
        q[2].base <= q[1] /\ q[1] < BatchEnd(q[2])}}
-----------------------------------------------------------------------------
(***************************************************************************)
(* Fetch.                                                                  *)
(***************************************************************************)
\* Mutant: the end offset is read before the records.
FetchCalls_EndFirst == <<"end", "earliest", "read">>

\* The calls of the handler, in their order.
FetchCalls == <<"read", "earliest", "end">>

InFetch(call) == handler = "fetch" /\ step <= Len(FetchCalls) /\ FetchCalls[step] = call

FetchStart ==
  /\ handler = "none" /\ phase = "open"
  /\ Begin("fetch")
  /\ UNCHANGED <<vars, committed, position, delivered>>

Readable == phase = "open" /\ ~writeFailed /\ earliest <= position /\ position <= leo

\* log.Read(position, max_bytes): nothing at the end of the log, else one
\* record and as many more as max_bytes allows.
FetchRead ==
  /\ InFetch("read")
  /\ CanRead /\ Readable
  /\ \E next \in position .. leo :
       /\ next = position => position = leo
       /\ answer' = [answer EXCEPT !.next = next, !.records = RecordsIn(position, next)]
  /\ Advance
  /\ UNCHANGED <<vars, committed, position, delivered>>

\* A closed or failed store, or an offset that is out of range.
FetchError ==
  /\ InFetch("read")
  /\ CanRead /\ ~Readable
  /\ EndHandler
  /\ UNCHANGED <<vars, committed, position, delivered>>

FetchEarliest ==
  /\ InFetch("earliest")
  /\ CanRead
  /\ answer' = [answer EXCEPT !.low = earliest]
  /\ Advance
  /\ UNCHANGED <<vars, committed, position, delivered>>

FetchEnd ==
  /\ InFetch("end")
  /\ CanRead
  /\ answer' = [answer EXCEPT !.end = leo]
  /\ Advance
  /\ UNCHANGED <<vars, committed, position, delivered>>

\* The response reaches the client, which processes the records.
FetchReply ==
  /\ handler = "fetch" /\ step > Len(FetchCalls)
  /\ delivered' = delivered \cup answer.records
  /\ position' = answer.next
  /\ EndHandler
  /\ UNCHANGED <<vars, committed>>
-----------------------------------------------------------------------------
(***************************************************************************)
(* CommitOffset: EarliestOffset, LogEndOffset, the check, offsets.Commit.  *)
(***************************************************************************)
CommitStart ==
  /\ handler = "none" /\ phase = "open"
  /\ position # committed
  /\ Begin("commit")
  /\ UNCHANGED <<vars, committed, position, delivered>>

CommitEarliest ==
  /\ handler = "commit" /\ step = 1
  /\ CanRead
  /\ answer' = [answer EXCEPT !.low = earliest]
  /\ Advance
  /\ UNCHANGED <<vars, committed, position, delivered>>

CommitInRange(low, end) == low <= position /\ position <= end

CommitEnd ==
  /\ handler = "commit" /\ step = 2
  /\ CanRead
  /\ IF CommitInRange(answer.low, leo)
     THEN Advance /\ UNCHANGED answer
     ELSE EndHandler
  /\ UNCHANGED <<vars, committed, position, delivered>>

\* offsets.Commit fsyncs the entry before it returns.  A failed call leaves
\* the old offset, or an entry that the next start of the broker recovers.
CommitWrite ==
  /\ handler = "commit" /\ step = 3
  /\ committed' \in {position, committed}
  /\ pending' = AfterFsync(pending)
  /\ EndHandler
  /\ UNCHANGED <<disk, phase, memory, pc, cur, cutoff, sent, acked, position, delivered>>
-----------------------------------------------------------------------------
\* Mutant: a new instance starts at the end of the log.
ResumeAt_Latest == leo

\* Mutant: a new instance starts at the last offset that was processed.
ResumeAt_LastProcessed == committed - 1

\* FetchCommittedOffset; a group without a committed offset starts at 0.
ResumeAt == committed

\* A new client instance takes over.
ClientStart ==
  /\ handler = "none" /\ phase = "open" /\ pc = "idle"
  /\ position # ResumeAt
  /\ position' = ResumeAt
  /\ UNCHANGED <<vars, committed, delivered, handler, step, answer>>

\* A step of the log.  When the process ends, its handlers end with it.
LogStep(A) ==
  /\ A
  /\ IF phase' = "down" THEN EndHandler ELSE UNCHANGED <<handler, step, answer>>
  /\ UNCHANGED <<committed, position, delivered>>

GroupStep ==
  \/ FetchStart \/ FetchRead \/ FetchError \/ FetchEarliest \/ FetchEnd \/ FetchReply
  \/ CommitStart \/ CommitEarliest \/ CommitEnd \/ CommitWrite
  \/ ClientStart

GroupNext == LogStep(Next) \/ GroupStep

GroupSpec == GroupInit /\ [][GroupNext]_allVars

GroupPowerSpec ==
  GroupInit /\ [][GroupNext \/ LogStep(PowerFailure)]_allVars
-----------------------------------------------------------------------------
\* The variables of the handlers and of the client.
GroupTypeOK ==
  /\ committed \in Nat /\ position \in Nat
  /\ delivered \subseteq Nat \X Nat
  /\ handler \in {"none", "fetch", "commit"}
  /\ step \in 1 .. 4
  /\ answer \in Answer

\* Fetch reads the records, the earliest offset and the end offset under
\* three separate locks, and the client takes the end offset for the end of
\* the log: a complete response never shows it before the returned records
\* or before the earliest offset.  Retention may move the earliest offset
\* past a returned record between the calls, but only when that record is
\* gone: no record that the log still has lies before it.
ResponseCoversRecords ==
  handler = "fetch" /\ step > Len(FetchCalls) =>
    /\ answer.next <= answer.end /\ answer.low <= answer.end
    /\ \A d \in answer.records : LogStart <= d[1] => answer.low <= d[1]

\* CommitOffset checks the offset against a log end it read earlier and
\* writes it later; still, no committed offset lies beyond the log, across
\* failed appends, retention and restarts of the process.
CommittedWithinLog ==
  phase = "open" => committed <= leo

\* The record at an offset that was once delivered to the group is the only
\* record that is ever stored at that offset.
DeliveredStable ==
  \A d \in delivered : \A e \in RecordsIn(d[1], d[1] + 1) : e = d

\* At-least-once processing: a record that was acknowledged to its producer
\* and lies before the group's committed offset has been processed by the
\* group.  An instance that resumes at the committed offset skips nothing.
AtLeastOnce ==
  \A x \in acked : \A o \in x.base .. BatchEnd(x) - 1 :
    o < committed => <<o, x.id>> \in delivered
=============================================================================
