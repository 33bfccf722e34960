---------------------------- MODULE PartitionLog ----------------------------
(***************************************************************************)
(* The segmented, append-only log of one partition: storage.Store and      *)
(* storage.Segment (internal/storage), reached through partition.Log.      *)
(*                                                                         *)
(* A partition directory holds log files named by their base offset.  The  *)
(* file with the highest base is the active segment.  Append rolls to a    *)
(* new file when the active one is full, writes one encoded batch,         *)
(* advances the log end offset and, in sync mode, fsyncs before it         *)
(* acknowledges.  ApplyRetention deletes whole files from the front.       *)
(* OpenStore rebuilds the in-memory segment list from the files.           *)
(*                                                                         *)
(* Every operation holds Store.mu, so operations do not interleave with    *)
(* each other; what interleaves with their steps is a crash.  pc is the    *)
(* point the holder of the mutex has reached.  Two kinds of crash are      *)
(* modelled: Crash ends the process and leaves every completed file        *)
(* operation in place; PowerFailure also loses data that was not fsynced   *)
(* and directory changes that were not made durable.                       *)
(*                                                                         *)
(* The sparse index is derived data with a module of its own               *)
(* (SegmentIndex); here its file only adds bytes to the size that          *)
(* retention measures, and rebuilding it syncs the directory.              *)
(***************************************************************************)
EXTENDS Integers, Sequences, FiniteSets, FiniteSetsExt, Functions

CONSTANTS
  FlushMode,         \* "sync" or "async": storage.flush_mode
  HeaderBytes,       \* encoded size of a batch header
  RecordBytes,       \* encoded size of one record
  SegmentMaxBytes,   \* storage.segment_max_bytes
  MaxBatchBytes,     \* storage.max_batch_bytes
  MaxRelative,       \* largest relative offset an index entry can hold
  IndexEntryBytes,   \* encoded size of one index entry
  Times,             \* clock readings
  MaxAge,            \* retention: age limit
  MaxPartitionBytes, \* retention: size limit
  Journaled,         \* directory changes reach the disk in order, and no
                     \* later than the next fsync of any file
  MaxRecords,        \* bound: most records in one batch
  MaxSent            \* bound: number of Append calls

ASSUME ModeAssumption == FlushMode \in {"sync", "async"} /\ Journaled \in BOOLEAN
ASSUME SizeAssumption ==
  /\ HeaderBytes \in Nat \ {0} /\ RecordBytes \in Nat \ {0}
  /\ SegmentMaxBytes \in Nat /\ MaxBatchBytes \in Nat
  /\ MaxRelative \in Nat /\ IndexEntryBytes \in Nat
ASSUME RetentionAssumption ==
  Times \subseteq Nat /\ MaxAge \in Nat /\ MaxPartitionBytes \in Nat
ASSUME BoundAssumption == MaxRecords \in Nat \ {0} /\ MaxSent \in Nat

VARIABLES
  disk,        \* the partition directory: base offset -> log file
  pending,     \* directory changes not known to be on stable storage
  phase,       \* "down", "opening", "open" or "closed"
  segments,    \* Store.segments; the last one is Store.activeSegment
  leo,         \* Store.logEndOffset; OpenStore's expectedNextOffset
  earliest,    \* Store.earliestOffset
  writeFailed, \* Store.writeFailed
  pc,          \* where the holder of Store.mu is
  cur,         \* the batch of the running Append
  cutoff,      \* the cutoff time of the running ApplyRetention
  sent,        \* history: number of batches handed to Append
  acked        \* history: acknowledged batches that retention still keeps

vars == <<disk, pending, phase, segments, leo, earliest, writeFailed,
          pc, cur, cutoff, sent, acked>>
memory == <<segments, leo, earliest, writeFailed>>

(***************************************************************************)
(* Files.  A file is the sequence of complete batches it holds, what       *)
(* follows them (nothing, an incomplete batch, or bytes that fail the      *)
(* magic or CRC check) and the number of batches known to be fsynced.      *)
(***************************************************************************)
Batch == [base : Nat, n : Nat, id : Nat, ts : Nat]
File == [batches : Seq(Batch), tail : {"none", "short", "bad"}, synced : Nat]
Segment == [base : Nat, next : Nat, size : Nat, maxTs : Nat]

NoBatch == [base |-> 0, n |-> 0, id |-> 0, ts |-> 0]
EmptyFile == [batches |-> <<>>, tail |-> "none", synced |-> 0]

BatchEnd(x) == x.base + x.n
BatchBytes(n) == HeaderBytes + n * RecordBytes

\* The offset after the last complete batch of file f with base b.
End(b, f) ==
  IF f.batches = <<>> THEN b ELSE BatchEnd(f.batches[Len(f.batches)])

\* The bytes of the complete batches of file f with base b.
Bytes(b, f) == Len(f.batches) * HeaderBytes + (End(b, f) - b) * RecordBytes

\* The batches continue each other, starting at offset b.
Continuous(b, batches) ==
  \A i \in 1 .. Len(batches) :
    batches[i].base = IF i = 1 THEN b ELSE BatchEnd(batches[i - 1])

\* m is the largest record timestamp of the file (0 in an empty one).
IsMaxTimestamp(m, f) ==
  /\ \A i \in 1 .. Len(f.batches) : f.batches[i].ts <= m
  /\ m = 0 \/ \E i \in 1 .. Len(f.batches) : f.batches[i].ts = m

Active == segments[Len(segments)]

\* Mutant: the fsync is left out.
Synced_NoFsync(f) == f

\* Flush: the file's batches are on stable storage.
Synced(f) == [f EXCEPT !.synced = Len(f.batches)]

\* os.OpenFile(O_CREATE) without O_TRUNC: an existing file keeps its content.
Created(d, b) == IF b \in DOMAIN d THEN d ELSE [x \in DOMAIN d \cup {b} |->
                                                IF x = b THEN EmptyFile ELSE d[x]]
Without(d, b) == [x \in DOMAIN d \ {b} |-> d[x]]

DirChange == [op : {"create", "remove"}, base : Nat, file : File]
DirCreate(b) == [op |-> "create", base |-> b, file |-> EmptyFile]
DirRemove(b, f) == [op |-> "remove", base |-> b, file |-> f]

\* What is left pending after a successful fsync of a log file.
AfterFsync(p) == IF Journaled THEN <<>> ELSE p
-----------------------------------------------------------------------------
Init ==
  /\ disk = [b \in {} |-> EmptyFile]
  /\ pending = <<>>
  /\ phase = "down"
  /\ segments = <<>>
  /\ leo = 0
  /\ earliest = 0
  /\ writeFailed = FALSE
  /\ pc = "idle"
  /\ cur = NoBatch
  /\ cutoff = 0
  /\ sent = 0
  /\ acked = {}
-----------------------------------------------------------------------------
(***************************************************************************)
(* OpenStore: one step per file, in the order of the base offsets.         *)
(***************************************************************************)
Unopened == {b \in DOMAIN disk : \A i \in DOMAIN segments : segments[i].base # b}

IsNext(b) == b \in Unopened /\ \A c \in Unopened : b <= c

\* Mutant: an incomplete batch is refused in the active segment as well.
Accepts_NoTruncation(b, f, active) ==
  f.tail = "none" /\ Continuous(b, f.batches)

\* recoverSegment accepts the file: an incomplete batch at the end of the
\* active segment is cut off, everything else must be whole and continuous.
Accepts(b, f, active) ==
  /\ f.tail = "none" \/ (f.tail = "short" /\ active)
  /\ Continuous(b, f.batches)

\* Mutant: truncation to the start of the last complete batch.
Truncated_TooFar(f) ==
  IF f.tail = "short"
  THEN [f EXCEPT !.tail = "none", !.batches = SubSeq(f.batches, 1, Len(f.batches) - 1)]
  ELSE f

\* truncateLog: the incomplete batch at the end of the file is cut off.
Truncated(f) == [f EXCEPT !.tail = "none"]

OpenStart ==
  /\ phase = "down"
  /\ phase' = "opening"
  /\ segments' = <<>>
  /\ writeFailed' = FALSE
  /\ \/ /\ DOMAIN disk = {}
        /\ earliest' = 0
     \/ /\ earliest' \in DOMAIN disk
        /\ \A c \in DOMAIN disk : earliest' <= c
  /\ leo' = earliest'
  /\ UNCHANGED <<disk, pending, pc, cur, cutoff, sent, acked>>

\* The index of the file is valid, or it is rebuilt and the directory synced.
RecoverSegment ==
  /\ phase = "opening"
  /\ \E b \in Unopened, m \in Times \cup {0} :
       LET f == disk[b] IN
       /\ IsNext(b)
       /\ b = leo
       /\ Accepts(b, f, Unopened = {b})
       /\ IsMaxTimestamp(m, f)
       /\ disk' = [disk EXCEPT ![b] = Truncated(f)]
       /\ segments' = Append(segments, [base |-> b, next |-> End(b, f),
                                        size |-> Bytes(b, f), maxTs |-> m])
       /\ leo' = End(b, f)
  /\ pending' \in {pending, <<>>}
  /\ UNCHANGED <<phase, earliest, writeFailed, pc, cur, cutoff, sent, acked>>

\* All files are open; an empty directory gets a first segment.
OpenDone ==
  /\ phase = "opening"
  /\ Unopened = {}
  /\ IF segments = <<>>
     THEN /\ disk' = Created(disk, 0)
          /\ pending' = Append(pending, DirCreate(0))
          /\ segments' = <<[base |-> 0, next |-> 0, size |-> 0, maxTs |-> 0]>>
          /\ leo' = 0
          /\ earliest' = 0
     ELSE UNCHANGED <<disk, pending, segments, leo, earliest>>
  /\ phase' = "open"
  /\ UNCHANGED <<writeFailed, pc, cur, cutoff, sent, acked>>

\* OpenStore returns an error: a refused file, or any failed file operation,
\* which may have created the first log file before it failed.
OpenFail ==
  /\ phase = "opening"
  /\ phase' = "down"
  /\ \/ UNCHANGED <<disk, pending>>
     \/ /\ DOMAIN disk = {}
        /\ disk' = Created(disk, 0)
        /\ pending' = Append(pending, DirCreate(0))
  /\ UNCHANGED <<memory, pc, cur, cutoff, sent, acked>>
-----------------------------------------------------------------------------
(***************************************************************************)
(* Append.  A call on a closed or failed store, or with a batch that is    *)
(* too large, returns an error and changes nothing.                        *)
(***************************************************************************)
NeedsRoll(bytes) == Active.size > 0 /\ Active.size + bytes > SegmentMaxBytes

AppendStart(n, ts) ==
  /\ phase = "open" /\ pc = "idle" /\ ~writeFailed
  /\ sent < MaxSent
  /\ BatchBytes(n) <= MaxBatchBytes
  /\ sent' = sent + 1
  /\ cur' = [base |-> leo, n |-> n, id |-> sent + 1, ts |-> ts]
  /\ pc' = IF NeedsRoll(BatchBytes(n)) THEN "roll" ELSE "write"
  /\ UNCHANGED <<disk, pending, phase, memory, cutoff, acked>>

\* The call returns; the batch is acknowledged or an error is reported.
Return == pc' = "idle" /\ cur' = NoBatch

FailStore == writeFailed' = TRUE

\* Mutant: the segment being closed is not flushed.
RollFlushed_NoFsync == disk

\* The directory after the flush of the segment being closed.
RollFlushed == [disk EXCEPT ![Active.base] = Synced(@)]

\* The active segment is flushed and a segment based at leo is created.
\* Nothing syncs the directory that now has a new entry.
Roll ==
  /\ pc = "roll"
  /\ disk' = Created(RollFlushed, leo)
  /\ pending' = Append(AfterFsync(pending), DirCreate(leo))
  /\ segments' = Append(segments, [base |-> leo, next |-> leo, size |-> 0, maxTs |-> 0])
  /\ pc' = "write"
  /\ UNCHANGED <<phase, leo, earliest, writeFailed, cur, cutoff, sent, acked>>

\* The flush fails (before or after the log file was synced), or the new
\* segment cannot be opened (before or after its log file was created).
RollFail ==
  /\ pc = "roll"
  /\ \/ UNCHANGED <<disk, pending>>
     \/ /\ disk' = RollFlushed
        /\ pending' = AfterFsync(pending)
     \/ /\ disk' = Created(RollFlushed, leo)
        /\ pending' = Append(AfterFsync(pending), DirCreate(leo))
  /\ FailStore /\ Return
  /\ UNCHANGED <<phase, segments, leo, earliest, cutoff, sent, acked>>

RelativeOverflows == cur.base - Active.base > MaxRelative

\* The batch would have a relative offset that no index entry can hold.
RelativeOverflow ==
  /\ pc = "write" /\ RelativeOverflows
  /\ FailStore /\ Return
  /\ UNCHANGED <<disk, pending, phase, segments, leo, earliest, cutoff, sent, acked>>

\* Mutant: the timestamp of the last batch replaces the newest one.
Newest_Last(max, ts) == ts

\* Append raises Segment.maxTimestamp only for a newer record.
Newest(max, ts) == IF ts > max THEN ts ELSE max

\* Segment s after batch x was written to it.
Extended(s, x) ==
  [s EXCEPT !.next = BatchEnd(x), !.size = @ + BatchBytes(x.n), !.maxTs = Newest(@, x.ts)]

\* The batch is written at the end of the active segment and becomes part of
\* the log; in async mode it is acknowledged at once.
Write ==
  /\ pc = "write" /\ ~RelativeOverflows
  /\ disk' = [disk EXCEPT ![Active.base].batches = Append(@, cur)]
  /\ segments' = [segments EXCEPT ![Len(segments)] = Extended(@, cur)]
  /\ leo' = BatchEnd(cur)
  /\ IF FlushMode = "sync"
     THEN pc' = "flush" /\ UNCHANGED <<cur, acked>>
     ELSE Return /\ acked' = acked \cup {cur}
  /\ UNCHANGED <<pending, phase, earliest, writeFailed, cutoff, sent>>

\* The write fails; it may leave a part of the batch in the file.
WriteFail ==
  /\ pc = "write" /\ ~RelativeOverflows
  /\ \E t \in {"none", "short"} : disk' = [disk EXCEPT ![Active.base].tail = t]
  /\ FailStore /\ Return
  /\ UNCHANGED <<pending, phase, segments, leo, earliest, cutoff, sent, acked>>

Flush ==
  /\ pc = "flush"
  /\ disk' = [disk EXCEPT ![Active.base] = Synced(@)]
  /\ pending' = AfterFsync(pending)
  /\ acked' = acked \cup {cur}
  /\ Return
  /\ UNCHANGED <<phase, memory, cutoff, sent>>

\* The fsync of the log or of the index fails: the producer gets an error
\* although the log end offset has moved past the batch.
FlushFail ==
  /\ pc = "flush"
  /\ \/ UNCHANGED <<disk, pending>>
     \/ /\ disk' = [disk EXCEPT ![Active.base] = Synced(@)]
        /\ pending' = AfterFsync(pending)
  /\ FailStore /\ Return
  /\ UNCHANGED <<phase, segments, leo, earliest, cutoff, sent, acked>>
-----------------------------------------------------------------------------
(***************************************************************************)
(* ApplyRetention: by age first, then by size, one file per step.          *)
(***************************************************************************)
RetentionStart(now) ==
  /\ phase = "open" /\ pc = "idle" /\ ~writeFailed
  /\ pc' = "age"
  /\ cutoff' = now - MaxAge
  /\ UNCHANGED <<disk, pending, phase, memory, cur, sent, acked>>

HasClosedSegment == Len(segments) > 1

Expired == HasClosedSegment /\ segments[1].maxTs <= cutoff

\* calculateTotalBytes adds the log files and the index files.  A batch has
\* at most one index entry, and an index write may have failed.
LogBytes == MapThenSumSet(LAMBDA i : segments[i].size, DOMAIN segments)
MaxIndexBytes ==
  IndexEntryBytes *
  MapThenSumSet(LAMBDA i : Len(disk[segments[i].base].batches), DOMAIN segments)
MayBeTooLarge == HasClosedSegment /\ LogBytes + MaxIndexBytes > MaxPartitionBytes

\* Mutant: the earliest offset is not moved past the deleted segment.
EarliestAfterDelete_Stale == segments[1].base

\* The base of the segment that becomes the oldest.
EarliestAfterDelete == segments[2].base

\* deleteSegmentAtIndex(0): the log file goes first, then the segment leaves
\* memory, then the index file, the handles and the directory are taken care
\* of.  An error after the first step is reported, and the deletion stands.
DeleteOldest(ok) ==
  /\ disk' = Without(disk, segments[1].base)
  /\ segments' = Tail(segments)
  /\ earliest' = EarliestAfterDelete
  /\ \/ pending' = <<>>
     \/ ~ok /\ pending' = Append(pending, DirRemove(segments[1].base, disk[segments[1].base]))
  /\ acked' = {x \in acked : x.base >= segments[2].base}
  /\ UNCHANGED <<phase, leo, writeFailed, cur, sent>>

RetentionUnchanged == UNCHANGED <<disk, pending, phase, memory, cur, sent, acked>>

RetainByAge ==
  /\ pc = "age" /\ Expired
  /\ \/ DeleteOldest(TRUE) /\ pc' = "age"
     \/ DeleteOldest(FALSE) /\ pc' = "size"
     \/ RetentionUnchanged /\ pc' = "size"
  /\ UNCHANGED cutoff

AgeDone ==
  /\ pc = "age" /\ ~Expired
  /\ pc' = "size"
  /\ RetentionUnchanged /\ UNCHANGED cutoff

RetainBySize ==
  /\ pc = "size" /\ MayBeTooLarge
  /\ \/ DeleteOldest(TRUE) /\ pc' = "size" /\ UNCHANGED cutoff
     \/ DeleteOldest(FALSE) /\ pc' = "idle" /\ cutoff' = 0
     \/ RetentionUnchanged /\ pc' = "idle" /\ cutoff' = 0

\* Small enough, or only the active segment is left, or the size of a file
\* cannot be read.
SizeDone ==
  /\ pc = "size"
  /\ pc' = "idle" /\ cutoff' = 0
  /\ RetentionUnchanged
-----------------------------------------------------------------------------
(***************************************************************************)
(* Close, the end of the process, and crashes.                             *)
(***************************************************************************)
\* The flush may fail; the store is closed all the same.
Close ==
  /\ phase = "open" /\ pc = "idle"
  /\ phase' = "closed"
  /\ \/ UNCHANGED <<disk, pending>>
     \/ /\ disk' = [disk EXCEPT ![Active.base] = Synced(@)]
        /\ pending' = AfterFsync(pending)
  /\ UNCHANGED <<memory, pc, cur, cutoff, sent, acked>>

ProcessEnds ==
  /\ phase # "down"
  /\ phase' = "down"
  /\ pc' = "idle" /\ cur' = NoBatch /\ cutoff' = 0
  /\ UNCHANGED <<memory, sent, acked>>

\* The process ends, at any point (also after Close); a batch being written may be cut short.
Crash ==
  /\ ProcessEnds
  /\ \/ UNCHANGED disk
     \/ /\ pc = "write" /\ ~RelativeOverflows
        /\ disk' = [disk EXCEPT ![Active.base].tail = "short"]
  /\ UNCHANGED pending

\* The directory changes that may be lost together.
Losses == {lost \in SUBSET DOMAIN pending :
             Journaled => \A i \in lost, j \in DOMAIN pending : j > i => j \in lost}

\* A file keeps what was fsynced and any part of the rest.
Outcomes(f) ==
  {g \in {[batches |-> SubSeq(f.batches, 1, k), tail |-> t, synced |-> k] :
            k \in f.synced .. Len(f.batches), t \in {"none", "short", "bad"}} :
     g.tail # "none" => g.synced < Len(f.batches) \/ f.tail # "none"}

Unsynced(f) == f.synced < Len(f.batches) \/ f.tail # "none"

PowerFailure ==
  /\ ProcessEnds
  /\ \E lost \in Losses :
       LET gone == {pending[i].base : i \in {j \in lost : pending[j].op = "create"}}
           undone == {i \in lost : pending[i].op = "remove" /\ pending[i].base \notin gone}
           left == [b \in DOMAIN disk \ gone |-> disk[b]]
           back == [b \in {pending[i].base : i \in undone} |->
                      (CHOOSE r \in Range(pending) : r.op = "remove" /\ r.base = b).file]
           whole == [b \in DOMAIN left \cup DOMAIN back |->
                       IF b \in DOMAIN left THEN left[b] ELSE back[b]]
           exposed == {b \in DOMAIN whole : Unsynced(whole[b])}
       IN  \E g \in [exposed -> UNION {Outcomes(whole[b]) : b \in exposed}] :
             /\ \A b \in exposed : g[b] \in Outcomes(whole[b])
             /\ disk' = [b \in DOMAIN whole |->
                           IF b \in exposed THEN g[b] ELSE whole[b]]
  /\ pending' = <<>>
-----------------------------------------------------------------------------
Next ==
  \/ OpenStart \/ RecoverSegment \/ OpenDone \/ OpenFail
  \/ \E n \in 1 .. MaxRecords, ts \in Times : AppendStart(n, ts)
  \/ Roll \/ RollFail \/ RelativeOverflow \/ Write \/ WriteFail \/ Flush \/ FlushFail
  \/ \E now \in Times : RetentionStart(now)
  \/ RetainByAge \/ AgeDone \/ RetainBySize \/ SizeDone
  \/ Close \/ Crash

Spec == Init /\ [][Next]_vars

\* The same system on a machine that may also lose power.
PowerSpec == Init /\ [][Next \/ PowerFailure]_vars
-----------------------------------------------------------------------------
\* The variables have the types of the fields of Store and of its files; no
\* more of a file is known to be on stable storage than it holds.
TypeOK ==
  /\ DOMAIN disk \subseteq Nat
  /\ \A b \in DOMAIN disk : disk[b] \in File /\ disk[b].synced <= Len(disk[b].batches)
  /\ pending \in Seq(DirChange)
  /\ phase \in {"down", "opening", "open", "closed"}
  /\ segments \in Seq(Segment)
  /\ leo \in Nat /\ earliest \in Nat
  /\ writeFailed \in BOOLEAN
  /\ pc \in {"idle", "roll", "write", "flush", "age", "size"}
  /\ cur \in Batch
  /\ cutoff \in Int
  /\ sent \in Nat
  /\ acked \subseteq Batch

\* Store.segments always covers the offsets from earliestOffset to
\* logEndOffset without a gap or an overlap, through rolls, deletions that
\* half fail, failed writes and restarts.  Read's search for the first
\* segment whose nextOffset exceeds the requested offset relies on it.
SegmentsContiguous ==
  phase \in {"open", "closed"} =>
    /\ segments # <<>>
    /\ segments[1].base = earliest
    /\ Active.next = leo
    /\ \A i \in 1 .. Len(segments) - 1 : segments[i].next = segments[i + 1].base
    /\ \A i \in 1 .. Len(segments) - 1 : segments[i].base < segments[i].next

\* Segment s describes file f.
Matches(s, f) ==
  /\ s.next = End(s.base, f)
  /\ s.size = Bytes(s.base, f)
  /\ IsMaxTimestamp(s.maxTs, f)
  /\ Continuous(s.base, f.batches)
  /\ f.tail = "none"

\* While the store accepts writes, its incrementally kept state (segments,
\* next offsets, sizes, newest timestamps) is what OpenStore would rebuild
\* from the files: Append writes at the right position, and retention judges
\* a segment by the timestamps that are really in it.
MemoryMatchesDisk ==
  phase = "open" /\ ~writeFailed =>
    /\ DOMAIN disk = {segments[i].base : i \in DOMAIN segments}
    /\ \A i \in DOMAIN segments : Matches(segments[i], disk[segments[i].base])

\* recoverSegment and OpenStore's continuity check refuse no directory that
\* the store can leave behind when its process ends, at whatever point of
\* Append, ApplyRetention, Close or an earlier recovery that happens.
RecoveryAccepts ==
  phase = "opening" =>
    \A b \in Unopened : IsNext(b) => b = leo /\ Accepts(b, disk[b], Unopened = {b})

\* A batch that Append acknowledged stays in the files, with its offsets,
\* until retention deletes its segment.
AckedRetained ==
  \A x \in acked : \E b \in DOMAIN disk : x \in Range(disk[b].batches)

\* ApplyRetention never deletes the active segment, and by age it deletes
\* only files all of whose records are at or before the cutoff, whatever
\* the clock did between the appends and whether the newest timestamp was
\* tracked by Append or recomputed by recovery.
DeletesOnlyExpired ==
  [][\A b \in DOMAIN disk \ DOMAIN disk' :
       /\ \E c \in DOMAIN disk' : c > b
       /\ pc = "age" => \A x \in Range(disk[b].batches) : x.ts <= cutoff]_vars

\* After a power failure only the end of the active segment can be damaged:
\* the files still follow each other without a gap and every closed segment
\* is whole, because Append flushes a segment before it creates the next.
\* OpenStore can then refuse nothing but bytes it finds at the very end.
OnlyActiveTailDamaged ==
  phase = "opening" =>
    \A b \in Unopened : IsNext(b) =>
      /\ b = leo
      /\ Continuous(b, disk[b].batches)
      /\ Unopened # {b} => disk[b].tail = "none"
-----------------------------------------------------------------------------
(***************************************************************************)
(* The log that clients see: the batches in all files, from the base of    *)
(* the first file to the end of the last.                                  *)
(***************************************************************************)
Kept == UNION {Range(disk[b].batches) : b \in DOMAIN disk}
LogStart == IF DOMAIN disk = {} THEN 0 ELSE Min(DOMAIN disk)
LogEnd == IF DOMAIN disk = {} THEN 0 ELSE End(Max(DOMAIN disk), disk[Max(DOMAIN disk)])

Log == INSTANCE AbstractLog WITH
  calls <- sent, kept <- Kept, start <- LogStart, end <- LogEnd, acked <- acked

\* Files, rolls, failed writes, half-done deletions, recoveries and crashes
\* are invisible to clients: every step of the store is a step of the
\* abstract log or changes nothing in it.  Offsets are assigned once and in
\* sequence, an Append call adds at most one batch, and batches leave only
\* at the front, by retention.
ImplementsLog == Log!Spec

\* Whatever failed and whenever the process was restarted, every offset from
\* the first file to the log end lies in exactly one stored batch, no Append
\* call left two batches, and an acknowledged batch is one of them.
LogTiled == Log!Tiled
=============================================================================
