---------------------------- MODULE SegmentIndex ----------------------------
(***************************************************************************)
(* The sparse offset index of one segment: the index half of               *)
(* storage.Segment and recoverSegment, validateIndexEntries and            *)
(* rebuildIndex of storage.Store.                                          *)
(*                                                                         *)
(* The index is derived data.  Append adds an entry to memory and to the   *)
(* file every IndexInterval bytes and ignores a failed index write; the    *)
(* index may be older or newer than the log after a crash, and a new       *)
(* segment may find an index file that was left by an earlier one of the   *)
(* same name.  OpenStore keeps an index that agrees with the log and       *)
(* rebuilds any other.  Read trusts the entries in memory.                 *)
(*                                                                         *)
(* The log is abstracted to the start of every batch: the offset relative  *)
(* to the segment's base and the position in the file.                     *)
(***************************************************************************)
EXTENDS Sequences, SortSearch

CONSTANTS
  IndexInterval, \* storage.index_interval_bytes
  HeaderBytes,   \* encoded size of a batch header
  MaxRecords,    \* bound: most records in one batch, of one byte each
  MaxBatches,    \* bound: number of batches in the segment
  MaxOpens       \* bound: number of times the store is opened

ASSUME IndexAssumption ==
  IndexInterval \in Nat /\ HeaderBytes \in Nat \ {0} /\ MaxRecords \in Nat \ {0}

VARIABLES
  log,          \* the complete batches of the log file: [rel, pos]
  next, bytes,  \* the relative offset and the position after the last one
  logSynced,    \* history: number of batches on stable storage
  index,        \* the whole entries in the index file
  ragged,       \* the index file's size is no multiple of an entry
  indexSynced,  \* history: number of entries on stable storage
  phase,        \* "down" or "open"
  entries,      \* Segment.indexEntries
  lastIndexed,  \* Segment.lastIndexedPosition
  indexSize,    \* Segment.indexSize, in entries; -1 when it is ragged
  indexDirty,   \* Segment.indexDirty
  pc,           \* "idle", or "index" between the log write and the index
  damaged,      \* history: the index file was not written by Append alone
  opens         \* number of times the store was opened

logVars == <<log, next, bytes, logSynced>>
fileVars == <<index, ragged, indexSynced>>
memVars == <<entries, lastIndexed, indexSize, indexDirty>>
vars == <<logVars, fileVars, phase, memVars, pc, damaged, opens>>

IndexEntry == [rel : Nat, pos : Nat]

\* What an index file may hold when a segment is created: nothing, or the
\* entries of an earlier file of that name, whole or cut short.
LeftOver == {<<>>} \cup
  {<<[rel |-> 0, pos |-> 0], [rel |-> r, pos |-> IndexInterval + p]>> :
     r \in 1 .. IndexInterval, p \in 0 .. MaxRecords}

Init ==
  /\ log = <<>> /\ next = 0 /\ bytes = 0 /\ logSynced = 0
  /\ index \in LeftOver /\ ragged \in BOOLEAN /\ indexSynced = 0
  /\ phase = "open"
  /\ entries = <<>> /\ lastIndexed = -1
  /\ indexSize = IF ragged THEN -1 ELSE Len(index)
  /\ indexDirty = FALSE
  /\ pc = "idle" /\ opens = 1
  /\ damaged = (ragged \/ index # <<>>)
-----------------------------------------------------------------------------
(***************************************************************************)
(* Store.Append: the batch, then its index entry.                          *)
(***************************************************************************)
AppendBatch(n) ==
  /\ phase = "open" /\ pc = "idle"
  /\ Len(log) < MaxBatches
  /\ log' = Append(log, [rel |-> next, pos |-> bytes])
  /\ next' = next + n
  /\ bytes' = bytes + HeaderBytes + n
  /\ pc' = "index"
  /\ UNCHANGED <<logSynced, fileVars, phase, memVars, damaged, opens>>

ShouldIndex(es, last, pos) == es = <<>> \/ pos - last >= IndexInterval

Newest == log[Len(log)]

SkipEntry ==
  /\ pc = "index" /\ ~ShouldIndex(entries, lastIndexed, Newest.pos)
  /\ pc' = "idle"
  /\ UNCHANGED <<logVars, fileVars, phase, memVars, damaged, opens>>

\* Mutant: the entry points to the end of the batch.
EntryFor_End(x) == [rel |-> x.rel, pos |-> bytes]

EntryFor(x) == [rel |-> x.rel, pos |-> x.pos]

\* AppendIndexEntry keeps the entry in memory even when the write fails, and
\* a failed write leaves the known size alone: the next one overwrites it.
\* A write at a ragged size leaves the file ragged.
AppendIndexEntry ==
  /\ pc = "index" /\ ShouldIndex(entries, lastIndexed, Newest.pos)
  /\ entries' = Append(entries, EntryFor(Newest))
  /\ lastIndexed' = Newest.pos
  /\ indexDirty' = TRUE
  /\ \/ indexSize = -1 /\ UNCHANGED <<index, ragged, indexSize, damaged>>
     \/ /\ indexSize >= 0
        /\ index' = Append(index, EntryFor(Newest))
        /\ ragged' = FALSE
        /\ indexSize' = indexSize + 1
        /\ UNCHANGED damaged
     \/ /\ indexSize >= 0
        /\ ragged' \in {ragged, TRUE}
        /\ damaged' = TRUE
        /\ UNCHANGED <<index, indexSize>>
  /\ UNCHANGED indexSynced
  /\ pc' = "idle"
  /\ UNCHANGED <<logVars, phase, opens>>

\* Flush, at a roll, in Close and after every batch in sync mode: the log
\* first, then a dirty index, whose fsync may fail.
Flush ==
  /\ phase = "open" /\ pc = "idle"
  /\ logSynced' = Len(log)
  /\ \/ /\ indexDirty
        /\ indexSynced' = Len(index)
        /\ indexDirty' = FALSE
     \/ UNCHANGED <<indexSynced, indexDirty>>
  /\ UNCHANGED <<log, next, bytes, index, ragged, phase, entries, lastIndexed,
                 indexSize, pc, damaged, opens>>
-----------------------------------------------------------------------------
\* The process ends at any step; an entry being written may be cut short.
Crash ==
  /\ phase = "open"
  /\ phase' = "down"
  /\ pc' = "idle"
  /\ \/ UNCHANGED <<ragged, damaged>>
     \/ /\ pc = "index" /\ ShouldIndex(entries, lastIndexed, Newest.pos)
        /\ ragged' = TRUE /\ damaged' = TRUE
  /\ UNCHANGED <<logVars, index, indexSynced, memVars, opens>>

\* Of what was not fsynced any part may be left in either file; the log is
\* cut back to complete batches when it is opened.  Lost index blocks may
\* read as anything: here, as an entry that repeats the first.
PowerFailure ==
  /\ phase = "open"
  /\ \E k \in logSynced .. Len(log) :
       /\ log' = SubSeq(log, 1, k)
       /\ next' = IF k = Len(log) THEN next ELSE log[k + 1].rel
       /\ bytes' = IF k = Len(log) THEN bytes ELSE log[k + 1].pos
       /\ logSynced' = k
  /\ \E k \in indexSynced .. Len(index) :
       /\ index' \in {SubSeq(index, 1, k)} \cup
                     {[index EXCEPT ![i] = index[1]] : i \in k + 1 .. Len(index)}
       /\ indexSynced' = k
  /\ ragged' \in BOOLEAN
  /\ damaged' = TRUE
  /\ phase' = "down"
  /\ pc' = "idle"
  /\ UNCHANGED <<memVars, opens>>
-----------------------------------------------------------------------------
(***************************************************************************)
(* recoverSegment, the index part.                                         *)
(***************************************************************************)
\* ReadIndexEntries: whole entries, the first at the start, in order.
Readable ==
  /\ ~ragged
  /\ index # <<>> => index[1] = [rel |-> 0, pos |-> 0]
  /\ \A i \in 2 .. Len(index) :
       index[i].rel > index[i - 1].rel /\ index[i].pos > index[i - 1].pos

\* Mutant: only the positions are checked, not the offsets found there.
PointsToBatch_AnyOffset(e) == \E i \in 1 .. Len(log) : e.pos = log[i].pos

\* The position lies in the log, a batch starts there and has the offset.
PointsToBatch(e) == \E i \in 1 .. Len(log) : e = log[i]

\* validateIndexEntries.
Valid ==
  /\ Readable
  /\ index = <<>> => log = <<>>
  /\ \A i \in 1 .. Len(index) : PointsToBatch(index[i])

LastPosition(es) == IF es = <<>> THEN -1 ELSE es[Len(es)].pos

\* The batch x after the entries es: a new entry, or none when one is near.
Indexed(es, x) ==
  IF ShouldIndex(es, LastPosition(es), x.pos) THEN Append(es, EntryFor(x)) ELSE es

\* rebuildIndex: one pass over the batches, as Append would have done it.
Rebuilt ==
  LET built[k \in 0 .. Len(log)] ==
        IF k = 0 THEN <<>> ELSE Indexed(built[k - 1], log[k])
  IN  built[Len(log)]

\* A rebuilt index is synced, renamed over the old one and the directory
\* synced; an error on the way fails the start and changes nothing.
Open ==
  /\ phase = "down" /\ opens < MaxOpens
  /\ phase' = "open" /\ opens' = opens + 1
  /\ IF Valid
     THEN entries' = index /\ UNCHANGED <<index, indexSynced, damaged>>
     ELSE /\ entries' = Rebuilt /\ index' = Rebuilt /\ indexSynced' = Len(Rebuilt)
          /\ damaged' = FALSE
  /\ ragged' = FALSE
  /\ lastIndexed' = LastPosition(entries')
  /\ indexSize' = Len(entries')
  /\ indexDirty' = FALSE
  /\ UNCHANGED <<logVars, pc>>

\* The bounds are used up.
Terminated ==
  /\ phase = "down" /\ opens = MaxOpens
  /\ UNCHANGED vars

Next ==
  \/ \E n \in 1 .. MaxRecords : AppendBatch(n)
  \/ SkipEntry \/ AppendIndexEntry \/ Flush
  \/ Crash \/ PowerFailure \/ Open \/ Terminated

Spec == Init /\ [][Next]_vars
-----------------------------------------------------------------------------
\* Read: the position where the scan for a relative offset starts.
StartPos(o) ==
  LET k == Search(Len(entries), [j \in 0 .. Len(entries) - 1 |-> entries[j + 1].rel > o])
  IN  IF k = 0 THEN 0 ELSE entries[k].pos
-----------------------------------------------------------------------------
\* The fields of Segment and what its index file holds.
IndexTypeOK ==
  /\ entries \in Seq(IndexEntry) /\ index \in Seq(IndexEntry)
  /\ phase = "open" => indexSize \in -1 .. Len(index)
  /\ indexSynced \in 0 .. Len(index) /\ logSynced \in 0 .. Len(log)
  /\ lastIndexed = LastPosition(entries)

\* Whatever the index went through (failed and partial writes, crashes with
\* either file ahead of the other, a left-over index file), Read's binary
\* search over the entries in memory starts at a batch that begins at or
\* before the wanted offset, and no other indexed batch is closer.
LookupSound ==
  phase = "open" /\ pc = "idle" =>
    \A o \in 0 .. next - 1 :
      /\ \E i \in 1 .. Len(log) : log[i].pos = StartPos(o) /\ log[i].rel <= o
      /\ \A i \in 1 .. Len(entries) : entries[i].rel <= o => entries[i].pos <= StartPos(o)

\* An index that no failed write, power failure or left-over file touched is
\* kept: what Append writes entry by entry passes validateIndexEntries after
\* a crash between any two steps, and a rebuild is never needed for it.  (An
\* index that lacks even its first entry is rebuilt.)
UndamagedKept ==
  phase = "down" /\ ~damaged /\ index # <<>> => Valid
=============================================================================
