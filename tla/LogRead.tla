------------------------------ MODULE LogRead ------------------------------
(***************************************************************************)
(* Store.Read (internal/storage/store.go), loop by loop: find the first    *)
(* segment by binary search on the next offsets, find a starting batch by  *)
(* binary search in its sparse index, scan forward across batches and      *)
(* segments, skip records before the wanted offset, and stop at maxBytes,  *)
(* except that the first record is always returned.                        *)
(*                                                                         *)
(* Read holds Store.mu, so that the log does not change under it.  Between *)
(* reads the log grows in every way that the rules of PartitionLog and     *)
(* SegmentIndex allow: which batches begin a segment or have an index      *)
(* entry is left open.  A file position is the number of batches before    *)
(* it.                                                                     *)
(***************************************************************************)
EXTENDS Sequences, FiniteSetsExt, SortSearch

CONSTANTS
  Earliest,   \* Store.earliestOffset
  MaxLog,     \* bound: number of records in the log
  MaxSize,    \* bound: largest record size
  MaxBytes    \* bound: largest maxBytes of a call

ASSUME ReadAssumption ==
  Earliest \in Nat /\ MaxLog \in Nat /\ MaxSize \in Nat /\ MaxBytes \in Nat

VARIABLES
  segments,   \* Store.segments: base and next offset, batches, index entries
  sizes,      \* history: the sizes of the records in the log, in order
  reader      \* the call of Read: where it is, and its local variables

readVars == <<segments, sizes, reader>>

LogEnd == Earliest + Len(sizes)

\* NewSegment at the end of the log.
EmptySegment == [base |-> LogEnd, next |-> LogEnd, batches |-> <<>>, index |-> <<>>]

Idle == [pc |-> "idle", offset |-> 0, max |-> 0, seg |-> 0, pos |-> 0, rec |-> 0,
         curr |-> 0, recs |-> <<>>, bytes |-> 0, err |-> "none"]

ReadInit ==
  /\ sizes = <<>>
  /\ segments = <<EmptySegment>>
  /\ reader = Idle
-----------------------------------------------------------------------------
(***************************************************************************)
(* Store.Append, as far as Read can tell.                                  *)
(***************************************************************************)
BatchOf(ns) == [j \in 1 .. Len(ns) |-> [offset |-> LogEnd + j - 1, size |-> ns[j]]]

\* The segment with one more batch; the first batch always has an entry.
Extended(seg, ns, indexed) ==
  [base |-> seg.base, next |-> LogEnd + Len(ns), batches |-> Append(seg.batches, BatchOf(ns)),
   index |-> IF indexed \/ seg.index = <<>>
             THEN Append(seg.index, [rel |-> LogEnd - seg.base, pos |-> Len(seg.batches)])
             ELSE seg.index]

Active == segments[Len(segments)]

\* The batch goes to the active segment, or to a new one after a roll.
Grow(ns, indexed) ==
  /\ reader.pc = "idle"
  /\ Len(sizes) + Len(ns) <= MaxLog
  /\ \/ segments' = [segments EXCEPT ![Len(segments)] = Extended(Active, ns, indexed)]
     \/ /\ Active.batches # <<>>
        /\ segments' = Append(segments, Extended(EmptySegment, ns, indexed))
  /\ sizes' = sizes \o ns
  /\ UNCHANGED reader

\* An Append that failed after its roll, and the restart after it: the active
\* segment is empty.
RollOnly ==
  /\ reader.pc = "idle"
  /\ Active.batches # <<>>
  /\ segments' = Append(segments, EmptySegment)
  /\ UNCHANGED <<sizes, reader>>
-----------------------------------------------------------------------------
(***************************************************************************)
(* Store.Read.                                                             *)
(***************************************************************************)
Admitted(offset, max) == max > 0 /\ Earliest <= offset /\ offset <= LogEnd

\* The first segment that ends after the offset, counted from 0.
SegmentFor(offset) ==
  Search(Len(segments), [i \in 0 .. Len(segments) - 1 |-> segments[i + 1].next > offset])

StartRead(offset, max) ==
  /\ reader.pc = "idle"
  /\ LET call == [Idle EXCEPT !.offset = offset, !.max = max, !.curr = offset]
         first == SegmentFor(offset)
         refused == [call EXCEPT !.pc = "failed", !.err = "refused"]
     IN  \/ ~Admitted(offset, max) /\ reader' = refused
         \/ Admitted(offset, max) /\ offset = LogEnd /\ reader' = [call EXCEPT !.pc = "done"]
         \/ /\ Admitted(offset, max) /\ offset # LogEnd
            /\ reader' = IF first >= Len(segments) THEN refused
                         ELSE [call EXCEPT !.pc = "segment", !.seg = first]
  /\ UNCHANGED <<segments, sizes>>

\* Mutant: the entry after the wanted offset is used.
ScanFrom_After(seg, offset) ==
  LET k == Search(Len(seg.index),
                  [j \in 0 .. Len(seg.index) - 1 |-> seg.base + seg.index[j + 1].rel >= offset])
  IN  IF k = Len(seg.index) THEN 0 ELSE seg.index[k + 1].pos

\* Where the scan of a segment starts.
ScanFrom(seg, offset) ==
  LET k == Search(Len(seg.index),
                  [j \in 0 .. Len(seg.index) - 1 |-> seg.base + seg.index[j + 1].rel > offset])
  IN  IF k = 0 THEN 0 ELSE seg.index[k].pos

ReaderTo(r) == reader' = r /\ UNCHANGED <<segments, sizes>>

\* The loop over the segments.
EnterSegment ==
  /\ reader.pc = "segment" /\ reader.seg < Len(segments)
  /\ ReaderTo([reader EXCEPT !.pc = "batch",
                             !.pos = ScanFrom(segments[reader.seg + 1], reader.curr)])

EndOfLog ==
  /\ reader.pc = "segment" /\ reader.seg >= Len(segments)
  /\ ReaderTo([reader EXCEPT !.pc = "done"])

\* The loop over the batches of a segment.
Batches == segments[reader.seg + 1].batches

EnterBatch ==
  /\ reader.pc = "batch" /\ reader.pos < Len(Batches)
  /\ ReaderTo([reader EXCEPT !.pc = "record", !.rec = 0])

\* ReadAt or DecodeBatch fails.
BatchUnreadable ==
  /\ reader.pc = "batch" /\ reader.pos < Len(Batches)
  /\ ReaderTo([reader EXCEPT !.pc = "failed", !.err = "read"])

LeaveSegment ==
  /\ reader.pc = "batch" /\ reader.pos >= Len(Batches)
  /\ ReaderTo([reader EXCEPT !.pc = "segment", !.seg = @ + 1])

\* The loop over the records of a batch.
Scanned == Batches[reader.pos + 1]

\* The record does not fit any more; the first one always does.
Exceeds(r) == reader.recs # <<>> /\ reader.bytes + r.size > reader.max

ScanRecord ==
  /\ reader.pc = "record" /\ reader.rec < Len(Scanned)
  /\ LET r == Scanned[reader.rec + 1]
     IN  \/ r.offset < reader.curr /\ ReaderTo([reader EXCEPT !.rec = @ + 1])
         \/ /\ r.offset >= reader.curr /\ Exceeds(r)
            /\ ReaderTo([reader EXCEPT !.pc = "done"])
         \/ /\ r.offset >= reader.curr /\ ~Exceeds(r)
            /\ ReaderTo([reader EXCEPT !.rec = @ + 1, !.recs = Append(@, r),
                                       !.bytes = @ + r.size, !.curr = r.offset + 1])

LeaveBatch ==
  /\ reader.pc = "record" /\ reader.rec >= Len(Scanned)
  /\ ReaderTo([reader EXCEPT !.pc = "batch", !.pos = @ + 1])

Return ==
  /\ reader.pc \in {"done", "failed"}
  /\ ReaderTo(Idle)

ReadStep ==
  \/ EnterSegment \/ EndOfLog \/ EnterBatch \/ BatchUnreadable \/ LeaveSegment
  \/ ScanRecord \/ LeaveBatch \/ Return

\* The record sizes of a batch that still fits into the bound.
NewBatches == UNION {[1 .. n -> 1 .. MaxSize] : n \in 1 .. MaxLog - Len(sizes)}

ReadNext ==
  \/ \E ns \in NewBatches, indexed \in BOOLEAN : Grow(ns, indexed)
  \/ RollOnly
  \/ \E offset \in (Earliest - 1 .. LogEnd + 1) \cap Nat, max \in 0 .. MaxBytes : StartRead(offset, max)
  \/ ReadStep

ReadSpec == ReadInit /\ [][ReadNext]_readVars
-----------------------------------------------------------------------------
RecordAt(o) == [offset |-> o, size |-> sizes[o - Earliest + 1]]

\* The bytes of the records from offset lo to hi - 1.
SizeOf(lo, hi) == MapThenSumSet(LAMBDA o : RecordAt(o).size, lo .. hi - 1)

\* Read returns exactly what a scan of the whole log would give: the records
\* from the wanted offset in order, without a gap, as many as fit into maxBytes
\* and at least one, wherever segments, batches and index entries begin; and
\* it refuses only an offset outside the log or a limit of zero.  A consumer
\* therefore gets to the end of the log with any limits, even when each is
\* smaller than every record.
ReadExact ==
  LET end == reader.offset + Len(reader.recs)
  IN  /\ reader.err = "refused" => ~Admitted(reader.offset, reader.max)
      /\ reader.pc = "done" =>
           /\ \A i \in DOMAIN reader.recs : reader.recs[i] = RecordAt(reader.offset + i - 1)
           /\ reader.offset < LogEnd => reader.recs # <<>>
           /\ Len(reader.recs) > 1 => SizeOf(reader.offset, end) <= reader.max
           /\ end < LogEnd => SizeOf(reader.offset, end + 1) > reader.max
=============================================================================
