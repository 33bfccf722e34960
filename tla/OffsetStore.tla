----------------------------- MODULE OffsetStore -----------------------------
(***************************************************************************)
(* The consumer-offset log: offsets.Store (internal/offsets/store.go).     *)
(*                                                                         *)
(* One append-only file holds an entry for every commit.  Commit writes    *)
(* the entry at the known size, fsyncs, and only then moves the size and   *)
(* the in-memory map.  OpenStore replays the file entry by entry and cuts  *)
(* off an incomplete last entry.  After a failed write or fsync the store  *)
(* refuses every call until the broker restarts.                           *)
(*                                                                         *)
(* An entry is its key (group, topic, partition) and the number of the     *)
(* commit that wrote it, which stands for the committed offset: offsets    *)
(* may go backwards and repeat, the number tells the commits apart.  The   *)
(* process may crash at any step, and the machine may lose power and what  *)
(* was not fsynced.  The file's own directory entry is taken to be durable *)
(* once the file has been fsynced.                                         *)
(***************************************************************************)
EXTENDS Integers, Sequences

CONSTANTS
  Keys,       \* (group, topic, partition)
  MaxCommits  \* bound: number of Commit calls

ASSUME MaxCommitsAssumption == MaxCommits \in Nat

VARIABLES
  file,        \* the offset log
  phase,       \* "down", "opening", "open" or "closed"
  offsets,     \* Store.offsets: key -> number of the commit, 0 when absent
  size,        \* Store.size, in entries; recover's position
  writeFailed, \* Store.writeFailed
  pc,          \* where the Commit that holds Store.mu is
  cur,         \* the entry of the running Commit
  commits,     \* history: number of Commit calls
  acked        \* history: key -> number of the last commit that succeeded

storeVars == <<file, phase, offsets, size, writeFailed, pc, cur, commits, acked>>

\* What follows the complete entries is nothing, an incomplete entry, or
\* bytes that fail the magic, length or CRC check.
Entry == [key : Keys, id : Nat]
File == [entries : Seq(Entry), tail : {"none", "short", "bad"}, synced : Nat]

Absent == [k \in Keys |-> 0]

StoreInit ==
  /\ file = [entries |-> <<>>, tail |-> "none", synced |-> 0]
  /\ phase = "down"
  /\ offsets = Absent
  /\ size = 0
  /\ writeFailed = FALSE
  /\ pc = "idle"
  /\ cur \in [key : Keys, id : {0}]
  /\ commits = 0
  /\ acked = Absent
-----------------------------------------------------------------------------
(***************************************************************************)
(* OpenStore and recover.                                                  *)
(***************************************************************************)
OpenStart ==
  /\ phase = "down"
  /\ phase' = "opening"
  /\ offsets' = Absent
  /\ size' = 0
  /\ writeFailed' = FALSE
  /\ UNCHANGED <<file, pc, cur, commits, acked>>

Replayed(e) == [offsets EXCEPT ![e.key] = e.id]

RecoverEntry ==
  /\ phase = "opening"
  /\ size < Len(file.entries)
  /\ offsets' = Replayed(file.entries[size + 1])
  /\ size' = size + 1
  /\ UNCHANGED <<file, phase, writeFailed, pc, cur, commits, acked>>

\* Mutant: the complete entry before the incomplete one is cut off too.
Truncated_TooFar(f) ==
  [entries |-> SubSeq(f.entries, 1, Len(f.entries) - 1), tail |-> "none",
   synced |-> Len(f.entries) - 1]

\* truncateAndSync: the incomplete entry is cut off and the file fsynced.
Truncated(f) == [f EXCEPT !.tail = "none", !.synced = Len(f.entries)]

\* The end of the file: an incomplete entry is cut off.
RecoverDone ==
  /\ phase = "opening"
  /\ size = Len(file.entries)
  /\ \/ file.tail = "none" /\ UNCHANGED file
     \/ file.tail = "short" /\ file' = Truncated(file)
  /\ phase' = "open"
  /\ UNCHANGED <<offsets, size, writeFailed, pc, cur, commits, acked>>

\* Corrupt bytes, or a failed file operation, which may have truncated.
RecoverFail ==
  /\ phase = "opening"
  /\ phase' = "down"
  /\ \/ UNCHANGED file
     \/ file.tail = "short" /\ file' = [file EXCEPT !.tail = "none"]
  /\ UNCHANGED <<offsets, size, writeFailed, pc, cur, commits, acked>>
-----------------------------------------------------------------------------
(***************************************************************************)
(* Commit.  A call on a closed or failed store returns an error.           *)
(***************************************************************************)
CommitStart(k) ==
  /\ phase = "open" /\ pc = "idle" /\ ~writeFailed
  /\ commits < MaxCommits
  /\ commits' = commits + 1
  /\ cur' = [key |-> k, id |-> commits + 1]
  /\ pc' = "write"
  /\ UNCHANGED <<file, phase, offsets, size, writeFailed, acked>>

CommitWrite ==
  /\ pc = "write"
  /\ file' = [file EXCEPT !.entries = Append(SubSeq(@, 1, size), cur)]
  /\ pc' = "sync"
  /\ UNCHANGED <<phase, offsets, size, writeFailed, cur, commits, acked>>

\* Mutant: the store stays usable after a failed write or fsync.
Poisoned_Not == writeFailed

\* Store.writeFailed after a failed write or fsync.
Poisoned == TRUE

\* WriteAt fails; nothing or a part of the entry is in the file.
CommitWriteFail ==
  /\ pc = "write"
  /\ \/ UNCHANGED file
     \/ file' = [file EXCEPT !.tail = "short"]
  /\ writeFailed' = Poisoned
  /\ pc' = "idle"
  /\ UNCHANGED <<phase, offsets, size, cur, commits, acked>>

\* Mutant: success is reported without an fsync.
Fsynced_Not(f) == f

Fsynced(f) == [f EXCEPT !.synced = Len(f.entries)]

CommitSync ==
  /\ pc = "sync"
  /\ file' = Fsynced(file)
  /\ size' = size + 1
  /\ offsets' = [offsets EXCEPT ![cur.key] = cur.id]
  /\ acked' = [acked EXCEPT ![cur.key] = cur.id]
  /\ pc' = "idle"
  /\ UNCHANGED <<phase, writeFailed, cur, commits>>

\* The fsync fails: the entry stays in the file, size and map stay behind.
CommitSyncFail ==
  /\ pc = "sync"
  /\ writeFailed' = Poisoned
  /\ pc' = "idle"
  /\ UNCHANGED <<file, phase, offsets, size, cur, commits, acked>>
-----------------------------------------------------------------------------
Close ==
  /\ phase = "open" /\ pc = "idle"
  /\ phase' = "closed"
  /\ \/ UNCHANGED file
     \/ ~writeFailed /\ file' = Fsynced(file)
  /\ UNCHANGED <<offsets, size, writeFailed, pc, cur, commits, acked>>

ProcessEnds ==
  /\ phase # "down"
  /\ phase' = "down"
  /\ pc' = "idle"
  /\ UNCHANGED <<offsets, size, writeFailed, cur, commits, acked>>

\* The process ends at any point; an entry being written may be cut short.
Crash ==
  /\ ProcessEnds
  /\ \/ UNCHANGED file
     \/ pc = "write" /\ file' = [file EXCEPT !.tail = "short"]

\* The machine stops; of what was not fsynced any part may be left.
PowerFailure ==
  /\ ProcessEnds
  /\ \E k \in file.synced .. Len(file.entries), t \in {"none", "short", "bad"} :
       /\ t # "none" => k < Len(file.entries) \/ file.tail # "none"
       /\ file' = [entries |-> SubSeq(file.entries, 1, k), tail |-> t, synced |-> k]

StoreNext ==
  \/ OpenStart \/ RecoverEntry \/ RecoverDone \/ RecoverFail
  \/ \E k \in Keys : CommitStart(k)
  \/ CommitWrite \/ CommitWriteFail \/ CommitSync \/ CommitSyncFail
  \/ Close \/ Crash \/ PowerFailure

StoreSpec == StoreInit /\ [][StoreNext]_storeVars
-----------------------------------------------------------------------------
\* The fields of Store and its file; the fsynced entries are in the file.
StoreTypeOK ==
  /\ file \in File /\ file.synced <= Len(file.entries)
  /\ phase \in {"down", "opening", "open", "closed"}
  /\ offsets \in [Keys -> Nat] /\ acked \in [Keys -> Nat]
  /\ size \in Nat /\ commits \in Nat
  /\ writeFailed \in BOOLEAN
  /\ pc \in {"idle", "write", "sync"}
  /\ cur \in Entry

\* id is the last of the first n entries of the file for key k, 0 if none.
IsLatest(id, k, n) ==
  \/ id = 0 /\ \A i \in 1 .. n : file.entries[i].key # k
  \/ \E i \in 1 .. n :
       /\ file.entries[i] = [key |-> k, id |-> id]
       /\ \A j \in i + 1 .. n : file.entries[j].key # k

\* While the store serves calls, its map is what a restart would recover
\* and its size is the end of the file, so the next WriteAt neither leaves
\* a hole nor overwrites an entry that Get reports.
MapIsReplay ==
  phase = "open" /\ pc = "idle" /\ ~writeFailed =>
    /\ size = Len(file.entries) /\ file.tail = "none"
    /\ \A k \in Keys : IsLatest(offsets[k], k, size)

\* Committed offsets survive crashes and power failures: whatever Get
\* reports after any number of restarts comes from the last commit that
\* succeeded for the key, or from a later one that was reported as failed.
AckedSurvives ==
  phase = "open" => \A k \in Keys : offsets[k] >= acked[k]
=============================================================================
