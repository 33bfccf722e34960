---------------------------- MODULE TopicManager ----------------------------
(***************************************************************************)
(* Topics: topic.Manager (internal/topic/manager.go).  A topic exists on   *)
(* disk as one directory per partition and as an entry of topics.json,     *)
(* which is replaced by a rename; in memory it is an entry of              *)
(* Manager.topics.  CreateTopic makes the directories first, renames the   *)
(* metadata file into place and publishes the topic last; an error before  *)
(* the rename removes the directories again.  NewManager rebuilds memory   *)
(* from topics.json and refuses to start when a directory is missing; but  *)
(* when os.Stat of the file fails, it starts without any topic, and        *)
(* CreateTopic does not refuse the ones it did not load.                   *)
(*                                                                         *)
(* CreateTopic holds Manager.mu throughout; a crash may come between any   *)
(* two of its steps, and requests on published topics go on meanwhile.     *)
(*                                                                         *)
(* Directory changes become durable in order and no later than the next    *)
(* fsync, as in PartitionLog with Journaled; a power failure takes back    *)
(* the ones since then from some point on.  Produce is in sync mode.       *)
(***************************************************************************)
EXTENDS Integers

CONSTANTS
  Topics,         \* topic names
  MaxPartitions,  \* bound: partitions of a topic
  MaxCreations    \* bound: calls of CreateTopic that are not refused

ASSUME TopicAssumption == MaxPartitions \in Nat \ {0} /\ MaxCreations \in Nat

VARIABLES
  dirs,         \* partition directories: topic -> set of partitions
  meta,         \* topics.json: topic -> partition count, 0 when absent
  managerPhase, \* "down" or "open"
  topics,       \* Manager.topics: topic -> partition count, 0 when absent
  creating,     \* where the CreateTopic that holds Manager.mu is
  creation,     \* its topic and partition count, the directories it made, and
                \* how many calls there were
  created,      \* history: partition counts of topics that were created
  data,         \* history: partitions with acknowledged records
  snaps,        \* the directories and metadata that a power failure may leave
  warned,       \* history: topics created since the last fsync whose sync failed
  missed,       \* history: topics in topics.json that this process did not load
  recreated     \* history: topics for which CreateTopic ran although missed

media == <<snaps, warned>>
overlooked == <<missed, recreated>>
managerVars ==
  <<dirs, meta, managerPhase, topics, creating, creation, created, data, media, overlooked>>

Partitions == 1 .. MaxPartitions
None == [t \in Topics |-> 0]

Snapshot == [dirs : [Topics -> SUBSET Partitions], meta : [Topics -> 0 .. MaxPartitions]]

\* A change of the directory d or the metadata m that is not yet durable.
Changed(d, m) == snaps' = snaps \cup {[dirs |-> d, meta |-> m]} /\ UNCHANGED warned

\* Everything so far is durable.
Flushed == snaps' = {[dirs |-> dirs, meta |-> meta]} /\ warned' = {}

ManagerInit ==
  /\ dirs = [t \in Topics |-> {}]
  /\ meta = None
  /\ managerPhase = "down"
  /\ topics = None
  /\ creating = "idle"
  /\ creation \in [name : Topics, count : {1}, made : {0}, calls : {0}]
  /\ created = None
  /\ data = [t \in Topics |-> {}]
  /\ snaps = {[dirs |-> dirs, meta |-> meta]}
  /\ warned = {}
  /\ missed = {} /\ recreated = {}
-----------------------------------------------------------------------------
HasDirectories(t) == 1 .. meta[t] \subseteq dirs[t]

\* NewManager: every directory that the metadata names is there.
Open ==
  /\ managerPhase = "down" /\ \A t \in Topics : HasDirectories(t)
  /\ managerPhase' = "open"
  /\ topics' = meta
  /\ UNCHANGED <<dirs, meta, creating, creation, created, data, media, overlooked>>

\* NewManager: os.Stat of topics.json fails with any error, and the manager
\* starts with no topics and reports nothing.
OpenUnread ==
  /\ managerPhase = "down"
  /\ managerPhase' = "open"
  /\ topics' = None
  /\ missed' = {t \in Topics : meta[t] # 0}
  /\ UNCHANGED <<dirs, meta, creating, creation, created, data, media, recreated>>

\* Mutant: an existing topic is not refused.
CreateTopic_NoExistsCheck(t, n) ==
  /\ managerPhase = "open" /\ creating = "idle"
  /\ creation.calls < MaxCreations
  /\ creation' = [name |-> t, count |-> n, made |-> 0, calls |-> creation.calls + 1]
  /\ creating' = "directories"
  /\ recreated' = recreated \cup ({t} \cap missed)
  /\ UNCHANGED <<dirs, meta, managerPhase, topics, created, data, media, missed>>

CreateTopic(t, n) ==
  /\ managerPhase = "open" /\ creating = "idle"
  /\ topics[t] = 0
  /\ creation.calls < MaxCreations
  /\ creation' = [name |-> t, count |-> n, made |-> 0, calls |-> creation.calls + 1]
  /\ creating' = "directories"
  /\ recreated' = recreated \cup ({t} \cap missed)
  /\ UNCHANGED <<dirs, meta, managerPhase, topics, created, data, media, missed>>

\* Mutant: one directory too many.
NeedsDirectory_OneMore == creation.made <= creation.count

NeedsDirectory == creation.made < creation.count

\* partition.NewLog creates the directory, or opens one that was left over.
MakeDirectory ==
  /\ creating = "directories" /\ NeedsDirectory
  /\ dirs' = [dirs EXCEPT ![creation.name] = @ \cup {creation.made + 1}]
  /\ Changed(dirs', meta)
  /\ creation' = [creation EXCEPT !.made = @ + 1]
  /\ UNCHANGED <<meta, managerPhase, topics, creating, created, data, overlooked>>

\* partition.NewLog fails, with or without having made the directory, which
\* is on the list of directories to remove in either case.
MakeDirectoryFail ==
  /\ creating = "directories" /\ NeedsDirectory
  /\ \/ UNCHANGED dirs
     \/ dirs' = [dirs EXCEPT ![creation.name] = @ \cup {creation.made + 1}]
  /\ Changed(dirs', meta)
  /\ creation' = [creation EXCEPT !.made = @ + 1]
  /\ creating' = "rollback"
  /\ UNCHANGED <<meta, managerPhase, topics, created, data, overlooked>>

\* Mutant: the other topics are not carried over into the new file.
Merged_Fresh == [None EXCEPT ![creation.name] = creation.count]

\* The topics in the file plus the new one.
Merged == [meta EXCEPT ![creation.name] = creation.count]

\* saveMetadata up to the rename: the new file is fsynced before it.
SaveMetadata ==
  /\ creating = "directories" /\ ~NeedsDirectory
  /\ meta' = Merged
  /\ snaps' = {[dirs |-> dirs, meta |-> meta], [dirs |-> dirs, meta |-> Merged]}
  /\ warned' = {}
  /\ creating' = "publish"
  /\ UNCHANGED <<dirs, managerPhase, topics, creation, created, data, overlooked>>

\* An error before or after the fsync of the new file.
SaveMetadataFail ==
  /\ creating = "directories" /\ ~NeedsDirectory
  /\ Flushed \/ UNCHANGED media
  /\ creating' = "rollback"
  /\ UNCHANGED <<dirs, meta, managerPhase, topics, creation, created, data, overlooked>>

\* Errors of the removal are ignored, and a crash may interrupt it.
Rollback ==
  /\ creating = "rollback"
  /\ \E removed \in SUBSET (1 .. creation.made) : dirs' = [dirs EXCEPT ![creation.name] = @ \ removed]
  /\ Changed(dirs', meta)
  /\ creating' = "idle"
  /\ UNCHANGED <<meta, managerPhase, topics, creation, created, data, overlooked>>

\* Mutant: a failed sync of the metadata directory fails the call.
Publish_OnlyIfSynced ==
  /\ creating = "publish"
  /\ creating' = "idle"
  /\ \/ /\ Flushed
        /\ topics' = [topics EXCEPT ![creation.name] = creation.count]
        /\ created' = [created EXCEPT ![creation.name] = creation.count]
     \/ UNCHANGED <<topics, created, media>>
  /\ UNCHANGED <<dirs, meta, managerPhase, creation, data, overlooked>>

\* Mutant: the metadata directory is not synced.
Publish_NoSync ==
  /\ creating = "publish"
  /\ topics' = [topics EXCEPT ![creation.name] = creation.count]
  /\ created' = [created EXCEPT ![creation.name] = creation.count]
  /\ creating' = "idle"
  /\ UNCHANGED <<dirs, meta, managerPhase, creation, data, media, overlooked>>

\* The directory of topics.json is synced; the topic is published even when
\* that fails, because the rename stands.
Publish ==
  /\ creating = "publish"
  /\ \/ Flushed
     \/ warned' = warned \cup {creation.name} /\ UNCHANGED snaps
  /\ topics' = [topics EXCEPT ![creation.name] = creation.count]
  /\ created' = [created EXCEPT ![creation.name] = creation.count]
  /\ creating' = "idle"
  /\ UNCHANGED <<dirs, meta, managerPhase, creation, data, overlooked>>

\* A record is fsynced and acknowledged on a partition of a published topic.
Produce(t, p) ==
  /\ managerPhase = "open" /\ p <= topics[t]
  /\ Flushed
  /\ data' = [data EXCEPT ![t] = @ \cup {p}]
  /\ UNCHANGED <<dirs, meta, managerPhase, topics, creating, creation, created, overlooked>>

\* The process ends, by Close or at any step of CreateTopic.
ManagerCrash ==
  /\ managerPhase = "open"
  /\ managerPhase' = "down"
  /\ topics' = None
  /\ creating' = "idle"
  /\ missed' = {}
  /\ UNCHANGED <<dirs, meta, creation, created, data, media, recreated>>

\* The creation of a topic is not promised to survive when the sync of the
\* metadata directory failed and nothing was fsynced since.
ManagerPowerFailure ==
  \E s \in snaps :
    /\ dirs' = s.dirs /\ meta' = s.meta
    /\ snaps' = {s} /\ warned' = {}
    /\ created' = [t \in Topics |-> IF t \in warned THEN 0 ELSE created[t]]
    /\ managerPhase' = "down"
    /\ topics' = None
    /\ creating' = "idle"
    /\ missed' = {}
    /\ UNCHANGED <<creation, data, recreated>>

ManagerNext ==
  \/ Open \/ OpenUnread
  \/ \E t \in Topics, n \in Partitions : CreateTopic(t, n)
  \/ MakeDirectory \/ MakeDirectoryFail
  \/ SaveMetadata \/ SaveMetadataFail \/ Rollback \/ Publish
  \/ \E t \in Topics, p \in Partitions : Produce(t, p)
  \/ ManagerCrash \/ ManagerPowerFailure

ManagerSpec == ManagerInit /\ [][ManagerNext]_managerVars
-----------------------------------------------------------------------------
\* Directories, metadata and memory name topics and partition counts.
ManagerTypeOK ==
  /\ dirs \in [Topics -> SUBSET Partitions] /\ data \in [Topics -> SUBSET Partitions]
  /\ meta \in [Topics -> 0 .. MaxPartitions] /\ topics \in [Topics -> 0 .. MaxPartitions]
  /\ created \in [Topics -> 0 .. MaxPartitions]
  /\ managerPhase \in {"down", "open"}
  /\ creating \in {"idle", "directories", "rollback", "publish"}
  /\ creation \in [name : Topics, count : Partitions, made : 0 .. MaxPartitions,
                   calls : 0 .. MaxCreations]
  /\ snaps \subseteq Snapshot /\ warned \subseteq Topics
  /\ missed \subseteq Topics /\ recreated \subseteq Topics

\* topics.json never names a partition directory that is not there, through
\* failed and interrupted creations, retries with another partition count
\* and power failures: NewManager never refuses what CreateTopic left behind.
\* A start that could not stat topics.json endangers only the topics that
\* are then created a second time.
StartupAccepts == \A t \in Topics \ recreated : HasDirectories(t)

\* A topic that CreateTopic reported as created is served with all its
\* partitions, before and after any number of restarts and, when its
\* metadata was synced, of power failures.  The exceptions are the topics
\* that the running process did not load, because it could not stat
\* topics.json, and those created a second time by such a process: the
\* others are served again by the next start that reads the file, whatever
\* was created meanwhile.
CreatedTopicsServed ==
  managerPhase = "open" => \A t \in Topics \ (missed \cup recreated) : created[t] <= topics[t]

\* Neither the rollback of a failed CreateTopic nor a power failure removes a
\* partition directory that holds acknowledged records, except those of a
\* topic that is created a second time after topics.json was not read.
RecordsKept ==
  \A t \in Topics \ recreated : data[t] \subseteq dirs[t]
=============================================================================
