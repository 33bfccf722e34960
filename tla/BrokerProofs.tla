---------------------------- MODULE BrokerProofs ----------------------------
(***************************************************************************)
(* Proofs about the parts of the broker around its partition logs.         *)
(*                                                                         *)
(* OffsetStore, for any set of keys and any number of commits, crashes and *)
(* power failures: the map in memory is the replay of the file, and a      *)
(* commit that succeeded is never lost.                                    *)
(*                                                                         *)
(* TopicManager, for any set of topic names and any number of partitions:  *)
(* what CreateTopic leaves behind, whole, rolled back or cut off by a      *)
(* crash or a power failure, is always a state that NewManager accepts,    *)
(* and no created topic and no partition with records is lost.  When a     *)
(* start cannot stat topics.json, this stays true of every topic that is   *)
(* not created a second time.                                              *)
(*                                                                         *)
(* BrokerLifecycle, for any number of requests in flight: the error        *)
(* channel never overflows, readiness is withdrawn for good, and the       *)
(* stores are closed when nothing uses them any more, whoever calls        *)
(* Shutdown and whatever fails meanwhile.                                  *)
(***************************************************************************)
EXTENDS OffsetStore, TopicManager, BrokerLifecycle, TLAPS

-----------------------------------------------------------------------------

\* The commits are in the file in their order.
IdsIncrease ==
  /\ \A i \in 1 .. Len(file.entries) :
       0 < file.entries[i].id /\ file.entries[i].id <= commits
  /\ \A i, j \in 1 .. Len(file.entries) :
       i < j => file.entries[i].id < file.entries[j].id

\* The entry of every successful commit is on stable storage.
AckedOnDisk ==
  \A k \in Keys : acked[k] # 0 =>
    \E i \in 1 .. file.synced : file.entries[i] = [key |-> k, id |-> acked[k]]

\* The map is the replay of the first size entries.
MapSoFar ==
  phase # "down" => size <= Len(file.entries) /\ \A k \in Keys : IsLatest(offsets[k], k, size)

\* Where the running Commit is, and what a failed one may have left.
CommitState ==
  /\ pc # "idle" => phase = "open" /\ ~writeFailed /\ cur.id = commits /\ 0 < cur.id
  /\ phase = "open" /\ ~writeFailed => file.tail = "none"
  /\ phase = "open" /\ ~writeFailed /\ pc # "sync" => size = Len(file.entries)
  /\ phase \in {"open", "closed"} => file.synced <= size
  /\ pc = "write" => \A i \in 1 .. Len(file.entries) : file.entries[i].id < cur.id
  /\ pc = "sync" => size + 1 = Len(file.entries) /\ file.entries[size + 1] = cur

\* The inductive invariant.
StoreIInv == StoreTypeOK /\ IdsIncrease /\ AckedOnDisk /\ MapSoFar /\ CommitState

\* The fields of a file, and of its entries.
LEMMA Fields ==
  ASSUME NEW f \in File
  PROVE  /\ f.entries \in Seq(Entry) /\ f.synced \in Nat /\ Len(f.entries) \in Nat
         /\ \A i \in 1 .. Len(f.entries) : f.entries[i] \in Entry /\ f.entries[i].id \in Nat
<1>1. f.entries \in Seq(Entry) /\ f.synced \in Nat
  BY DEF File
<1>2. Len(f.entries) \in Nat /\ \A i \in 1 .. Len(f.entries) : f.entries[i] \in Entry
  BY <1>1
<1>3. \A e \in Entry : e.id \in Nat
  BY DEF Entry
<1> QED
  BY <1>1, <1>2, <1>3

\* StoreInit establishes the inductive invariant.
LEMMA StoreInitIInv == StoreInit => StoreIInv
<1> SUFFICES ASSUME StoreInit PROVE StoreIInv
  OBVIOUS
<1>1. StoreTypeOK
  <2>1. file \in File
    BY DEF StoreInit, File
  <2>2. cur \in Entry
    BY DEF StoreInit, Entry
  <2>3. file.synced <= Len(file.entries)
    BY DEF StoreInit
  <2> QED
    BY <2>1, <2>2, <2>3, Zenon DEF StoreInit, StoreTypeOK, Absent
<1>2. file.entries = <<>> /\ Len(file.entries) = 0
  BY DEF StoreInit
<1>3. IdsIncrease /\ AckedOnDisk /\ MapSoFar /\ CommitState
  BY <1>2 DEF StoreInit, IdsIncrease, AckedOnDisk, MapSoFar, CommitState, Absent
<1> QED
  BY <1>1, <1>3 DEF StoreIInv

\* Every step preserves the inductive invariant.
LEMMA StoreNextIInv == StoreIInv /\ [StoreNext]_storeVars => StoreIInv'
<1> SUFFICES ASSUME StoreIInv, [StoreNext]_storeVars PROVE StoreIInv'
  OBVIOUS
<1> USE DEF StoreIInv
<1>f. /\ file.entries \in Seq(Entry) /\ file.synced \in Nat /\ Len(file.entries) \in Nat
      /\ \A i \in 1 .. Len(file.entries) : file.entries[i] \in Entry /\ file.entries[i].id \in Nat
  BY Fields DEF StoreTypeOK
<1>e. \A e \in Entry : e.key \in Keys /\ e.id \in Nat /\ e = [key |-> e.key, id |-> e.id]
  BY DEF Entry
<1>1. CASE OpenStart
  <2>1. StoreTypeOK'
    BY <1>1, Zenon DEF OpenStart, StoreTypeOK, Absent
  <2> QED
    BY <1>1, <1>f, <2>1
    DEF OpenStart, StoreTypeOK, Absent, IdsIncrease, AckedOnDisk, MapSoFar, CommitState, IsLatest
<1>2. CASE RecoverEntry
  <2> DEFINE e == file.entries[size + 1]
  <2>1. e \in Entry /\ e.key \in Keys /\ e.id \in Nat /\ e = [key |-> e.key, id |-> e.id]
    <3>1. size + 1 \in 1 .. Len(file.entries)
      BY <1>2, <1>f DEF RecoverEntry, StoreTypeOK
    <3>2. e \in Entry
      BY <1>f, <3>1
    <3> HIDE DEF e
    <3> QED
      BY <1>e, <3>2
  <2>2. offsets' = [offsets EXCEPT ![e.key] = e.id] /\ size' = size + 1 /\ size \in Nat
    BY <1>2 DEF RecoverEntry, Replayed, StoreTypeOK
  <2>3. StoreTypeOK'
    BY <1>2, <2>1, <2>2 DEF RecoverEntry, StoreTypeOK
  <2>4. IdsIncrease' /\ AckedOnDisk' /\ CommitState'
    BY <1>2 DEF RecoverEntry, StoreTypeOK, IdsIncrease, AckedOnDisk, CommitState
  <2>5. ASSUME NEW k \in Keys PROVE IsLatest(offsets[k], k, size)'
    <3>1. CASE k = e.key
      BY <3>1, <1>2, <2>1, <2>2 DEF RecoverEntry, StoreTypeOK, IsLatest
    <3>2. CASE k # e.key
      <4>1. offsets'[k] = offsets[k] /\ file' = file
        BY <3>2, <1>2, <2>1, <2>2 DEF RecoverEntry, StoreTypeOK
      <4>2. IsLatest(offsets[k], k, size)
        BY <1>2 DEF RecoverEntry, MapSoFar
      <4>3. \A i \in 1 .. size + 1 : i \in 1 .. size \/ i = size + 1
        BY <2>2
      <4>4. \A i \in 1 .. size : i \in 1 .. size + 1
        BY <2>2
      <4>5. CASE offsets[k] = 0 /\ \A i \in 1 .. size : file.entries[i].key # k
        BY <3>2, <2>2, <4>1, <4>3, <4>5 DEF IsLatest
      <4>6. ASSUME NEW i \in 1 .. size, file.entries[i] = [key |-> k, id |-> offsets[k]],
                   \A j \in i + 1 .. size : file.entries[j].key # k
            PROVE  IsLatest(offsets[k], k, size)'
        <5>1. \A j \in i + 1 .. size + 1 : j \in i + 1 .. size \/ j = size + 1
          BY <2>2
        <5>2. \A j \in i + 1 .. size + 1 : file.entries[j].key # k
          BY <3>2, <4>6, <5>1
        <5> QED
          BY <2>2, <4>1, <4>4, <4>6, <5>2 DEF IsLatest
      <4> QED
        BY <4>2, <4>5, <4>6 DEF IsLatest
    <3> QED
      BY <3>1, <3>2
  <2>6. MapSoFar'
    BY <1>2, <1>f, <2>2, <2>5 DEF RecoverEntry, MapSoFar
  <2> QED
    BY <2>3, <2>4, <2>6
<1>3. CASE RecoverDone
  <2>1. /\ file' \in File /\ file'.entries = file.entries
        /\ file'.tail = "none" /\ file'.synced \in {file.synced, Len(file.entries)}
    BY <1>3, <1>f, Zenon DEF RecoverDone, Truncated, StoreTypeOK, File
  <2>2. StoreTypeOK'
    BY <1>3, <1>f, <2>1 DEF RecoverDone, StoreTypeOK
  <2>3. IdsIncrease'
    BY <1>3, <2>1 DEF RecoverDone, IdsIncrease
  <2>4. AckedOnDisk'
    BY <1>3, <1>f, <2>1 DEF RecoverDone, AckedOnDisk, StoreTypeOK
  <2>5. MapSoFar'
    BY <1>3, <2>1 DEF RecoverDone, MapSoFar, IsLatest
  <2>6. CommitState'
    BY <1>3, <1>f, <2>1 DEF RecoverDone, CommitState, StoreTypeOK
  <2> QED
    BY <2>2, <2>3, <2>4, <2>5, <2>6
<1>4. CASE RecoverFail
  <2>1. file' \in File /\ file'.entries = file.entries /\ file'.synced = file.synced
    BY <1>4 DEF RecoverFail, StoreTypeOK, File
  <2> QED
    BY <1>4, <2>1 DEF RecoverFail, StoreTypeOK, IdsIncrease, AckedOnDisk, MapSoFar, CommitState
<1>5. ASSUME NEW k \in Keys, CommitStart(k) PROVE StoreIInv'
  <2>1. cur' \in Entry /\ cur'.id = commits + 1
    BY <1>5 DEF CommitStart, Entry, StoreTypeOK
  <2>2. StoreTypeOK'
    BY <1>5, <2>1 DEF CommitStart, StoreTypeOK
  <2>3. IdsIncrease' /\ AckedOnDisk'
    BY <1>5, <1>f DEF CommitStart, IdsIncrease, AckedOnDisk, StoreTypeOK
  <2>4. MapSoFar'
    BY <1>5 DEF CommitStart, MapSoFar, IsLatest
  <2>5. CommitState'
    BY <1>5, <1>f, <2>1 DEF CommitStart, CommitState, IdsIncrease, StoreTypeOK
  <2> QED
    BY <2>2, <2>3, <2>4, <2>5
<1>6. CASE CommitWrite
  <2>1. size = Len(file.entries) /\ SubSeq(file.entries, 1, size) = file.entries
    BY <1>6, <1>f DEF CommitWrite, CommitState
  <2>2. /\ file' \in File /\ file'.entries = Append(file.entries, cur)
        /\ file'.synced = file.synced /\ file'.tail = file.tail
    <3>1. Append(file.entries, cur) \in Seq(Entry)
      BY <1>f DEF StoreTypeOK
    <3> QED
      BY <1>6, <2>1, <3>1, Zenon DEF CommitWrite, StoreTypeOK, File
  <2>3. /\ Len(file'.entries) = Len(file.entries) + 1
        /\ file'.entries[Len(file.entries) + 1] = cur
        /\ \A i \in 1 .. Len(file.entries) : file'.entries[i] = file.entries[i]
    BY <1>f, <2>2 DEF StoreTypeOK
  <2>4. cur.id \in Nat /\ cur.id = commits
    BY <1>6, <1>e DEF CommitWrite, CommitState, StoreTypeOK
  <2>5. StoreTypeOK'
    BY <1>6, <1>f, <2>2, <2>3 DEF CommitWrite, StoreTypeOK
  <2>6. IdsIncrease'
    <3>1. /\ commits' = commits /\ commits \in Nat
          /\ \A i \in 1 .. Len(file.entries) : file.entries[i].id < commits
      BY <1>6, <2>4 DEF CommitWrite, CommitState, StoreTypeOK
    <3>2. ASSUME NEW i \in 1 .. Len(file'.entries)
          PROVE  i \in 1 .. Len(file.entries) \/ (i = Len(file.entries) + 1 /\ file'.entries[i] = cur)
      BY <1>f, <2>3
    <3>3. ASSUME NEW i \in 1 .. Len(file'.entries)
          PROVE  0 < file'.entries[i].id /\ file'.entries[i].id <= commits
      <4>1. 0 < cur.id
        BY <1>6 DEF CommitWrite, CommitState
      <4> QED
        BY <1>f, <2>3, <2>4, <3>2, <4>1 DEF IdsIncrease
    <3>4. ASSUME NEW i \in 1 .. Len(file'.entries), NEW j \in 1 .. Len(file'.entries), i < j
          PROVE  file'.entries[i].id < file'.entries[j].id
      <4>1. i \in 1 .. Len(file.entries)
        BY <1>f, <2>3, <3>4
      <4> QED
        BY <1>f, <2>3, <2>4, <3>1, <3>2, <3>4, <4>1, Zenon DEF IdsIncrease
    <3> QED
      BY <3>1, <3>3, <3>4 DEF IdsIncrease
  <2>7. AckedOnDisk'
    <3>1. \A i \in 1 .. file.synced : file'.entries[i] = file.entries[i]
      BY <1>f, <2>3 DEF StoreTypeOK
    <3> QED
      BY <1>6, <2>2, <3>1, Zenon DEF CommitWrite, AckedOnDisk
  <2>8. MapSoFar'
    <3>1. \A i \in 1 .. size : file'.entries[i] = file.entries[i]
      BY <2>1, <2>3
    <3>2. ASSUME NEW k \in Keys PROVE IsLatest(offsets[k], k, size)'
      <4>1. IsLatest(offsets[k], k, size) /\ size \in Nat
        BY <1>6 DEF CommitWrite, CommitState, MapSoFar, StoreTypeOK
      <4>2. offsets' = offsets /\ size' = size
        BY <1>6 DEF CommitWrite
      <4> QED
        BY <3>1, <4>1, <4>2 DEF IsLatest
    <3> QED
      BY <1>6, <1>f, <2>1, <2>3, <3>2 DEF CommitWrite, MapSoFar
  <2>9. CommitState'
    BY <1>6, <1>f, <2>1, <2>2, <2>3 DEF CommitWrite, CommitState, StoreTypeOK
  <2> QED
    BY <2>5, <2>6, <2>7, <2>8, <2>9
<1>7. CASE CommitWriteFail
  <2>1. file' \in File /\ file'.entries = file.entries /\ file'.synced = file.synced
    BY <1>7 DEF CommitWriteFail, StoreTypeOK, File
  <2>2. StoreTypeOK'
    BY <1>7, <2>1 DEF CommitWriteFail, Poisoned, StoreTypeOK
  <2> QED
    BY <1>7, <2>1, <2>2
    DEF CommitWriteFail, Poisoned, IdsIncrease, AckedOnDisk, MapSoFar, CommitState, IsLatest
<1>8. CASE CommitSync
  <2>1. /\ file' \in File /\ file'.entries = file.entries /\ file'.tail = file.tail
        /\ file'.synced = Len(file.entries) /\ size + 1 = Len(file.entries)
        /\ file.entries[size + 1] = cur /\ size' = size + 1 /\ size \in Nat
    BY <1>8, <1>f, Zenon DEF CommitSync, CommitState, Fsynced, StoreTypeOK, File
  <2>2. cur \in Entry /\ cur.key \in Keys /\ cur.id \in Nat /\ cur = [key |-> cur.key, id |-> cur.id]
    BY <1>e DEF StoreTypeOK
  <2>3. StoreTypeOK'
    BY <1>8, <1>f, <2>1, <2>2 DEF CommitSync, StoreTypeOK
  <2>4. IdsIncrease'
    BY <1>8, <2>1 DEF CommitSync, IdsIncrease
  <2>5. AckedOnDisk'
    <3> SUFFICES ASSUME NEW k \in Keys, acked'[k] # 0
                 PROVE  \E i \in 1 .. Len(file.entries) :
                          file.entries[i] = [key |-> k, id |-> acked'[k]]
      BY <2>1 DEF AckedOnDisk
    <3>1. CASE k = cur.key
      <4>1. acked'[k] = cur.id
        BY <3>1, <1>8 DEF CommitSync, StoreTypeOK
      <4>2. size + 1 \in 1 .. Len(file.entries)
        BY <1>f, <2>1
      <4> QED
        BY <3>1, <2>1, <2>2, <4>1, <4>2
    <3>2. CASE k # cur.key
      <4>1. acked'[k] = acked[k]
        BY <3>2, <1>8, <2>2 DEF CommitSync, StoreTypeOK
      <4> QED
        BY <4>1, <1>f DEF AckedOnDisk, StoreTypeOK
    <3> QED
      BY <3>1, <3>2
  <2>6. ASSUME NEW k \in Keys PROVE IsLatest(offsets[k], k, size)'
    <3>1. CASE k = cur.key
      BY <3>1, <1>8, <2>1, <2>2 DEF CommitSync, StoreTypeOK, IsLatest
    <3>2. CASE k # cur.key
      <4>1. offsets'[k] = offsets[k]
        BY <3>2, <1>8, <2>2 DEF CommitSync, StoreTypeOK
      <4>2. IsLatest(offsets[k], k, size)
        BY <1>8 DEF CommitSync, CommitState, MapSoFar
      <4> QED
        BY <3>2, <2>1, <2>2, <4>1, <4>2 DEF IsLatest
    <3> QED
      BY <3>1, <3>2
  <2>7. MapSoFar'
    BY <1>f, <2>1, <2>6 DEF MapSoFar
  <2>8. CommitState'
    BY <1>8, <1>f, <2>1 DEF CommitSync, CommitState
  <2> QED
    BY <2>3, <2>4, <2>5, <2>7, <2>8
<1>9. CASE CommitSyncFail
  <2>1. StoreTypeOK'
    BY <1>9 DEF CommitSyncFail, Poisoned, StoreTypeOK
  <2> QED
    BY <1>9, <2>1
    DEF CommitSyncFail, Poisoned, IdsIncrease, AckedOnDisk, MapSoFar, CommitState, IsLatest
<1>10. CASE Close
  <2>1. /\ file' \in File /\ file'.entries = file.entries
        /\ file'.synced \in {file.synced, Len(file.entries)}
        /\ ~writeFailed \/ file'.synced = file.synced
    BY <1>10, <1>f DEF Close, Fsynced, StoreTypeOK, File
  <2>2. StoreTypeOK'
    BY <1>10, <1>f, <2>1 DEF Close, StoreTypeOK
  <2>3. AckedOnDisk'
    BY <1>10, <1>f, <2>1 DEF Close, AckedOnDisk, StoreTypeOK
  <2>4. IdsIncrease' /\ MapSoFar'
    BY <1>10, <2>1 DEF Close, IdsIncrease, MapSoFar, IsLatest
  <2>5. CommitState'
    BY <1>10, <1>f, <2>1 DEF Close, CommitState, StoreTypeOK
  <2> QED
    BY <2>2, <2>3, <2>4, <2>5
<1>11. CASE Crash
  <2>1. file' \in File /\ file'.entries = file.entries /\ file'.synced = file.synced
    BY <1>11 DEF Crash, StoreTypeOK, File
  <2>2. StoreTypeOK'
    BY <1>11, <2>1 DEF Crash, ProcessEnds, StoreTypeOK
  <2> QED
    BY <1>11, <2>1, <2>2
    DEF Crash, ProcessEnds, IdsIncrease, AckedOnDisk, MapSoFar, CommitState
<1>12. CASE PowerFailure
  <2>1. PICK n \in file.synced .. Len(file.entries), t \in {"none", "short", "bad"} :
          file' = [entries |-> SubSeq(file.entries, 1, n), tail |-> t, synced |-> n]
    BY <1>12 DEF PowerFailure
  <2>2. n \in Nat /\ n <= Len(file.entries) /\ file.synced <= n
    BY <1>f, <2>1
  <2>3. /\ SubSeq(file.entries, 1, n) \in Seq(Entry) /\ Len(SubSeq(file.entries, 1, n)) = n
        /\ \A i \in 1 .. n : SubSeq(file.entries, 1, n)[i] = file.entries[i]
    BY <1>f, <2>2
  <2>4. file'.entries = SubSeq(file.entries, 1, n) /\ file'.synced = n /\ file' \in File
    BY <2>1, <2>2, <2>3 DEF File
  <2>5. /\ Len(file'.entries) = n /\ file'.synced = n
        /\ \A i \in 1 .. n : file'.entries[i] = file.entries[i]
    BY <2>3, <2>4
  <2>6. StoreTypeOK'
    BY <1>12, <2>2, <2>4, <2>5 DEF PowerFailure, ProcessEnds, StoreTypeOK
  <2>7. IdsIncrease'
    BY <1>12, <1>f, <2>2, <2>5 DEF PowerFailure, ProcessEnds, IdsIncrease
  <2>8. AckedOnDisk'
    BY <1>12, <1>f, <2>2, <2>5 DEF PowerFailure, ProcessEnds, AckedOnDisk
  <2>9. MapSoFar' /\ CommitState'
    BY <1>12 DEF PowerFailure, ProcessEnds, MapSoFar, CommitState
  <2> QED
    BY <2>6, <2>7, <2>8, <2>9
<1>13. CASE UNCHANGED storeVars
  BY <1>13 DEF storeVars, StoreTypeOK, IdsIncrease, AckedOnDisk, MapSoFar, CommitState, IsLatest
<1> QED
  BY <1>1, <1>2, <1>3, <1>4, <1>5, <1>6, <1>7, <1>8, <1>9, <1>10, <1>11, <1>12, <1>13 DEF StoreNext

\* The inductive invariant holds in every reachable state.
THEOREM StoreInvariance == StoreSpec => []StoreIInv
  BY StoreInitIInv, StoreNextIInv, PTL DEF StoreSpec

\* The types of the store's fields and its file.
THEOREM TypeCorrect == StoreSpec => []StoreTypeOK
  BY StoreInvariance, PTL DEF StoreIInv

\* The map in memory is what a restart would recover.
THEOREM MapAlwaysReplay == StoreSpec => []MapIsReplay
<1>1. StoreIInv => MapIsReplay
  BY DEF StoreIInv, MapSoFar, CommitState, MapIsReplay
<1> QED
  BY StoreInvariance, <1>1, PTL

\* A successful commit survives crashes and power failures.
THEOREM AckedAlwaysSurvives == StoreSpec => []AckedSurvives
<1>1. StoreIInv => AckedSurvives
  <2> SUFFICES ASSUME StoreIInv, phase = "open", NEW k \in Keys PROVE offsets[k] >= acked[k]
    BY DEF AckedSurvives
  <2>1. /\ Len(file.entries) \in Nat /\ file.synced \in Nat /\ size \in Nat
        /\ acked[k] \in Nat /\ offsets[k] \in Nat
    BY Fields DEF StoreIInv, StoreTypeOK
  <2>2. CASE acked[k] = 0
    BY <2>1, <2>2
  <2>3. CASE acked[k] # 0
    <3>1. PICK i \in 1 .. file.synced : file.entries[i] = [key |-> k, id |-> acked[k]]
      BY <2>3 DEF StoreIInv, AckedOnDisk
    <3>2. i \in 1 .. size /\ i \in 1 .. Len(file.entries)
      BY <2>1 DEF StoreIInv, CommitState, MapSoFar
    <3>3. IsLatest(offsets[k], k, size)
      BY DEF StoreIInv, MapSoFar
    <3>4. PICK j \in 1 .. size : /\ file.entries[j] = [key |-> k, id |-> offsets[k]]
                                /\ \A h \in j + 1 .. size : file.entries[h].key # k
      BY <3>1, <3>2, <3>3 DEF IsLatest
    <3>5. i <= j /\ j \in 1 .. Len(file.entries)
      BY <2>1, <3>1, <3>2, <3>4 DEF StoreIInv, MapSoFar
    <3>6. i < j => acked[k] < offsets[k]
      BY <3>1, <3>2, <3>4, <3>5 DEF StoreIInv, IdsIncrease
    <3> QED
      BY <2>1, <3>1, <3>2, <3>4, <3>5, <3>6
  <2> QED
    BY <2>2, <2>3
<1> QED
  BY StoreInvariance, <1>1, PTL

-----------------------------------------------------------------------------

\* Memory agrees with topics.json except about topics that were not loaded
\* and, between the rename and the publication, about the topic being created.
\* Only a topic that was not loaded is created a second time.
MemoryAgrees ==
  /\ managerPhase = "down" => missed = {}
  /\ managerPhase = "open" =>
       \A t \in Topics \ recreated :
         IF t \in missed THEN topics[t] = 0
         ELSE topics[t] = meta[t] \/ (creating = "publish" /\ t = creation.name)
  /\ creating # "idle" => /\ managerPhase = "open" /\ topics[creation.name] = 0
                         /\ \/ creation.name \in recreated
                            \/ creation.name \notin missed /\ created[creation.name] = 0
  /\ creating \in {"directories", "rollback"} => creation.name \in recreated \/ meta[creation.name] = 0
  /\ creating = "directories" => creation.made <= creation.count /\ 1 .. creation.made \subseteq dirs[creation.name]
  /\ creating = "publish" => meta[creation.name] = creation.count

\* What a topic was created with is in topics.json.
HistoryInMetadata == \A t \in Topics \ recreated : created[t] <= meta[t]

\* What holds of the directories and the metadata that a power failure leaves
\* as it does of the present ones: the metadata names existing directories, a
\* topic with synced metadata is there, and so are the partitions with records.
Sound(s) ==
  \A t \in Topics \ recreated :
    /\ 1 .. s.meta[t] \subseteq s.dirs[t]
    /\ t \notin warned => created[t] <= s.meta[t]
    /\ data[t] \subseteq 1 .. s.meta[t]

MediaSound ==
  /\ [dirs |-> dirs, meta |-> meta] \in snaps
  /\ \A s \in snaps : Sound(s)

\* The inductive invariant.
ManagerIInv == ManagerTypeOK /\ MemoryAgrees /\ HistoryInMetadata /\ MediaSound

\* ManagerInit establishes the inductive invariant.
LEMMA ManagerInitIInv == ManagerInit => ManagerIInv
  BY TopicAssumption DEF ManagerInit, ManagerIInv, ManagerTypeOK, MemoryAgrees, HistoryInMetadata, MediaSound, Sound,
     Snapshot, None, Partitions

\* The directories and metadata of the present are sound like those of every
\* snapshot.
LEMMA PresentSound ==
  ManagerIInv => \A t \in Topics \ recreated : 1 .. meta[t] \subseteq dirs[t] /\ data[t] \subseteq 1 .. meta[t]
<1> SUFFICES ASSUME ManagerIInv, NEW t \in Topics \ recreated
             PROVE 1 .. meta[t] \subseteq dirs[t] /\ data[t] \subseteq 1 .. meta[t]
  OBVIOUS
<1>1. Sound([dirs |-> dirs, meta |-> meta])
  BY SMTT(30) DEF ManagerIInv, MediaSound
<1> QED
  BY <1>1 DEF Sound

\* Every step preserves the inductive invariant.
LEMMA ManagerNextIInv == ManagerIInv /\ [ManagerNext]_managerVars => ManagerIInv'
<1> SUFFICES ASSUME ManagerIInv, [ManagerNext]_managerVars PROVE ManagerIInv'
  OBVIOUS
<1>0. \A t \in Topics \ recreated : 1 .. meta[t] \subseteq dirs[t] /\ data[t] \subseteq 1 .. meta[t]
  BY PresentSound
<1> USE TopicAssumption DEF ManagerIInv, ManagerTypeOK, MemoryAgrees, HistoryInMetadata, MediaSound, Sound,
        Snapshot, None, Partitions
<1>1. CASE Open
  BY <1>1 DEF Open, media, overlooked
<1>u. CASE OpenUnread
  BY <1>u DEF OpenUnread, media
<1>2. ASSUME NEW t \in Topics, NEW n \in Partitions, CreateTopic(t, n) PROVE ManagerIInv'
  BY <1>2 DEF CreateTopic, media
<1>3. CASE MakeDirectory
  <2>1. ManagerTypeOK' /\ HistoryInMetadata'
    BY <1>3 DEF MakeDirectory, NeedsDirectory, Changed, overlooked
  <2>2. MemoryAgrees'
    <3>1. /\ creating = "directories" /\ creation.made < creation.count
          /\ UNCHANGED <<meta, managerPhase, topics, creating, created, missed, recreated>>
          /\ creation'.name = creation.name /\ creation'.count = creation.count
          /\ creation'.made = creation.made + 1
          /\ dirs'[creation.name] = dirs[creation.name] \cup {creation.made + 1}
      BY <1>3 DEF MakeDirectory, NeedsDirectory, overlooked
    <3>2. creation'.made <= creation.count /\ 1 .. creation'.made \subseteq dirs'[creation.name]
      BY <3>1
    <3> QED
      BY <3>1, <3>2
  <2>3. MediaSound'
    BY <1>0, <1>3 DEF MakeDirectory, NeedsDirectory, Changed, overlooked
  <2> QED
    BY <2>1, <2>2, <2>3
<1>4. CASE MakeDirectoryFail
  <2>1. CASE dirs' = dirs
    BY <1>0, <1>4, <2>1 DEF MakeDirectoryFail, NeedsDirectory, Changed, overlooked
  <2>2. CASE dirs' = [dirs EXCEPT ![creation.name] = @ \cup {creation.made + 1}]
    <3>1. ManagerTypeOK'
      <4>1. /\ dirs' \in [Topics -> SUBSET Partitions] /\ creation'.made \in 0 .. MaxPartitions
            /\ creation' \in [name : Topics, count : Partitions, made : 0 .. MaxPartitions,
                              calls : 0 .. MaxCreations]
        BY <1>4, <2>2 DEF MakeDirectoryFail, NeedsDirectory
      <4>2. snaps' = snaps \cup {[dirs |-> dirs', meta |-> meta]} /\ warned' = warned
        BY <1>4 DEF MakeDirectoryFail, Changed
      <4> QED
        BY <1>4, <4>1, <4>2 DEF MakeDirectoryFail, overlooked
    <3>h. HistoryInMetadata'
      BY <1>4 DEF MakeDirectoryFail, overlooked
    <3>2. MemoryAgrees'
      BY <1>4 DEF MakeDirectoryFail, overlooked
    <3>3. MediaSound'
      BY <1>0, <1>4, <2>2 DEF MakeDirectoryFail, NeedsDirectory, Changed, overlooked
    <3> QED
      BY <3>1, <3>h, <3>2, <3>3
  <2> QED
    BY <1>4, <2>1, <2>2 DEF MakeDirectoryFail
<1>5. CASE SaveMetadata
  BY <1>0, <1>5 DEF SaveMetadata, NeedsDirectory, Merged, overlooked
<1>6. CASE SaveMetadataFail
  BY <1>0, <1>6 DEF SaveMetadataFail, NeedsDirectory, Flushed, media, overlooked
<1>7. CASE Rollback
  <2>1. ManagerTypeOK' /\ HistoryInMetadata'
    BY <1>7 DEF Rollback, Changed, overlooked
  <2>2. MemoryAgrees'
    BY <1>7 DEF Rollback, overlooked
  <2>3. MediaSound'
    BY <1>0, <1>7 DEF Rollback, Changed, overlooked
  <2> QED
    BY <2>1, <2>2, <2>3
<1>8. CASE Publish
  BY <1>0, <1>8 DEF Publish, Flushed, overlooked
<1>9. ASSUME NEW t \in Topics, NEW p \in Partitions, Produce(t, p) PROVE ManagerIInv'
  BY <1>0, <1>9 DEF Produce, Flushed, overlooked
<1>10. CASE ManagerCrash
  BY <1>10 DEF ManagerCrash, media
<1>11. CASE ManagerPowerFailure
  BY <1>11 DEF ManagerPowerFailure
<1>12. CASE UNCHANGED managerVars
  BY <1>12 DEF managerVars, media, overlooked
<1> QED
  BY <1>1, <1>u, <1>2, <1>3, <1>4, <1>5, <1>6, <1>7, <1>8, <1>9, <1>10, <1>11, <1>12, Zenon DEF ManagerNext

\* The inductive invariant holds in every reachable state.
THEOREM ManagerInvariance == ManagerSpec => []ManagerIInv
  BY ManagerInitIInv, ManagerNextIInv, PTL DEF ManagerSpec

\* Directories, topics.json, memory and the running CreateTopic name topics
\* and partition counts, also in every state that a power failure may leave.
THEOREM ManagerTypesKept == ManagerSpec => []ManagerTypeOK
<1>1. ManagerIInv => ManagerTypeOK
  BY DEF ManagerIInv
<1> QED
  BY ManagerInvariance, <1>1, PTL

\* NewManager never finds a topics.json that names a missing directory,
\* unless a start could not stat topics.json and then only for a topic that
\* was created a second time after it.
THEOREM StartupAlwaysAccepts == ManagerSpec => []StartupAccepts
<1>1. ManagerIInv => StartupAccepts
  BY PresentSound DEF StartupAccepts, HasDirectories
<1> QED
  BY ManagerInvariance, <1>1, PTL

\* A topic whose creation was reported is served with all its partitions,
\* after restarts and, once its metadata is synced, after power failures,
\* unless it was not loaded because topics.json could not be statted or was
\* created a second time after that.
THEOREM TopicsNeverLost == ManagerSpec => []CreatedTopicsServed
<1>1. ManagerIInv => CreatedTopicsServed
  <2> SUFFICES ASSUME ManagerIInv, managerPhase = "open",
                      NEW t \in Topics \ (missed \cup recreated)
               PROVE created[t] <= topics[t]
    BY DEF CreatedTopicsServed
  <2>1. CASE topics[t] = meta[t]
    BY <2>1 DEF ManagerIInv, HistoryInMetadata
  <2>2. CASE creating = "publish" /\ t = creation.name
    BY <2>2 DEF ManagerIInv, MemoryAgrees
  <2> QED
    BY <2>1, <2>2 DEF ManagerIInv, MemoryAgrees
<1> QED
  BY ManagerInvariance, <1>1, PTL

\* No rollback and no power failure removes a partition directory that holds
\* records, except of a topic that is created a second time after a start
\* that could not stat topics.json.
THEOREM RecordsNeverRemoved == ManagerSpec => []RecordsKept
<1>1. ManagerIInv => RecordsKept
  BY PresentSound DEF RecordsKept
<1> QED
  BY ManagerInvariance, <1>1, PTL

-----------------------------------------------------------------------------

\* Where the goroutines can be.
ControlOK ==
  /\ main \in {"start", "window", "ready", "monitor", "wait", "startupFailed", "signalled",
               "stopping", "stoppingFailed", "clean", "error"}
  /\ serve \in [Servers -> {"off", "serving", "returned", "failed", "report", "done"}]
  /\ worker \in {"off", "retain", "select", "done"}
  /\ monitor \in {"off", "waiting", "shutdown", "stopping", "done"}
  /\ shutdown \in [owner : {"none", "main", "monitor"}, step : 1 .. 10]

Reported(s) == IF serve[s] = "done" THEN 1 ELSE 0

\* A serving goroutine reports at most one error, as the last thing it does.
ErrorsOK == b.errors <= Reported("http") + Reported("grpc")

\* Nobody can call Shutdown before Start has marked the broker ready or has
\* failed: the monitor is not there yet.
StartsAlone ==
  /\ main = "start" => \A s \in Servers : serve[s] = "off"
  /\ main \in {"start", "window", "ready", "monitor"} => monitor = "off" /\ shutdown.owner = "none"
  /\ shutdown.owner = "none" => shutdown.step = 1
  /\ ~b.stopped => shutdown.owner = "none"

\* What the steps of Shutdown that are behind have established.
Progress ==
  /\ shutdown.step > 1 => ~b.ready
  /\ shutdown.step > 3 => worker = "done"
  /\ shutdown.step > 4 => "grpc" \in b.down /\ (b.requests > 0 => b.forced)
  /\ shutdown.step > 6 => \A s \in Servers : serve[s] = "done"
  /\ b.closed # {} => shutdown.step > 7

\* The inductive invariant.
BrokerIInv == ControlOK /\ b \in Shared /\ ErrorsOK /\ StartsAlone /\ Progress
-----------------------------------------------------------------------------
\* The order in which main goes on after the startup window.
LEMMA MainOrder ==
  AfterTimer[1] = "ready" /\ Following("ready") = "monitor" /\ Following("monitor") = "wait"
<1>1. AfterTimer[1] = "ready" /\ AfterTimer[2] = "monitor" /\ AfterTimer[3] = "wait"
  BY DEF AfterTimer
<1>2. 1 .. 2 = {1, 2}
  OBVIOUS
<1>3. (CHOOSE i \in 1 .. 2 : AfterTimer[i] = "ready") = 1
  BY <1>1, <1>2
<1>4. (CHOOSE i \in 1 .. 2 : AfterTimer[i] = "monitor") = 2
  BY <1>1, <1>2
<1> QED
  BY <1>1, <1>3, <1>4 DEF Following

\* The places of the steps of Shutdown.
LEMMA StepOrder ==
  ASSUME shutdown.step \in 1 .. 10
  PROVE  /\ Len(ShutdownSteps) = 9
         /\ AtStep("unready") => shutdown.step = 1
         /\ AtStep("cancel") => shutdown.step = 2
         /\ AtStep("workers") => shutdown.step = 3
         /\ AtStep("grpc") => shutdown.step = 4
         /\ AtStep("http") => shutdown.step = 5
         /\ AtStep("serving") => shutdown.step = 6
         /\ AtStep("offsets") => shutdown.step = 7
         /\ AtStep("storage") => shutdown.step = 8
         /\ AtStep("done") => shutdown.step = 9
<1>1. Len(ShutdownSteps) = 9
  BY DEF ShutdownSteps
<1>2. /\ ShutdownSteps[1] = "unready" /\ ShutdownSteps[2] = "cancel" /\ ShutdownSteps[3] = "workers"
      /\ ShutdownSteps[4] = "grpc" /\ ShutdownSteps[5] = "http" /\ ShutdownSteps[6] = "serving"
      /\ ShutdownSteps[7] = "offsets" /\ ShutdownSteps[8] = "storage" /\ ShutdownSteps[9] = "done"
  BY DEF ShutdownSteps
<1>3. \A name : AtStep(name) =>
        /\ shutdown.step \in {1, 2, 3, 4, 5, 6, 7, 8, 9} /\ ShutdownSteps[shutdown.step] = name
  BY <1>1 DEF AtStep
<1> QED
  BY <1>1, <1>2, <1>3

\* BrokerInit establishes the inductive invariant.
LEMMA BrokerInitIInv == BrokerInit => BrokerIInv
  BY RequestsAssumption DEF BrokerInit, BrokerIInv, ControlOK, Shared, ErrorsOK, Reported, StartsAlone, Progress, Servers

\* The steps of Start keep the inductive invariant: readiness is set before
\* anybody can call Shutdown.
LEMMA StartIInv == BrokerIInv /\ Start => BrokerIInv'
<1> SUFFICES ASSUME BrokerIInv, Start PROVE BrokerIInv'
  OBVIOUS
<1> USE MainOrder DEF BrokerIInv, ControlOK, Shared, ErrorsOK, Reported, StartsAlone, Progress, Servers
<1>1. CASE StartServing
  BY <1>1 DEF StartServing
<1>2. CASE BindFail
  BY <1>2 DEF BindFail
<1>3. CASE StartupSelect
  BY <1>3 DEF StartupSelect
<1>4. CASE MarkReady
  <2>1. shutdown.step = 1 /\ main' = "monitor" /\ shutdown' = shutdown
    BY <1>4 DEF MarkReady
  <2>2. b' \in Shared /\ b'.errors = b.errors /\ b'.closed = b.closed
    BY <1>4, Zenon DEF MarkReady
  <2> QED
    BY <1>4, <2>1, <2>2 DEF MarkReady
<1>5. CASE StartMonitor
  BY <1>5 DEF StartMonitor
<1> QED
  BY <1>1, <1>2, <1>3, <1>4, <1>5 DEF Start

\* So do the goroutines and the handlers: after GracefulStop has begun there
\* are no new requests, and a goroutine that is done stays done.
LEMMA GoroutinesIInv ==
  ASSUME BrokerIInv,
         \/ \E s \in Servers : ServeReturns(s) \/ Serving(s)
         \/ WorkerRetained \/ WorkerTick \/ WorkerStops \/ Monitor \/ RequestStart \/ RequestEnd
  PROVE  BrokerIInv'
<1> USE DEF BrokerIInv, ControlOK, Shared, ErrorsOK, Reported, StartsAlone, Progress, Servers
<1>1. ASSUME NEW s \in Servers, ServeReturns(s) PROVE BrokerIInv'
  BY <1>1 DEF ServeReturns
<1>2. ASSUME NEW s \in Servers, ServeChecks(s) PROVE BrokerIInv'
  BY <1>2 DEF ServeChecks
<1>3. ASSUME NEW s \in Servers, ServeMarksUnready(s) PROVE BrokerIInv'
  <2>1. /\ b' \in Shared /\ ~b'.ready /\ b'.errors = b.errors /\ b'.closed = b.closed
        /\ b'.down = b.down /\ b'.requests = b.requests /\ b'.forced = b.forced /\ b'.stopped = b.stopped
    BY <1>3, Zenon DEF ServeMarksUnready
  <2>2. serve' = [serve EXCEPT ![s] = "report"] /\ serve[s] = "failed"
    BY <1>3 DEF ServeMarksUnready
  <2> HIDE DEF Shared
  <2> QED
    BY <1>3, <2>1, <2>2 DEF ServeMarksUnready
<1>4. ASSUME NEW s \in Servers, ServeReports(s) PROVE BrokerIInv'
  BY <1>4 DEF ServeReports
<1>5. CASE WorkerRetained \/ WorkerTick \/ WorkerStops
  BY <1>5 DEF WorkerRetained, WorkerTick, WorkerStops
<1>6. CASE Monitor
  BY <1>6 DEF Monitor, MonitorReceives, MonitorCancelled
<1>7. CASE RequestStart
  BY <1>7, RequestsAssumption DEF RequestStart
<1>8. CASE RequestEnd
  BY <1>8, RequestsAssumption DEF RequestEnd
<1> QED
  BY <1>1, <1>2, <1>3, <1>4, <1>5, <1>6, <1>7, <1>8 DEF Serving

\* A call of Shutdown keeps the inductive invariant: only the first one gets
\* to do the work.
LEMMA ShutdownCallIInv ==
  ASSUME BrokerIInv, NEW who \in {"main", "monitor"}, ShutdownCall(who)
  PROVE  BrokerIInv'
<1> USE DEF BrokerIInv, ControlOK, Shared, ErrorsOK, Reported, StartsAlone, Progress, Servers
<1>1. CASE b.stopped
  BY <1>1 DEF ShutdownCall, CallsShutdown, Returned
<1>2. CASE ~b.stopped
  <2>1. /\ b' \in Shared /\ b'.ready = b.ready /\ b'.errors = b.errors /\ b'.closed = b.closed
        /\ b'.down = b.down /\ b'.requests = b.requests /\ b'.forced = b.forced /\ b'.stopped
    <3>1. b \in Shared /\ b' = [b EXCEPT !.stopped = TRUE]
      BY <1>2 DEF ShutdownCall
    <3> HIDE DEF BrokerIInv, ControlOK, ErrorsOK, Reported, StartsAlone, Progress, Servers
    <3> QED
      BY <3>1, Zenon
  <2>2. shutdown.step = 1 /\ b.closed = {} /\ shutdown'.step = 1
    BY <1>2 DEF ShutdownCall
  <2>3. main \notin {"start", "window", "ready", "monitor"} /\ UNCHANGED <<serve, worker>>
    BY <1>2 DEF ShutdownCall, CallsShutdown
  <2>4. ControlOK' /\ main' \notin {"start", "window", "ready", "monitor"} /\ shutdown'.owner # "none"
    BY <1>2, <2>3 DEF ShutdownCall, CallsShutdown
  <2> HIDE DEF Shared, ControlOK
  <2> QED
    BY <2>1, <2>2, <2>3, <2>4
<1> QED
  BY <1>1, <1>2

\* And so do the steps of the Shutdown that does the work.
LEMMA ShutdownIInv == BrokerIInv /\ Shutdown => BrokerIInv'
<1> SUFFICES ASSUME BrokerIInv, Shutdown PROVE BrokerIInv'
  OBVIOUS
<1>0. shutdown.step \in 1 .. 10
  BY DEF BrokerIInv, ControlOK
<1> USE DEF BrokerIInv, ControlOK, Shared, ErrorsOK, Reported, StartsAlone, Progress, Servers
<1>1. CASE ShutdownFlags
  <2>1. /\ shutdown.step \in {1, 2, 7, 8} /\ shutdown.owner # "none"
        /\ shutdown'.step = shutdown.step + 1 /\ shutdown'.owner = shutdown.owner
        /\ UNCHANGED <<main, serve, worker, monitor>>
    BY <1>0, <1>1, StepOrder DEF ShutdownFlags, Advance, AtStep
  <2>2. /\ b' \in Shared /\ b'.errors = b.errors /\ b'.down = b.down /\ b'.requests = b.requests
        /\ b'.forced = b.forced /\ b'.stopped = b.stopped
    <3>1. CASE b' = [b EXCEPT !.ready = FALSE] \/ b' = [b EXCEPT !.cancelled = TRUE]
      BY <3>1, ZenonT(30)
    <3>2. ASSUME NEW c \in {"offsets", "storage"}, b' = [b EXCEPT !.closed = @ \cup {c}]
          PROVE  /\ b' \in Shared /\ b'.errors = b.errors /\ b'.down = b.down /\ b'.requests = b.requests
                 /\ b'.forced = b.forced /\ b'.stopped = b.stopped
      BY <3>2
    <3> QED
      BY <1>1, <3>1, <3>2 DEF ShutdownFlags
  <2>3. /\ b'.closed # b.closed => shutdown.step \in {7, 8}
        /\ b'.ready => b.ready /\ shutdown.step # 1
    BY <1>0, <1>1, StepOrder DEF ShutdownFlags
  <2>4. ControlOK'
    BY <1>0, <1>1, <2>1 DEF ShutdownFlags, Advance
  <2> HIDE DEF Shared, ControlOK
  <2> QED
    BY <1>0, <2>1, <2>2, <2>3, <2>4
<1>2. CASE ShutdownWaits
  BY <1>0, <1>2, StepOrder DEF ShutdownWaits, Advance
<1>3. CASE ShutdownStopsServer
  BY <1>0, <1>3, StepOrder DEF ShutdownStopsServer
<1>4. CASE ShutdownGRPC
  <2>1. /\ shutdown.step = 4 /\ shutdown.owner # "none" /\ "grpc" \in b.down
        /\ shutdown'.step = 5 /\ shutdown'.owner = shutdown.owner
        /\ UNCHANGED <<main, serve, worker, monitor>>
    BY <1>0, <1>4, StepOrder DEF ShutdownGRPC, Advance, AtStep
  <2>2. /\ b' \in Shared /\ b'.errors = b.errors /\ b'.down = b.down /\ b'.requests = b.requests
        /\ b'.ready = b.ready /\ b'.stopped = b.stopped /\ b'.closed = b.closed
        /\ b.requests = 0 \/ b'.forced
    BY <1>4, Zenon DEF ShutdownGRPC
  <2>3. ControlOK'
    BY <1>0, <1>4, <2>1 DEF ShutdownGRPC, Advance
  <2> HIDE DEF Shared, ControlOK
  <2> QED
    BY <1>0, <2>1, <2>2, <2>3
<1>5. CASE ShutdownHTTP
  BY <1>0, <1>5, StepOrder DEF ShutdownHTTP, Advance
<1>6. CASE ShutdownReturns
  <2>1. /\ shutdown.step = 9 /\ shutdown.owner # "none"
        /\ shutdown'.step = 10 /\ shutdown'.owner = shutdown.owner
        /\ UNCHANGED <<serve, worker>>
    BY <1>0, <1>6, StepOrder DEF ShutdownReturns, Advance, AtStep
  <2>2. /\ b' \in Shared /\ b'.errors = b.errors /\ b'.down = b.down /\ b'.requests = b.requests
        /\ b'.forced = b.forced /\ b'.ready = b.ready /\ b'.stopped = b.stopped /\ b'.closed = b.closed
    BY <1>6, Zenon DEF ShutdownReturns
  <2>3. /\ main' \in {main, "clean", "error"}
        /\ monitor' \in {monitor, "done"}
    BY <1>6 DEF ShutdownReturns, Returned
  <2>4. ControlOK' /\ main' \notin {"start", "window", "ready", "monitor"}
    BY <1>0, <1>6, <2>1, <2>3 DEF ShutdownReturns, Advance
  <2> HIDE DEF Shared, ControlOK
  <2> QED
    BY <1>0, <2>1, <2>2, <2>3, <2>4
<1> QED
  BY <1>1, <1>2, <1>3, <1>4, <1>5, <1>6, ShutdownCallIInv DEF Shutdown

\* Every step preserves the inductive invariant.
LEMMA BrokerNextIInv == BrokerIInv /\ [BrokerNext]_brokerVars => BrokerIInv'
<1> SUFFICES ASSUME BrokerIInv, [BrokerNext]_brokerVars PROVE BrokerIInv'
  OBVIOUS
<1>1. CASE Signal \/ MainSeesDone
  BY <1>1 DEF Signal, MainSeesDone, BrokerIInv, ControlOK, ErrorsOK, Reported, StartsAlone, Progress
<1>2. CASE UNCHANGED brokerVars
  BY <1>2 DEF brokerVars, BrokerIInv, ControlOK, ErrorsOK, Reported, StartsAlone, Progress
<1> QED
  BY <1>1, <1>2, StartIInv, GoroutinesIInv, ShutdownIInv DEF BrokerNext

\* The inductive invariant holds in every reachable state.
THEOREM BrokerInvariance == BrokerSpec => []BrokerIInv
  BY BrokerInitIInv, BrokerNextIInv, PTL DEF BrokerSpec

\* The shared state keeps its types; above all, serveErrCh never holds more
\* than the two errors it has room for, so that no serving goroutine blocks
\* on it and serveWG.Wait is not held up.
THEOREM BrokerTypesKept == BrokerSpec => []BrokerTypeOK
<1>1. BrokerIInv => BrokerTypeOK
  <2>1. Len(ShutdownSteps) + 1 = 10
    BY DEF ShutdownSteps
  <2> QED
    BY <2>1 DEF BrokerIInv, ControlOK, BrokerTypeOK
<1> QED
  BY BrokerInvariance, <1>1, PTL

\* Once Shutdown has marked the broker unready, nothing marks it ready again.
THEOREM ReadinessStaysWithdrawn == BrokerSpec => []UnreadyWhileStopping
<1>1. BrokerIInv => UnreadyWhileStopping
  BY DEF BrokerIInv, Progress, UnreadyWhileStopping
<1> QED
  BY BrokerInvariance, <1>1, PTL

\* When a store is closed, the retention worker and the serving loops have
\* ended, and a handler can be left only after a forced stop.
THEOREM StoresClosedLast == BrokerSpec => []StorageClosedLast
<1>1. BrokerIInv => StorageClosedLast
  BY DEF BrokerIInv, ControlOK, Progress, StorageClosedLast
<1> QED
  BY BrokerInvariance, <1>1, PTL
=============================================================================
