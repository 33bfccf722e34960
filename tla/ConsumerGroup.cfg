SPECIFICATION GroupSpec

CONSTANTS
  FlushMode = "async"
  HeaderBytes = 1
  RecordBytes = 1
  SegmentMaxBytes = 6
  MaxBatchBytes = 3
  MaxRelative = 1
  IndexEntryBytes = 1
  MaxAge = 1
  MaxPartitionBytes = 4
  Journaled = TRUE
  MaxRecords = 2
  MaxSent = 3
  Times <- MCTimes

INVARIANTS
  GroupTypeOK
  ResponseCoversRecords
  CommittedWithinLog
  DeliveredStable
  AtLeastOnce
  RecoveryAccepts
  LogTiled
PROPERTIES
  DeletesOnlyExpired
  ImplementsLog
