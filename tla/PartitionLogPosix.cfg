SPECIFICATION PowerSpec

CONSTANTS
  FlushMode = "sync"
  HeaderBytes = 1
  RecordBytes = 1
  SegmentMaxBytes = 4
  MaxBatchBytes = 3
  MaxRelative = 9
  IndexEntryBytes = 1
  MaxAge = 1
  MaxPartitionBytes = 4
  Journaled = FALSE
  MaxRecords = 2
  MaxSent = 3
  Times <- MCOneTime

INVARIANTS
  AckedRetained
