SPECIFICATION PowerSpec

CONSTANTS
  FlushMode = "sync"
  HeaderBytes = 1
  RecordBytes = 1
  SegmentMaxBytes = 5
  MaxBatchBytes = 3
  MaxRelative = 1
  IndexEntryBytes = 1
  MaxAge = 1
  MaxPartitionBytes = 4
  Journaled = TRUE
  MaxRecords = 2
  MaxSent = 4
  Times <- MCTimes

INVARIANTS
  TypeOK
  SegmentsContiguous
  MemoryMatchesDisk
  AckedRetained
  OnlyActiveTailDamaged
