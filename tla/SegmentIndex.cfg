SPECIFICATION Spec

CONSTANTS
  IndexInterval = 4
  HeaderBytes = 1
  MaxRecords = 2
  MaxBatches = 4
  MaxOpens = 3

INVARIANTS
  IndexTypeOK
  LookupSound
  UndamagedKept
