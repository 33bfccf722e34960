SPECIFICATION ReadSpec

CONSTANTS
  Earliest = 2
  MaxLog = 5
  MaxSize = 2
  MaxBytes = 5

INVARIANTS
  ReadExact
