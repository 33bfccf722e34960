SPECIFICATION Spec
CONSTANTS
  PartitionCount = 2
  Earlier = 1
  Workers = {w1, w2}
  Total = 3
  BatchSize = 2
  MaxClaimed = 4
  Fetchers = {f1, f2}
  Target = 0
  MaxFetch = 2
  MaxObserved = 2
INVARIANT DurationIgnoresCount
