SPECIFICATION StoreSpec

CONSTANTS
  Keys <- MCKeys
  MaxCommits = 5

INVARIANTS
  StoreTypeOK
  MapIsReplay
  AckedSurvives
