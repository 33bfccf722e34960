SPECIFICATION ManagerSpec

CONSTANTS
  a = a
  b = b
  Topics <- MCTopics
  MaxPartitions = 2
  MaxCreations = 4

SYMMETRY MCSymmetry

INVARIANTS
  ManagerTypeOK
  
  CreatedTopicsServed
  RecordsKept
