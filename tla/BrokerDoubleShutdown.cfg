SPECIFICATION BrokerSpec

CONSTANT
  MaxRequests = 1

INVARIANT
  CleanExitClosesStorage
