SPECIFICATION BrokerSpec

CONSTANT
  MaxRequests = 2

INVARIANTS
  BrokerTypeOK
  UnreadyWhileStopping
  StorageClosedLast
PROPERTIES
  FailureEndsProcess
  SignalEndsProcess
