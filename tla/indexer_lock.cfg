SPECIFICATION FairSpec
CONSTANTS
  Workers = {w1, w2}
  NoWorker = NoWorker
  Orphan = Orphan
  Undef = Undef
  NumEvents = 3
  Chain <- MCChain
  MaxLedger = 4
  StartLedger = 1
  Retention = 2
  PageSize = 2
  Malformed = {2}
  FaultKinds = {"rpc", "db", "handler", "ack", "crash", "stop"}
  MaxFaults = 3
INVARIANTS TypeOK OnePoller OnlyInFlightAtRisk
PROPERTIES ImplementsEventLog EventuallySaved
