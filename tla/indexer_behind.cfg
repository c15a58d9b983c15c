SPECIFICATION Spec
CONSTANTS
  Workers = {w1}
  NoWorker = NoWorker
  Orphan = Orphan
  Undef = Undef
  NumEvents = 2
  Chain <- MCShortChain
  MaxLedger = 3
  StartLedger = 1
  Retention = 3
  PageSize = 2
  Malformed = {}
  FaultKinds = {"behind"}
  MaxFaults = 1
INVARIANTS NoSilentSkip
