SPECIFICATION FairSpec
CONSTANTS
  Workers = {w1, w2}
  NoWorker = NoWorker
  Orphan = Orphan
  Undef = Undef
  NumEvents = 2
  Chain <- MCShortChain
  MaxLedger = 3
  StartLedger = Undef
  Retention = 1
  PageSize = 2
  Malformed = {2}
  FaultKinds = {"handler", "save", "session", "crash", "lag"}
  MaxFaults = 2
INVARIANTS NoSilentSkip PollConsistent
PROPERTIES EventuallySettled
