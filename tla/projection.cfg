SPECIFICATION Spec
CONSTANTS
  StreamIds = {s1}
  Absent = Absent
  NumEvents = 3
  Amounts = {0, 1}
  Deposit = 2
  MaxBroken = 1
  MaxRedeliveries = 2
  MaxAttempts = 3
INVARIANTS TypeOK WithdrawnIsAudited MatchesChain NothingForgotten
PROPERTIES CancelledIsFinal ImplementsLedger
CHECK_DEADLOCK FALSE
