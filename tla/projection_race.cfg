SPECIFICATION RaceSpec
CONSTANTS
  StreamIds = {s1}
  Absent = Absent
  NumEvents = 3
  Amounts = {1}
  Deposit = 2
  MaxBroken = 0
  MaxRedeliveries = 0
  MaxAttempts = 3
INVARIANTS CancelledHasNoBalance
CHECK_DEADLOCK FALSE
