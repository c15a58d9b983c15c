SPECIFICATION Spec
CONSTANTS
  StreamIds = {s1}
  Absent = Absent
  NumEvents = 3
  Amounts = {1, 2}
  Deposit = 3
  MaxBroken = 1
  MaxRedeliveries = 0
  MaxAttempts = 3
PROPERTIES RepairedCreatedDispatched
CHECK_DEADLOCK FALSE
