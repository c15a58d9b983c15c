SPECIFICATION Spec
CONSTANTS
  e1 = e1
  e2 = e2
  n1 = n1
  x = x
  y = y
  Processes = {p1, p2}
  Calls = {c1, c2}
  Events = {e1, e2, n1}
  NoId = {n1}
  Endpoints = {x, y}
  Subscribed <- MCSubscribed
  Url = Url
  Idle = Idle
  Cap = 1
  Builds = {TRUE, FALSE}
  MaxCalls = 3
  MaxFaults = 2
  MaxChanges = 1
SYMMETRY MCSymmetry
INVARIANTS TypeOK DuplicatesHaveCause RecordedSuccessIsReal
PROPERTIES RememberedWasAccepted
CHECK_DEADLOCK FALSE
