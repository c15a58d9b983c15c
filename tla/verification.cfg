SPECIFICATION Spec
CONSTANTS
  Owners = {o1, o2}
  Absent = Absent
  Concurrency = 2
  MaxEvents = 3
SYMMETRY MCSymmetry
INVARIANTS TypeOK VerifiedIsAudited CaughtUpAgrees QuietFixAgrees
CHECK_DEADLOCK FALSE
