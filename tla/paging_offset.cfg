SPECIFICATION Spec
CONSTANTS
  Rows <- MCRows
  Keys = {1, 2}
  Listings = {"pending"}
  Limits = {1}
  Unborn = Unborn
  Gone = Gone
  NoCursor = NoCursor
  MaxOffset = 2
  MaxChanges = 1
INVARIANTS OffsetPagesWhole
CHECK_DEADLOCK FALSE
