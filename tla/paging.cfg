SPECIFICATION FairSpec
CONSTANTS
  Rows <- MCRows
  Keys = {1, 2}
  Listings <- AllListings
  Limits = {1, 2}
  Unborn = Unborn
  Gone = Gone
  NoCursor = NoCursor
  MaxOffset = 2
  MaxChanges = 3
INVARIANTS TypeOK PrefixReturned NothingMissed
PROPERTIES EventuallyDone
CHECK_DEADLOCK FALSE
