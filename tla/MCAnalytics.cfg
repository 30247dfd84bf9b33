SPECIFICATION FairSpec
CONSTANTS
  Booking = {b1, b2}
  LastDay = 2
  MaxSearches = 1
  MaxLog = 4
  EarlierPaid = 9
  EarlierSearches = 1
  Faults = {"stamp", "stuck", "offset"}
CHECK_DEADLOCK FALSE
INVARIANT Books
PROPERTY RecordsApplied
