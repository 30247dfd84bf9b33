SPECIFICATION FairSpec
CONSTANTS
  None = None
  s1 = s1
  s2 = s2
  b1 = b1
  b2 = b2
  b3 = b3
  Seat = {s1, s2}
  Token = {b1, b2}
  Payer = {p1, p2}
  SeatsOf <- MCSeatsOf
  Faults = {"commit", "redis"}
CHECK_DEADLOCK FALSE
PROPERTY SeatsComeBack
PROPERTY PendingIsTransient
