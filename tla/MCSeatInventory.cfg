SPECIFICATION HistorySpec
CONSTANTS
  None = None
  Seat = {s1, s2}
  Token = {t1, t2}
  Call = {c1, c2}
SYMMETRY Symmetry
INVARIANT TypeOK
INVARIANT AllOrNone
INVARIANT TakenSeatNeverGranted
PROPERTY SoldSeatsStay
PROPERTY ReleaseIsComplete
