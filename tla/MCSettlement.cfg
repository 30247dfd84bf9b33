SPECIFICATION Spec
CONSTANTS
  None = None
  s1 = s1
  s2 = s2
  b1 = b1
  b2 = b2
  b3 = b3
  Seat = {s1, s2}
  Token = {b1, b2, b3}
  Payer = {p1, p2, p3}
  SeatsOf <- MCSeatsOf
  Faults = {"crash", "timeout", "redis"}
CHECK_DEADLOCK FALSE
SYMMETRY Symmetry
INVARIANT TypeOK
INVARIANT PaidOwnsSeats
INVARIANT OneSettlement
PROPERTY ImplementsLifecycle
