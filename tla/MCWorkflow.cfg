SPECIFICATION Spec
CONSTANTS
  Free = Free
  Booking = {b1}
  Request = {r1, r2}
  Consumers = {"ticket-worker", "email-worker", "booking-service", "seat-inventory"}
  MaxSent = 2
  Faults = {"ack", "handler", "commit"}
CHECK_DEADLOCK FALSE
SYMMETRY Symmetry
INVARIANT NobodyLeftBehind
INVARIANT WorkKept
PROPERTY BoardsOpenTripOnly
PROPERTY ImplementsLifecycle
