SPECIFICATION FairSpec
CONSTANTS
  Free = Free
  Booking = {b1}
  Request = {r1}
  Consumers = {"ticket-worker", "email-worker", "booking-service", "seat-inventory"}
  MaxSent = 2
  Faults = {"stamp", "ack"}
CHECK_DEADLOCK FALSE
INVARIANT OnceOnly
PROPERTY WorkGetsDone
