------------------------- MODULE MCBookingWorkflow -------------------------
(* Passengers of one trip, staff and customers acting at once. *)
EXTENDS BookingWorkflow, TLC

Symmetry == Permutations(Booking) \cup Permutations(Request)
=============================================================================
