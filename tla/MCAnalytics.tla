---------------------------- MODULE MCAnalytics ----------------------------
(* A few bookings settled and cancelled around midnight. *)
EXTENDS Analytics, TLC

Symmetry == Permutations(Booking)
=============================================================================
