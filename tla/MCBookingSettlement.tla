------------------------ MODULE MCBookingSettlement ------------------------
(* Customers whose bookings compete for seats, and their payment requests. *)
EXTENDS BookingSettlement, TLC

CONSTANTS s1, s2, b1, b2, b3

\* b1 and b3 do not compete; b2 competes with both.
MCSeatsOf == [b \in Token |-> CASE b = b1 -> {s1}
                                [] b = b2 -> {s1, s2}
                                [] OTHER  -> {s2}]

Symmetry == Permutations(Payer)
=============================================================================
