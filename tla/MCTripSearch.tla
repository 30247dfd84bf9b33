---------------------------- MODULE MCTripSearch ------------------------------
EXTENDS TripSearch, TLC

CONSTANTS d1, d2

MCDate == {d1, d2}

\* Searches of one day, of which one wants a seat.
MCCriteria == {[date |-> d1, least |-> n] : n \in {0, 1}}

Symmetry == Permutations(Request)
==============================================================================
