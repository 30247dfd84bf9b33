--------------------------- MODULE MCTripTopology ----------------------------
EXTENDS TripTopology, TLC

Symmetry == Permutations(Admin) \cup Permutations(Vehicle) \cup Permutations(Seat)
==============================================================================
