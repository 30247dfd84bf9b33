-------------------------- MODULE MCSeatInventory --------------------------
(* Instances of SeatInventoryHistory small enough to explore completely. *)
EXTENDS SeatInventoryHistory, TLC

Symmetry == Permutations(Token) \cup Permutations(Call) \cup Permutations(Seat)
=============================================================================
