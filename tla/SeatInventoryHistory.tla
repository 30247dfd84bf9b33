------------------------- MODULE SeatInventoryHistory -------------------------
(***************************************************************************)
(* SeatInventory with two history variables, for promises that its own     *)
(* variables do not tell: which holds were written over a seat that was    *)
(* not for sale any more, and for which booking sold seats were released.  *)
(***************************************************************************)
EXTENDS SeatInventory

VARIABLES
    heldTaken,  \* holds <<token, seat>> written over a BOOKED or BLOCKED seat that is so since
    releaser    \* the booking whose ReleaseBookedSeats the last step was, None if it was none

historyVars == <<vars, heldTaken, releaser>>

HistoryInit ==
    /\ Init
    /\ heldTaken = {}
    /\ releaser = None

\* The holds this step writes over a seat that is sold or blocked.
WrittenOverTaken ==
    {p \in Token \X Seat : /\ hold[p[2]] # p[1] /\ hold'[p[2]] = p[1]
                           /\ seatStatus[p[2]] # "AVAILABLE"}

\* A token that was refused is drawn again in a bounded instance: it is a new
\* UUID then, without a history.
HistoryNext ==
    /\ \/ OtherNext /\ releaser' = None
       \/ \E t \in Token : ReleaseBookedSeats(t) /\ releaser' = t
    /\ heldTaken' = {p \in heldTaken \cup WrittenOverTaken :
                        seatStatus'[p[2]] # "AVAILABLE" /\ ~ Unissued(p[1])'}

HistorySpec == HistoryInit /\ [][HistoryNext]_historyVars

------------------------------------------------------------------------------
(* Properties. *)

(* "This closes the race where a concurrent block or booking confirmation
   commits between the initial PostgreSQL read and the Redis write;
   persistence wins and the stale hold is removed" (README of the service):
   a hold written over a seat that was blocked or sold by then, and is so
   still, is never handed out. *)
TakenSeatNeverGranted == \A p \in heldTaken : p[1] \notin granted

(* "A different booking may never claim those seats" (docs/API_CONTRACT.md):
   a seat sold to a booking stays sold to it until ReleaseBookedSeats is
   called for that very booking; a release, a confirmation or a block for
   anybody else leaves it alone.  A seat an administrator blocked stays
   blocked. *)
SoldSeatsStay ==
    [][\A s \in Seat :
          /\ seatStatus[s] = "BOOKED" =>
                \/ seatStatus'[s] = "AVAILABLE" /\ releaser' = seatBooking[s]
                \/ seatStatus'[s] = "BOOKED" /\ seatBooking'[s] = seatBooking[s]
          /\ seatStatus[s] = "BLOCKED" => seatStatus'[s] = "BLOCKED"]_rowVars
===============================================================================
