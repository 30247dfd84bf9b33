------------------------------ MODULE SeatStore ------------------------------
(***************************************************************************)
(* The two stores Seat Inventory keeps for one trip, and the atomic        *)
(* operations it performs on them: the PostgreSQL rows of trip_seats       *)
(* (repositories/seatRepository.js) and the temporary holds in Redis       *)
(* (redis/holdStore.js).  Every operator below is ONE statement, script or *)
(* command of the code; what interleaves between them is modelled in       *)
(* SeatInventory and BookingSettlement.                                    *)
(*                                                                         *)
(* bookings.hold_token is unique (schema.sql), so a booking is named here  *)
(* by the hold token it was created from: seatBooking holds a Token.       *)
(* Two parts of the data are not kept: the requester id and expiresAt of a *)
(* hold payload (nothing decides on them), and the HELD value the CHECK    *)
(* constraint of trip_seats allows but no statement writes.                *)
(***************************************************************************)
CONSTANTS
    Seat,    \* seat labels of the trip
    Token,   \* hold tokens, and the bookings they are bound to
    None     \* no token, no booking, no lock holder

ASSUME NoneIsNoToken == None \notin Token

VARIABLES
    seatStatus,   \* trip_seats.status
    seatBooking,  \* trip_seats.booking_id
    hold,         \* Redis key hold:{trip}:{seat} -> its token, None when absent
    tokenIndex    \* Redis key hold-token:{token} -> the keys it lists, {} when absent

storeVars == <<seatStatus, seatBooking, hold, tokenIndex>>

SeatStates == {"AVAILABLE", "BOOKED", "BLOCKED"}

StoreTypeOK ==
    /\ seatStatus \in [Seat -> SeatStates]
    /\ seatBooking \in [Seat -> Token \cup {None}]
    /\ hold \in [Seat -> Token \cup {None}]
    /\ tokenIndex \in [Token -> SUBSET Seat]

StoreInit ==
    /\ seatStatus = [s \in Seat |-> "AVAILABLE"]
    /\ seatBooking = [s \in Seat |-> None]
    /\ hold = [s \in Seat |-> None]
    /\ tokenIndex = [t \in Token |-> {}]

------------------------------------------------------------------------------
(* Reads. *)

\* The snapshot check of HoldSeats and ValidateHold: no row BLOCKED or BOOKED.
Sellable(S) == \A s \in S : seatStatus[s] \notin {"BOOKED", "BLOCKED"}

BookedFor(t, s) == seatStatus[s] = "BOOKED" /\ seatBooking[s] = t

BookedBy(t) == {s \in Seat : BookedFor(t, s)}

\* The check ConfirmSeats makes on the locked rows.
TakenByOther(t, S) ==
    \E s \in S : \/ seatStatus[s] = "BLOCKED"
                 \/ seatStatus[s] = "BOOKED" /\ seatBooking[s] # t

\* MGET of the seat keys; every payload must carry the token.
Covers(t, S) == \A s \in S : hold[s] = t

HeldBy(t) == {s \in Seat : hold[s] = t}

------------------------------------------------------------------------------
(* Writes. *)

\* The Lua script: it fails if any key exists, and else sets all of them and
\* the index of the token.
CreateHold(t, S) ==
    /\ \A s \in S : hold[s] = None
    /\ hold' = [s \in Seat |-> IF s \in S THEN t ELSE hold[s]]
    /\ tokenIndex' = [tokenIndex EXCEPT ![t] = S]

\* DEL of hold keys, whoever owns them at that moment, and of index keys.
DeleteKeys(S, T) ==
    /\ hold' = [s \in Seat |-> IF s \in S THEN None ELSE hold[s]]
    /\ tokenIndex' = [t \in Token |-> IF t \in T THEN {} ELSE tokenIndex[t]]

\* releaseHoldByToken, where what interleaves with its commands is of no account.
RemoveHold(t) == DeleteKeys(HeldBy(t), {t})

\* The script sets the hold keys one after another and their index last, each
\* with a TTL of its own: the next one runs out.
DropExpired(t) ==
    \/ \E s \in HeldBy(t) : DeleteKeys({s}, {})
    \/ HeldBy(t) = {} /\ tokenIndex[t] # {} /\ DeleteKeys({}, {t})

\* The UPDATE of confirmTripSeats, its row count already known to match.
BookRows(t, S) ==
    /\ seatStatus' = [s \in Seat |-> IF s \in S THEN "BOOKED" ELSE seatStatus[s]]
    /\ seatBooking' = [s \in Seat |-> IF s \in S THEN t ELSE seatBooking[s]]

\* Mutant form: rows BOOKED for any booking are released.
ReleasableRowsAny(t, S) == {s \in S : seatStatus[s] = "BOOKED"}

\* The rows the UPDATE of releaseBookedTripSeats matches, and the UPDATE.
ReleasableRows(t, S) == {s \in S : BookedFor(t, s)}

\* Mutant form: the status goes back to HELD, which the schema allows.
FreeRowsToHeld(t, S) ==
    LET R == ReleasableRows(t, S)
    IN  /\ seatStatus' = [s \in Seat |-> IF s \in R THEN "HELD" ELSE seatStatus[s]]
        /\ seatBooking' = [s \in Seat |-> IF s \in R THEN None ELSE seatBooking[s]]

FreeRows(t, S) ==
    LET R == ReleasableRows(t, S)
    IN  /\ seatStatus' = [s \in Seat |-> IF s \in R THEN "AVAILABLE" ELSE seatStatus[s]]
        /\ seatBooking' = [s \in Seat |-> IF s \in R THEN None ELSE seatBooking[s]]

BlockRows(S) ==
    /\ seatStatus' = [s \in Seat |-> IF s \in S THEN "BLOCKED" ELSE seatStatus[s]]
    /\ seatBooking' = [s \in Seat |-> IF s \in S THEN None ELSE seatBooking[s]]
==============================================================================
