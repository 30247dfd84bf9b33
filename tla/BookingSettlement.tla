-------------------------- MODULE BookingSettlement --------------------------
(***************************************************************************)
(* SimulatePayment of Booking Service (index.js, settleBookingPayment in   *)
(* repository.js) together with what races it: other payment requests for  *)
(* the same booking, the expiration sweep, cancellation, ticket issuing,   *)
(* the TTL of the hold, and Seat Inventory's ConfirmSeats, which runs on   *)
(* the other side of a gRPC call with a deadline.                          *)
(*                                                                         *)
(* A payment request holds the booking row (FOR NO KEY UPDATE) from its    *)
(* first read until it commits or rolls back, across two remote calls.     *)
(* When ConfirmSeats succeeded and the transaction then failed, the        *)
(* request compensates AFTER the row lock is gone: it reads the booking    *)
(* and, if that is not settled, releases the seats.                        *)
(*                                                                         *)
(* A booking is named by its hold token (SeatStore).  HoldSeats is one     *)
(* step here; SeatInventory has its interleavings.                         *)
(***************************************************************************)
EXTENDS SeatStore

CONSTANTS
    SeatsOf,   \* the seats of each booking's passengers
    Payer,     \* slots for concurrently running payment requests
    Faults     \* the failures that may happen, a subset of FaultKinds

Booking == Token

FaultKinds == {"crash",         \* the Booking Service process dies
               "timeout",       \* the ConfirmSeats deadline passes
               "commit",        \* the settlement transaction fails at its end
               "redis"}         \* removing a confirmed hold fails

ASSUME SeatsOfBookings == SeatsOf \in [Booking -> (SUBSET Seat) \ {{}}]
ASSUME NoneIsNoPayer == None \notin Payer
ASSUME KnownFaults == Faults \subseteq FaultKinds

VARIABLES
    bookingStatus,  \* bookings.status; HELD, VALIDATED: no row yet
    bookingLock,    \* the payment request that has the booking row locked
    pay,            \* each payment request
    toRelease       \* booking.cancelled events Seat Inventory has not finished

settlementVars == <<bookingStatus, bookingLock, pay, toRelease>>
vars == <<storeVars, settlementVars>>
rowVars == <<seatStatus, seatBooking>>
redisVars == <<hold, tokenIndex>>

Unsaved == {"NONE", "HELD", "VALIDATED"}
Settled == {"PAID", "TICKET_ISSUED"}
BookingStates == Unsaved \cup Settled \cup {"PENDING_PAYMENT", "EXPIRED", "CANCELLED"}

\* The request side.  "gone": nobody waits for the ConfirmSeats handler now.
PaySteps == {"idle", "charge", "confirm", "commit", "fetch", "release", "gone"}

\* The ConfirmSeats handler this request started.
RpcSteps == {"none", "validate", "book", "ok", "rejected"}

Requests == [step : PaySteps, booking : Booking \cup {None}, rpc : RpcSteps]

TypeOK ==
    /\ StoreTypeOK
    /\ bookingStatus \in [Booking -> BookingStates]
    /\ bookingLock \in [Booking -> Payer \cup {None}]
    /\ pay \in [Payer -> Requests]
    /\ toRelease \in SUBSET Booking

NoRequest == [step |-> "idle", booking |-> None, rpc |-> "none"]

Init ==
    /\ StoreInit
    /\ bookingStatus = [b \in Booking |-> "NONE"]
    /\ bookingLock = [b \in Booking |-> None]
    /\ pay = [p \in Payer |-> NoRequest]
    /\ toRelease = {}

SetStatus(b, st) == bookingStatus' = [bookingStatus EXCEPT ![b] = st]

\* COMMIT or ROLLBACK of the settlement transaction of p.
EndTransaction(p) ==
    bookingLock' = [b \in Booking |-> IF bookingLock[b] = p THEN None ELSE bookingLock[b]]

Step(p, step) == pay' = [pay EXCEPT ![p].step = step]

\* The request is over.  Its ConfirmSeats handler may still be running.
Leave(p) ==
    pay' = [pay EXCEPT ![p] = IF @.rpc \in {"validate", "book"}
                              THEN [@ EXCEPT !.step = "gone"]
                              ELSE NoRequest]

\* A ConfirmSeats transaction has these rows locked.
RowsLocked(S) == \E p \in Payer : pay[p].rpc = "book" /\ SeatsOf[pay[p].booking] \cap S # {}

------------------------------------------------------------------------------
(* Before payment. *)

HoldSeats(b) ==
    /\ bookingStatus[b] = "NONE"
    /\ Sellable(SeatsOf[b])
    /\ CreateHold(b, SeatsOf[b])
    /\ SetStatus(b, "HELD")
    /\ UNCHANGED <<rowVars, bookingLock, pay, toRelease>>

\* The TTL of a key runs out; nothing here looks at an index without keys.
HoldExpires(b) ==
    /\ HeldBy(b) # {}
    /\ DropExpired(b)
    /\ UNCHANGED <<rowVars, settlementVars>>

\* createBookingWithEvents: ValidateHold ...
ValidateSeatHold(b) ==
    /\ bookingStatus[b] = "HELD"
    /\ Covers(b, SeatsOf[b])
    /\ Sellable(SeatsOf[b])
    /\ SetStatus(b, "VALIDATED")
    /\ UNCHANGED <<storeVars, bookingLock, pay, toRelease>>

\* ... then createBooking, which does not look at the hold again.
CreateBooking(b) ==
    /\ bookingStatus[b] = "VALIDATED"
    /\ SetStatus(b, "PENDING_PAYMENT")
    /\ UNCHANGED <<storeVars, bookingLock, pay, toRelease>>

------------------------------------------------------------------------------
(* settleBookingPayment *)

\* SELECT ... FOR NO KEY UPDATE.  A settled booking is returned as it is and
\* any other status is refused: neither is a step.
PayStart(p, b) ==
    /\ pay[p].step = "idle"
    /\ bookingLock[b] = None
    /\ bookingStatus[b] = "PENDING_PAYMENT"
    /\ bookingLock' = [bookingLock EXCEPT ![b] = p]
    /\ pay' = [pay EXCEPT ![p] = [step |-> "charge", booking |-> b, rpc |-> "none"]]
    /\ UNCHANGED <<storeVars, bookingStatus, toRelease>>

\* Payment Service answers; on success ConfirmSeats is called.
PayCharged(p) ==
    /\ pay[p].step = "charge"
    /\ pay' = [pay EXCEPT ![p] = [step |-> "confirm", booking |-> @.booking, rpc |-> "validate"]]
    /\ UNCHANGED <<storeVars, bookingStatus, bookingLock, toRelease>>

PayDeclined(p) ==
    /\ pay[p].step = "charge"
    /\ EndTransaction(p)
    /\ Leave(p)
    /\ UNCHANGED <<storeVars, bookingStatus, toRelease>>

\* The reply of ConfirmSeats: confirmedSeats is set, or the error rolls back.
ConfirmReply(p) ==
    /\ pay[p].step = "confirm"
    /\ \/ /\ pay[p].rpc = "ok"
          /\ pay' = [pay EXCEPT ![p] = [step |-> "commit", booking |-> @.booking, rpc |-> "none"]]
          /\ UNCHANGED bookingLock
       \/ /\ pay[p].rpc = "rejected"
          /\ EndTransaction(p)
          /\ Leave(p)
    /\ UNCHANGED <<storeVars, bookingStatus, toRelease>>

\* The deadline passes first: the request rolls back with confirmedSeats
\* still null, so there is no compensation, while the handler keeps running.
ConfirmDeadline(p) ==
    /\ "timeout" \in Faults
    /\ pay[p].step = "confirm"
    /\ EndTransaction(p)
    /\ Leave(p)
    /\ UNCHANGED <<storeVars, bookingStatus, toRelease>>

\* UPDATE ... WHERE status = 'PENDING_PAYMENT', the events, COMMIT.
PayCommit(p) ==
    LET b == pay[p].booking
    IN  /\ pay[p].step = "commit"
        /\ bookingStatus[b] = "PENDING_PAYMENT"
        /\ SetStatus(b, "PAID")
        /\ EndTransaction(p)
        /\ Leave(p)
        /\ UNCHANGED <<storeVars, toRelease>>

\* The update finds no PENDING_PAYMENT row, or a statement fails; when COMMIT
\* itself fails the transaction may have been applied.
PayCommitFails(p) ==
    LET b == pay[p].booking
    IN  /\ pay[p].step = "commit"
        /\ \/ /\ bookingStatus[b] # "PENDING_PAYMENT"
              /\ UNCHANGED bookingStatus
           \/ /\ "commit" \in Faults
              /\ bookingStatus[b] = "PENDING_PAYMENT"
              /\ SetStatus(b, "PAID") \/ UNCHANGED bookingStatus
        /\ EndTransaction(p)
        /\ Step(p, "fetch")
        /\ UNCHANGED <<storeVars, toRelease>>

\* Mutant form: the failure is rethrown without compensating.
CompensateSkipped(p) ==
    /\ pay[p].step = "fetch"
    /\ Leave(p)
    /\ UNCHANGED <<storeVars, bookingStatus, bookingLock, toRelease>>

\* fetchBookingByCode, without a lock.
CompensateFetch(p) ==
    /\ pay[p].step = "fetch"
    /\ IF bookingStatus[pay[p].booking] \in Settled THEN Leave(p) ELSE Step(p, "release")
    /\ UNCHANGED <<storeVars, bookingStatus, bookingLock, toRelease>>

\* releaseBookedSeats: only rows BOOKED by this booking.
CompensateRelease(p) ==
    LET b == pay[p].booking
    IN  /\ pay[p].step = "release"
        /\ ~RowsLocked(ReleasableRows(b, SeatsOf[b]))
        /\ FreeRows(b, SeatsOf[b])
        /\ Leave(p)
        /\ UNCHANGED <<redisVars, bookingStatus, bookingLock, toRelease>>

\* The process dies; PostgreSQL rolls its transaction back.  An error while
\* compensating, which is logged and swallowed, looks the same.
Crash(p) ==
    /\ "crash" \in Faults
    /\ pay[p].step \in {"charge", "confirm", "commit", "fetch", "release"}
    /\ EndTransaction(p)
    /\ Leave(p)
    /\ UNCHANGED <<storeVars, bookingStatus, toRelease>>

------------------------------------------------------------------------------
(* ConfirmSeats in Seat Inventory, on behalf of request p. *)

\* The handler ends: its caller is waiting for the reply, or gone.
Answer(p, reply) ==
    pay' = [pay EXCEPT ![p] = IF @.step = "gone" THEN NoRequest ELSE [@ EXCEPT !.rpc = reply]]

\* Row locks, the state of the rows, and the hold.
ConfirmValidate(p) ==
    LET b == pay[p].booking
        S == SeatsOf[b]
    IN  /\ pay[p].rpc = "validate"
        /\ ~RowsLocked(S)
        /\ \/ /\ TakenByOther(b, S)
              /\ Answer(p, "rejected")
           \/ /\ \A s \in S : BookedFor(b, s)
              /\ Answer(p, "ok")
           \/ /\ ~TakenByOther(b, S)
              /\ ~ \A s \in S : BookedFor(b, s)
              /\ IF Covers(b, S)
                 THEN pay' = [pay EXCEPT ![p].rpc = "book"]
                 ELSE Answer(p, "rejected")
        /\ UNCHANGED <<storeVars, bookingStatus, bookingLock, toRelease>>

\* UPDATE and COMMIT, then the hold is removed if Redis allows.
ConfirmBook(p) ==
    LET b == pay[p].booking
    IN  /\ pay[p].rpc = "book"
        /\ BookRows(b, SeatsOf[b])
        /\ \/ RemoveHold(b)
           \/ "redis" \in Faults /\ UNCHANGED redisVars
        /\ Answer(p, "ok")
        /\ UNCHANGED <<bookingStatus, bookingLock, toRelease>>

\* An administrator blocks seats nobody bought, and drops their holds.
BlockSeats(S) ==
    /\ S # {}
    /\ ~RowsLocked(S)
    /\ \A s \in S : seatStatus[s] = "AVAILABLE"
    /\ BlockRows(S)
    /\ DeleteKeys(S, {t \in Token : \E s \in S : hold[s] = t})
    /\ UNCHANGED settlementVars

------------------------------------------------------------------------------
(* The other transitions of the booking row. *)

\* Mutant form: the sweep does not skip rows a payment has locked.
ExpirableAnyLock(b) == bookingStatus[b] = "PENDING_PAYMENT" /\ HeldBy(b) = {}

\* Mutant form: the age test is the wrong way round, so only young bookings
\* expire, whose holds still live.
ExpirableYoung(b) ==
    /\ bookingStatus[b] = "PENDING_PAYMENT"
    /\ bookingLock[b] = None
    /\ HeldBy(b) # {}

\* created_at is older than 300 s, so the hold, which is older than the row
\* and lives 300 s, is gone; FOR UPDATE SKIP LOCKED.
Expirable(b) ==
    /\ bookingStatus[b] = "PENDING_PAYMENT"
    /\ bookingLock[b] = None
    /\ HeldBy(b) = {}

\* booking.expired makes Seat Inventory release the hold, which is gone.
ExpirePending(b) ==
    /\ Expirable(b)
    /\ SetStatus(b, "EXPIRED")
    /\ UNCHANGED <<storeVars, bookingLock, pay, toRelease>>

\* Mutant form: canCancel was tested before the row was locked.
CancelBookingStale(b) ==
    /\ bookingLock[b] = None
    /\ bookingStatus[b] \in Settled
    /\ SetStatus(b, "CANCELLED")
    /\ toRelease' = toRelease \cup {b}
    /\ UNCHANGED <<storeVars, bookingLock, pay>>

\* cancelBooking: canCancel is tested again on the locked row.
CancelBooking(b) ==
    /\ bookingLock[b] = None
    /\ bookingStatus[b] = "PAID"
    /\ SetStatus(b, "CANCELLED")
    /\ toRelease' = toRelease \cup {b}
    /\ UNCHANGED <<storeVars, bookingLock, pay>>

\* ReleaseBookedSeats for a cancelled booking: the immediate RPC (the event is
\* still to come) or the booking.cancelled event.
ReleaseCancelled(b) ==
    /\ b \in toRelease
    /\ ~RowsLocked(ReleasableRows(b, SeatsOf[b]))
    /\ FreeRows(b, SeatsOf[b])
    /\ \/ UNCHANGED toRelease
       \/ toRelease' = toRelease \ {b}
    /\ UNCHANGED <<redisVars, bookingStatus, bookingLock, pay>>

\* issueTickets of the Ticket Worker, on the locked row.
IssueTickets(b) ==
    /\ bookingLock[b] = None
    /\ bookingStatus[b] = "PAID"
    /\ SetStatus(b, "TICKET_ISSUED")
    /\ UNCHANGED <<storeVars, bookingLock, pay, toRelease>>

------------------------------------------------------------------------------
Request(p) ==
    \/ PayCharged(p)
    \/ PayDeclined(p)
    \/ ConfirmReply(p)
    \/ PayCommit(p)
    \/ PayCommitFails(p)
    \/ CompensateFetch(p)
    \/ CompensateRelease(p)

Failure(p) ==
    \/ ConfirmDeadline(p)
    \/ Crash(p)

Confirmation(p) == ConfirmValidate(p) \/ ConfirmBook(p)

Next ==
    \/ \E p \in Payer, b \in Booking : PayStart(p, b)
    \/ \E p \in Payer : Request(p) \/ Failure(p) \/ Confirmation(p)
    \/ \E S \in SUBSET Seat : BlockSeats(S)
    \/ \E b \in Booking : HoldSeats(b)
    \/ \E b \in Booking : HoldExpires(b)
    \/ \E b \in Booking : ValidateSeatHold(b)
    \/ \E b \in Booking : CreateBooking(b)
    \/ \E b \in Booking : ExpirePending(b)
    \/ \E b \in Booking : CancelBooking(b)
    \/ \E b \in Booking : ReleaseCancelled(b)
    \/ \E b \in Booking : IssueTickets(b)

Spec == Init /\ [][Next]_vars

\* Handlers run to their end, the sweep and the TTL keep ticking, and the
\* broker redelivers booking.cancelled as long as it is unacknowledged; a
\* handler error, which dead-letters it, is a fault of BookingWorkflow.
\* Customers need not hold, pay or cancel anything.
Fairness ==
    /\ \A p \in Payer : WF_vars(Request(p)) /\ WF_vars(Confirmation(p))
    /\ \A b \in Booking : /\ WF_vars(HoldExpires(b))
                          /\ WF_vars(ExpirePending(b))
                          /\ WF_vars(ReleaseCancelled(b) /\ b \notin toRelease')

FairSpec == Spec /\ Fairness

------------------------------------------------------------------------------
(* Properties. *)

(* "On success, Booking Service confirms seats through Seat Inventory and
   marks booking PAID" (docs/ARCHITECTURE.md): a booking that counts as paid
   owns every one of its seats, however its payment was interleaved with
   retries, expiry, cancellations of others and late ConfirmSeats handlers. *)
PaidOwnsSeats ==
    \A b \in Booking : bookingStatus[b] \in Settled => BookedBy(b) = SeatsOf[b]

(* "A different booking may never claim those seats" (docs/API_CONTRACT.md):
   no seat is sold to two paid bookings. *)
NoDoubleSale ==
    \A b, x \in Booking :
        (b # x /\ bookingStatus[b] \in Settled /\ bookingStatus[x] \in Settled)
            => SeatsOf[b] \cap SeatsOf[x] = {}

(* "An expiry sweep must skip a booking whose payment transition is in
   progress" (docs/API_CONTRACT.md), and at most one request settles a
   booking: while a request is between its first read and its commit, the
   booking stays PENDING_PAYMENT and no other request works on it. *)
OneSettlement ==
    \A p \in Payer : pay[p].step \in {"charge", "confirm", "commit"} =>
        /\ bookingStatus[pay[p].booking] = "PENDING_PAYMENT"
        /\ \A q \in Payer \ {p} : pay[q].booking = pay[p].booking =>
              pay[q].step \notin {"charge", "confirm", "commit"}

(* The booking state machine of docs/ARCHITECTURE.md section 6, and the sale
   of every seat to one booking at a time. *)
LifecycleState ==
    [b \in Booking |-> IF bookingStatus[b] \in Unsaved THEN "DRAFT" ELSE bookingStatus[b]]

Lifecycle == INSTANCE BookingLifecycle WITH state <- LifecycleState

ImplementsLifecycle == Lifecycle!Spec

(* "If seat confirmation succeeds but the booking transaction fails, Booking
   Service releases only seats still owned by the non-paid booking" (README
   of booking-service), and a cancelled booking gives its seats back: seats
   do not stay sold to a booking that ended unpaid. *)
SeatsComeBack ==
    \A b \in Booking : bookingStatus[b] \in {"EXPIRED", "CANCELLED"} ~> BookedBy(b) = {}

(* No unpaid booking is left alone for ever: it is settled, it expires, or
   payment requests keep working on it. *)
PendingIsTransient ==
    \A b \in Booking :
        []<>(bookingStatus[b] # "PENDING_PAYMENT" \/ bookingLock[b] # None)
==============================================================================
