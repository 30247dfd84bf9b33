----------------------- MODULE BookingSettlementProofs -----------------------
(***************************************************************************)
(* For every set of seats, bookings and payment requests:                  *)
(*   - whatever fails, at most one request settles a booking at a time and *)
(*     nothing else moves the booking meanwhile (OneSettlement);           *)
(*   - when the settlement transaction itself never fails after            *)
(*     ConfirmSeats, whatever else fails, paid bookings own their seats,   *)
(*     no seat is sold twice and BookingSettlement implements              *)
(*     BookingLifecycle.                                                   *)
(* The second assumption is needed: the run MCSettlementRace shows a       *)
(* double sale without it.                                                 *)
(***************************************************************************)
EXTENDS BookingSettlement, TLAPS

USE NoneIsNoToken, NoneIsNoPayer, SeatsOfBookings DEF Booking

Settling == {"charge", "confirm", "commit"}

\* A settling request has its booking row locked, and nobody has moved the row.
LockInv ==
    \A p \in Payer : pay[p].step \in Settling =>
        /\ bookingLock[pay[p].booking] = p
        /\ bookingStatus[pay[p].booking] = "PENDING_PAYMENT"

\* Which ConfirmSeats handlers there are: those of a request that waits or left.
RpcInv ==
    \A p \in Payer :
        /\ pay[p].step # "idle" => pay[p].booking \in Booking
        /\ pay[p].rpc # "none" => pay[p].step \in {"confirm", "gone"}

IInv == TypeOK /\ LockInv /\ RpcInv

LEMMA InitInv == Init => IInv
  BY DEF Init, StoreInit, IInv, TypeOK, StoreTypeOK, SeatStates, LockInv, RpcInv, Settling,
         NoRequest, BookingStates, Unsaved, Settled, Requests, PaySteps, RpcSteps

------------------------------------------------------------------------------
(* The statements on the stores keep their types. *)

LEMMA StoreTypes ==
    ASSUME StoreTypeOK, NEW t \in Token, NEW S \in SUBSET Seat, NEW T
    PROVE  /\ CreateHold(t, S) /\ UNCHANGED rowVars => StoreTypeOK'
           /\ DeleteKeys(S, T) /\ UNCHANGED rowVars => StoreTypeOK'
           /\ DropExpired(t) /\ UNCHANGED rowVars => StoreTypeOK'
           /\ BookRows(t, S) /\ (RemoveHold(t) \/ UNCHANGED redisVars) => StoreTypeOK'
           /\ FreeRows(t, S) /\ UNCHANGED redisVars => StoreTypeOK'
           /\ UNCHANGED storeVars => StoreTypeOK'
  <1> USE DEF StoreTypeOK, rowVars, redisVars, SeatStates
  <1>1. CreateHold(t, S) /\ UNCHANGED rowVars => StoreTypeOK'
    BY DEF CreateHold
  <1>2. DeleteKeys(S, T) /\ UNCHANGED rowVars => StoreTypeOK'
    BY DEF DeleteKeys
  <1>3. DropExpired(t) /\ UNCHANGED rowVars => StoreTypeOK'
    BY DEF DropExpired, DeleteKeys
  <1>4. BookRows(t, S) /\ (RemoveHold(t) \/ UNCHANGED redisVars) => StoreTypeOK'
    BY DEF BookRows, RemoveHold, DeleteKeys
  <1>5. FreeRows(t, S) /\ UNCHANGED redisVars => StoreTypeOK'
    BY DEF FreeRows
  <1>6. UNCHANGED storeVars => StoreTypeOK'
    BY DEF storeVars
  <1> QED
    BY <1>1, <1>2, <1>3, <1>4, <1>5, <1>6

------------------------------------------------------------------------------
(* Steps of one request. *)

RpcOf(p) ==
    /\ pay[p].step # "idle" => pay[p].booking \in Booking
    /\ pay[p].rpc # "none" => pay[p].step \in {"confirm", "gone"}

LEMMA LeaveFacts ==
    ASSUME IInv, NEW p \in Payer, Leave(p)
    PROVE  /\ pay' \in [Payer -> Requests]
           /\ \A q \in Payer \ {p} : pay'[q] = pay[q]
           /\ pay'[p].step \in {"idle", "gone"}
           /\ pay'[p].rpc # "none" => /\ pay'[p].rpc = pay[p].rpc
                                      /\ pay[p].rpc \in {"validate", "book"}
                                      /\ pay'[p].booking = pay[p].booking
           /\ RpcOf(p)'
  <1> USE DEF IInv, TypeOK, Requests, PaySteps, RpcSteps, RpcInv, RpcOf
  <1>1. CASE pay[p].rpc \in {"validate", "book"}
    <2>1. pay' = [pay EXCEPT ![p] = [pay[p] EXCEPT !.step = "gone"]]
      BY <1>1 DEF Leave
    <2> QED
      BY <1>1, <2>1
  <1>2. CASE pay[p].rpc \notin {"validate", "book"}
    <2>1. pay' = [pay EXCEPT ![p] = NoRequest]
      BY <1>2 DEF Leave
    <2> QED
      BY <2>1 DEF NoRequest
  <1> QED
    BY <1>1, <1>2

LEMMA AnswerFacts ==
    ASSUME IInv, NEW p \in Payer, pay[p].rpc \in {"validate", "book"},
           NEW reply \in {"ok", "rejected"}, Answer(p, reply)
    PROVE  /\ pay' \in [Payer -> Requests]
           /\ \A q \in Payer \ {p} : pay'[q] = pay[q]
           /\ RpcOf(p)'
           /\ \/ pay'[p] = NoRequest
              \/ /\ pay[p].step = "confirm"
                 /\ pay'[p].step = "confirm"
                 /\ pay'[p].booking = pay[p].booking
                 /\ pay'[p].rpc = reply
  <1> USE DEF IInv, TypeOK, Requests, PaySteps, RpcSteps, RpcInv, RpcOf
  <1>1. CASE pay[p].step = "gone"
    <2>1. pay' = [pay EXCEPT ![p] = NoRequest]
      BY <1>1 DEF Answer
    <2> QED
      BY <2>1 DEF NoRequest
  <1>2. CASE pay[p].step # "gone"
    <2>1. pay' = [pay EXCEPT ![p] = [pay[p] EXCEPT !.rpc = reply]]
      BY <1>2 DEF Answer
    <2> QED
      BY <1>2, <2>1
  <1> QED
    BY <1>1, <1>2

\* A step of request p that does not move its booking's row.
LEMMA RequestInv ==
    ASSUME IInv, NEW p \in Payer,
           pay' \in [Payer -> Requests],
           \A q \in Payer \ {p} : pay'[q] = pay[q],
           RpcOf(p)', StoreTypeOK', UNCHANGED <<bookingStatus, toRelease>>,
           \/ /\ UNCHANGED bookingLock
              /\ pay'[p].step \in Settling => /\ pay[p].step \in Settling
                                              /\ pay'[p].booking = pay[p].booking
           \/ EndTransaction(p) /\ pay'[p].step \notin Settling
    PROVE  IInv'
  <1>1. /\ bookingLock' \in [Booking -> Payer \cup {None}]
        /\ \A b \in Booking, q \in Payer \ {p} : bookingLock[b] = q => bookingLock'[b] = q
    BY DEF IInv, TypeOK, EndTransaction
  <1>2. TypeOK'
    BY <1>1 DEF IInv, TypeOK
  <1>3. LockInv'
    BY <1>1 DEF IInv, LockInv, RpcInv, Settling
  <1>4. RpcInv'
    BY DEF IInv, RpcInv, RpcOf
  <1> QED
    BY <1>2, <1>3, <1>4 DEF IInv

\* A step that moves a booking no request is settling.
LEMMA StatusInv ==
    ASSUME IInv, NEW b \in Booking, NEW st \in BookingStates, SetStatus(b, st),
           bookingLock[b] = None \/ bookingStatus[b] # "PENDING_PAYMENT",
           UNCHANGED <<bookingLock, pay>>, StoreTypeOK', toRelease' \in SUBSET Booking
    PROVE  IInv'
  <1>1. TypeOK'
    BY DEF IInv, TypeOK, SetStatus
  <1>2. LockInv'
    BY DEF IInv, TypeOK, LockInv, RpcInv, Settling, SetStatus
  <1>3. RpcInv'
    BY DEF IInv, RpcInv
  <1> QED
    BY <1>1, <1>2, <1>3 DEF IInv

LEMMA RequestStepInv ==
    ASSUME IInv, NEW p \in Payer,
           \/ PayCharged(p) \/ PayDeclined(p) \/ ConfirmReply(p)
           \/ CompensateFetch(p) \/ CompensateRelease(p)
           \/ ConfirmDeadline(p) \/ Crash(p)
    PROVE  IInv'
  <1> USE DEF Settling
  <1>1. CASE PayCharged(p)
    <2>1. /\ pay' \in [Payer -> Requests]
          /\ \A q \in Payer \ {p} : pay'[q] = pay[q]
          /\ RpcOf(p)'
          /\ pay'[p].booking = pay[p].booking
      BY <1>1 DEF PayCharged, IInv, TypeOK, Requests, PaySteps, RpcSteps, RpcInv, RpcOf
    <2> QED
      BY <1>1, <2>1, RequestInv, StoreTypes DEF PayCharged, IInv, TypeOK, storeVars, StoreTypeOK
  <1>2. CASE PayDeclined(p) \/ ConfirmDeadline(p) \/ Crash(p)
    <2>1. EndTransaction(p) /\ Leave(p) /\ UNCHANGED <<storeVars, bookingStatus, toRelease>>
      BY <1>2 DEF PayDeclined, ConfirmDeadline, Crash
    <2> QED
      BY <2>1, LeaveFacts, RequestInv DEF IInv, TypeOK, storeVars, StoreTypeOK
  <1>3. CASE ConfirmReply(p)
    <2>1. CASE EndTransaction(p) /\ Leave(p)
      BY <1>3, <2>1, LeaveFacts, RequestInv DEF ConfirmReply, IInv, TypeOK, storeVars, StoreTypeOK
    <2>2. CASE /\ pay' = [pay EXCEPT ![p] = [step |-> "commit", booking |-> @.booking, rpc |-> "none"]]
               /\ UNCHANGED bookingLock
      <3>1. /\ pay' \in [Payer -> Requests]
            /\ \A q \in Payer \ {p} : pay'[q] = pay[q]
            /\ RpcOf(p)'
            /\ pay[p].step \in Settling
            /\ pay'[p].booking = pay[p].booking
        BY <1>3, <2>2
           DEF ConfirmReply, IInv, TypeOK, Requests, PaySteps, RpcSteps, RpcInv, RpcOf
      <3> QED
        BY <1>3, <2>2, <3>1, RequestInv DEF ConfirmReply, IInv, TypeOK, storeVars, StoreTypeOK
    <2> QED
      BY <1>3, <2>1, <2>2 DEF ConfirmReply
  <1>4. CASE CompensateFetch(p)
    <2>1. CASE Leave(p)
      BY <1>4, <2>1, LeaveFacts, RequestInv DEF CompensateFetch, IInv, TypeOK, storeVars, StoreTypeOK
    <2>2. CASE Step(p, "release")
      <3>1. /\ pay' \in [Payer -> Requests]
            /\ \A q \in Payer \ {p} : pay'[q] = pay[q]
            /\ RpcOf(p)'
            /\ pay'[p].step = "release"
        BY <1>4, <2>2
           DEF CompensateFetch, Step, IInv, TypeOK, Requests, PaySteps, RpcSteps, RpcInv, RpcOf
      <3> QED
        BY <1>4, <3>1, RequestInv DEF CompensateFetch, IInv, TypeOK, storeVars, StoreTypeOK
    <2> QED
      BY <1>4, <2>1, <2>2 DEF CompensateFetch
  <1>5. CASE CompensateRelease(p)
    <2>1. pay[p].booking \in Token /\ SeatsOf[pay[p].booking] \in SUBSET Seat
      BY <1>5 DEF CompensateRelease, IInv, RpcInv
    <2>2. StoreTypeOK'
      BY <1>5, <2>1, StoreTypes DEF CompensateRelease, IInv, TypeOK
    <2> QED
      BY <1>5, <2>2, LeaveFacts, RequestInv DEF CompensateRelease
  <1> QED
    BY <1>1, <1>2, <1>3, <1>4, <1>5

LEMMA PayStartInv ==
    ASSUME IInv, NEW p \in Payer, NEW b \in Booking, PayStart(p, b)
    PROVE  IInv'
  <1>1. /\ pay' \in [Payer -> Requests]
        /\ \A q \in Payer \ {p} : pay'[q] = pay[q]
        /\ pay'[p].booking = b
        /\ pay'[p].rpc = "none"
    BY DEF PayStart, IInv, TypeOK, Requests, PaySteps, RpcSteps
  <1>2. /\ bookingLock' \in [Booking -> Payer \cup {None}]
        /\ bookingLock'[b] = p
        /\ \A x \in Booking \ {b} : bookingLock'[x] = bookingLock[x]
        /\ bookingLock[b] = None
    BY DEF PayStart, IInv, TypeOK
  <1>3. TypeOK'
    BY <1>1, <1>2 DEF PayStart, IInv, TypeOK, StoreTypeOK, storeVars
  <1>4. LockInv'
    BY <1>1, <1>2 DEF PayStart, IInv, LockInv, RpcInv, Settling
  <1>5. RpcInv'
    BY <1>1 DEF IInv, RpcInv
  <1> QED
    BY <1>3, <1>4, <1>5 DEF IInv

\* The settlement transaction ends after its UPDATE: the row it moves is locked
\* by p, so no other request is settling it.
LEMMA PayEndInv ==
    ASSUME IInv, NEW p \in Payer, PayCommit(p) \/ PayCommitFails(p)
    PROVE  IInv'
  <1> DEFINE b == pay[p].booking
  <1>1. /\ b \in Booking
        /\ pay[p].step = "commit"
        /\ pay[p].rpc = "none"
        /\ bookingLock[b] = p
    BY DEF PayCommit, PayCommitFails, IInv, LockInv, RpcInv, Settling
  <1>2. /\ pay' \in [Payer -> Requests]
        /\ \A q \in Payer \ {p} : pay'[q] = pay[q]
        /\ RpcOf(p)'
        /\ pay'[p].step \notin Settling
    <2>1. CASE PayCommit(p)
      BY <2>1, LeaveFacts DEF PayCommit, Settling
    <2>2. CASE PayCommitFails(p)
      <3>1. Step(p, "fetch")
        BY <2>2 DEF PayCommitFails
      <3> QED
        BY <1>1, <3>1 DEF Step, IInv, TypeOK, Requests, PaySteps, RpcOf, Settling
    <2> QED
      BY <2>1, <2>2
  <1>3. EndTransaction(p) /\ UNCHANGED <<storeVars, toRelease>>
    BY DEF PayCommit, PayCommitFails
  <1>4. SetStatus(b, "PAID") \/ UNCHANGED bookingStatus
    BY DEF PayCommit, PayCommitFails
  <1>5. /\ bookingStatus' \in [Booking -> BookingStates]
        /\ \A x \in Booking \ {b} : bookingStatus'[x] = bookingStatus[x]
    BY <1>4 DEF SetStatus, IInv, TypeOK, BookingStates, Settled
  <1>6. /\ bookingLock' \in [Booking -> Payer \cup {None}]
        /\ \A x \in Booking, q \in Payer \ {p} : bookingLock[x] = q => bookingLock'[x] = q
    BY <1>3 DEF IInv, TypeOK, EndTransaction
  <1>7. TypeOK'
    BY <1>2, <1>3, <1>5, <1>6 DEF IInv, TypeOK, StoreTypeOK, storeVars
  <1>8. LockInv'
    <2> SUFFICES ASSUME NEW q \in Payer, pay'[q].step \in Settling
                 PROVE  /\ bookingLock'[pay'[q].booking] = q
                        /\ bookingStatus'[pay'[q].booking] = "PENDING_PAYMENT"
      BY DEF LockInv
    <2>1. q # p /\ pay'[q] = pay[q]
      BY <1>2
    <2>2. /\ bookingLock[pay[q].booking] = q
          /\ bookingStatus[pay[q].booking] = "PENDING_PAYMENT"
          /\ pay[q].booking \in Booking
      BY <2>1 DEF IInv, LockInv, RpcInv, Settling
    <2> QED
      BY <1>1, <1>5, <1>6, <2>1, <2>2
  <1>9. RpcInv'
    BY <1>2 DEF IInv, RpcInv, RpcOf
  <1> QED
    BY <1>7, <1>8, <1>9 DEF IInv

\* ConfirmSeats works on the seats; the bookings' rows are not its business.
LEMMA ConfirmationInv ==
    ASSUME IInv, NEW p \in Payer, ConfirmValidate(p) \/ ConfirmBook(p)
    PROVE  IInv'
  <1> DEFINE b == pay[p].booking
  <1>1. /\ pay[p].rpc \in {"validate", "book"}
        /\ pay[p].step \in {"confirm", "gone"}
        /\ b \in Token
        /\ SeatsOf[b] \in SUBSET Seat
    BY DEF ConfirmValidate, ConfirmBook, IInv, RpcInv
  <1>2. UNCHANGED <<bookingStatus, bookingLock, toRelease>>
    BY DEF ConfirmValidate, ConfirmBook
  <1>3. StoreTypeOK'
    <2>1. CASE ConfirmValidate(p)
      BY <2>1 DEF ConfirmValidate, IInv, TypeOK, StoreTypeOK, storeVars
    <2>2. CASE ConfirmBook(p)
      BY <1>1, <2>2, StoreTypes DEF ConfirmBook, IInv, TypeOK
    <2> QED
      BY <2>1, <2>2
  <1>4. CASE Answer(p, "ok") \/ Answer(p, "rejected")
    <2>1. /\ pay' \in [Payer -> Requests]
          /\ \A q \in Payer \ {p} : pay'[q] = pay[q]
          /\ RpcOf(p)'
          /\ pay'[p].step \in Settling => /\ pay[p].step \in Settling
                                          /\ pay'[p].booking = pay[p].booking
      BY <1>1, <1>4, AnswerFacts DEF NoRequest, Settling
    <2> QED
      BY <1>2, <1>3, <2>1, RequestInv
  <1>5. CASE pay' = [pay EXCEPT ![p].rpc = "book"]
    <2>1. /\ pay' \in [Payer -> Requests]
          /\ \A q \in Payer \ {p} : pay'[q] = pay[q]
          /\ RpcOf(p)'
          /\ pay'[p].step = pay[p].step
          /\ pay'[p].booking = pay[p].booking
      BY <1>1, <1>5 DEF IInv, TypeOK, Requests, RpcSteps, RpcInv, RpcOf
    <2> QED
      BY <1>2, <1>3, <2>1, RequestInv
  <1> QED
    BY <1>4, <1>5 DEF ConfirmValidate, ConfirmBook

\* Everything that happens to a booking besides payment.
LEMMA BookingStepInv ==
    ASSUME IInv, NEW b \in Booking,
           \/ HoldSeats(b) \/ HoldExpires(b) \/ ValidateSeatHold(b) \/ CreateBooking(b)
           \/ ExpirePending(b) \/ CancelBooking(b) \/ ReleaseCancelled(b) \/ IssueTickets(b)
    PROVE  IInv'
  <1> USE DEF IInv, TypeOK
  <1>1. b \in Token /\ SeatsOf[b] \in SUBSET Seat
    OBVIOUS
  <1>2. CASE HoldSeats(b)
    <2>1. StoreTypeOK'
      BY <1>1, <1>2, StoreTypes DEF HoldSeats
    <2> QED
      BY <1>2, <2>1, StatusInv DEF HoldSeats, BookingStates, Unsaved
  <1>3. CASE ValidateSeatHold(b) \/ CreateBooking(b) \/ ExpirePending(b) \/ IssueTickets(b)
    <2>1. StoreTypeOK' /\ toRelease' \in SUBSET Booking
      BY <1>3 DEF ValidateSeatHold, CreateBooking, ExpirePending, IssueTickets, StoreTypeOK, storeVars
    <2> QED
      BY <1>3, <2>1, StatusInv
         DEF ValidateSeatHold, CreateBooking, ExpirePending, Expirable, IssueTickets,
             BookingStates, Unsaved, Settled
  <1>4. CASE CancelBooking(b)
    BY <1>4, StatusInv DEF CancelBooking, BookingStates, StoreTypeOK, storeVars
  <1>5. CASE HoldExpires(b) \/ ReleaseCancelled(b)
    <2>1. StoreTypeOK'
      BY <1>1, <1>5, StoreTypes DEF HoldExpires, ReleaseCancelled
    <2>2. toRelease' \in SUBSET Booking /\ UNCHANGED <<bookingStatus, bookingLock, pay>>
      BY <1>5 DEF HoldExpires, ReleaseCancelled, settlementVars
    <2> QED
      BY <2>1, <2>2 DEF LockInv, RpcInv
  <1> QED
    BY <1>2, <1>3, <1>4, <1>5

LEMMA NextInv == IInv /\ [Next]_vars => IInv'
  <1> SUFFICES ASSUME IInv, [Next]_vars PROVE IInv'
    OBVIOUS
  <1>1. ASSUME NEW p \in Payer, Request(p) \/ Failure(p) \/ Confirmation(p) PROVE IInv'
    BY <1>1, RequestStepInv, PayEndInv, ConfirmationInv DEF Request, Failure, Confirmation
  <1>2. ASSUME NEW S \in SUBSET Seat, BlockSeats(S) PROVE IInv'
    <2>1. StoreTypeOK' /\ UNCHANGED settlementVars
      BY <1>2 DEF BlockSeats, BlockRows, DeleteKeys, IInv, TypeOK, StoreTypeOK, SeatStates
    <2> QED
      BY <2>1 DEF IInv, TypeOK, LockInv, RpcInv, settlementVars
  <1>3. CASE UNCHANGED vars
    BY <1>3 DEF vars, storeVars, settlementVars, IInv, TypeOK, StoreTypeOK, LockInv, RpcInv
  <1> QED
    BY <1>1, <1>2, <1>3, PayStartInv, BookingStepInv DEF Next

THEOREM InvariantHolds == Spec => []IInv
  BY InitInv, NextInv, PTL DEF Spec

(* The variables keep their types in every reachable state. *)
THEOREM TypeCorrect == Spec => []TypeOK
  BY InvariantHolds, PTL DEF IInv

(* At most one request settles a booking, and the expiration sweep, ticket
   issuing and cancellation leave the booking alone meanwhile, whatever fails. *)
THEOREM SettlesAlone == Spec => []OneSettlement
  <1>1. IInv => OneSettlement
    BY DEF IInv, LockInv, RpcInv, OneSettlement, Settling
  <1> QED
    BY <1>1, InvariantHolds, PTL

------------------------------------------------------------------------------
(* Seats.  From here on the settlement transaction does not fail after      *)
(* ConfirmSeats succeeded, so no request ever compensates.                  *)

\* The request p knows that its seats are confirmed.
Confirmed(p) ==
    \/ pay[p].step = "commit"
    \/ pay[p].step = "confirm" /\ pay[p].rpc = "ok"

\* A ConfirmSeats handler is about to write the rows of b.
Books(p, b) == pay[p].rpc = "book" /\ pay[p].booking = b

NoCompensation == \A p \in Payer : pay[p].step \notin {"fetch", "release"}

OwnSeatsOnly == \A b \in Booking : BookedBy(b) \subseteq SeatsOf[b]

ConfirmedOwnsSeats ==
    \A p \in Payer : Confirmed(p) => BookedBy(pay[p].booking) = SeatsOf[pay[p].booking]

\* The rows a handler is about to write are locked: nobody else's, and free.
BooksFreeRows ==
    \A p \in Payer, b \in Booking : Books(p, b) => ~TakenByOther(b, SeatsOf[b])

BooksApart ==
    \A p, q \in Payer, b, x \in Booking :
        (p # q /\ Books(p, b) /\ Books(q, x)) => SeatsOf[b] \cap SeatsOf[x] = {}

ReleasesCancelledOnly == \A b \in toRelease : bookingStatus[b] = "CANCELLED"

SaleInv ==
    /\ NoCompensation
    /\ OwnSeatsOnly
    /\ PaidOwnsSeats
    /\ ConfirmedOwnsSeats
    /\ BooksFreeRows
    /\ BooksApart
    /\ ReleasesCancelledOnly

LEMMA SaleInit == Init => SaleInv
  <1> SUFFICES ASSUME Init PROVE SaleInv
    OBVIOUS
  <1>1. \A b \in Booking : BookedBy(b) = {}
    BY DEF Init, StoreInit, BookedBy, BookedFor
  <1>2. \A p \in Payer : ~Confirmed(p) /\ pay[p].rpc = "none" /\ pay[p].step = "idle"
    BY DEF Init, NoRequest, Confirmed
  <1> QED
    BY <1>1, <1>2 DEF Init, SaleInv, NoCompensation, OwnSeatsOnly, PaidOwnsSeats, Settled,
       ConfirmedOwnsSeats, BooksFreeRows, BooksApart, Books, ReleasesCancelledOnly

\* A step that writes no row, confirms no request without its seats, and starts
\* no writer.
LEMMA RowsUnchanged ==
    ASSUME SaleInv, UNCHANGED rowVars,
           \A b \in Booking :
               bookingStatus'[b] \in Settled => BookedBy(b) = SeatsOf[b],
           \A b \in toRelease' : bookingStatus'[b] = "CANCELLED",
           \A p \in Payer :
               /\ pay'[p].step \notin {"fetch", "release"}
               /\ Confirmed(p)' => BookedBy(pay'[p].booking) = SeatsOf[pay'[p].booking]
               /\ \A b \in Booking : Books(p, b)' => Books(p, b)
    PROVE  SaleInv'
  <1>1. \A b \in Booking : BookedBy(b)' = BookedBy(b)
    BY DEF BookedBy, BookedFor, rowVars
  <1>2. \A b : BookedBy(b)' = BookedBy(b)
    BY DEF BookedBy, BookedFor, rowVars
  <1>3. NoCompensation' /\ ReleasesCancelledOnly'
    BY DEF NoCompensation, ReleasesCancelledOnly
  <1>4. OwnSeatsOnly' /\ PaidOwnsSeats'
    BY <1>1 DEF SaleInv, OwnSeatsOnly, PaidOwnsSeats
  <1>5. ConfirmedOwnsSeats'
    BY <1>2 DEF ConfirmedOwnsSeats
  <1>6. BooksFreeRows' /\ BooksApart'
    BY DEF SaleInv, BooksFreeRows, BooksApart, TakenByOther, rowVars
  <1> QED
    BY <1>3, <1>4, <1>5, <1>6 DEF SaleInv

\* Request steps but PayStart and PayCommit: the request moves on, or leaves.
LEMMA RequestSale ==
    ASSUME "commit" \notin Faults, IInv, SaleInv, NEW p \in Payer,
           \/ PayCharged(p) \/ PayDeclined(p) \/ ConfirmReply(p) \/ PayCommit(p)
           \/ PayCommitFails(p) \/ CompensateFetch(p) \/ CompensateRelease(p)
           \/ ConfirmDeadline(p) \/ Crash(p)
    PROVE  SaleInv'
  <1>1. ~PayCommitFails(p)
    BY DEF PayCommitFails, IInv, LockInv, Settling
  <1>2. /\ ~CompensateFetch(p)
        /\ ~CompensateRelease(p)
    BY DEF SaleInv, NoCompensation, CompensateFetch, CompensateRelease
  <1>3. UNCHANGED rowVars /\ UNCHANGED toRelease
    BY <1>1, <1>2 DEF PayCharged, PayDeclined, ConfirmReply, PayCommit, ConfirmDeadline, Crash,
                      storeVars, rowVars
  <1>4. /\ \A q \in Payer \ {p} : pay'[q] = pay[q]
        /\ pay'[p].step \notin {"fetch", "release"}
        /\ Confirmed(p)' => Confirmed(p) /\ pay'[p].booking = pay[p].booking
        /\ \A b \in Booking : Books(p, b)' => Books(p, b)
    <2>1. CASE Leave(p)
      BY <2>1, LeaveFacts DEF Confirmed, Books
    <2>2. CASE PayCharged(p)
      <3>1. pay'[p] = [step |-> "confirm", booking |-> pay[p].booking, rpc |-> "validate"]
        BY <2>2 DEF PayCharged, IInv, TypeOK
      <3>2. \A q \in Payer \ {p} : pay'[q] = pay[q]
        BY <2>2 DEF PayCharged, IInv, TypeOK
      <3> QED
        BY <3>1, <3>2 DEF Confirmed, Books
    <2>3. CASE /\ pay[p].step = "confirm"
               /\ pay[p].rpc = "ok"
               /\ pay' = [pay EXCEPT ![p] = [step |-> "commit", booking |-> @.booking, rpc |-> "none"]]
      <3>1. pay'[p] = [step |-> "commit", booking |-> pay[p].booking, rpc |-> "none"]
        BY <2>3 DEF IInv, TypeOK
      <3>2. \A q \in Payer \ {p} : pay'[q] = pay[q]
        BY <2>3 DEF IInv, TypeOK
      <3> QED
        BY <2>3, <3>1, <3>2 DEF Confirmed, Books
    <2> QED
      BY <1>1, <1>2, <2>1, <2>2, <2>3 DEF PayDeclined, ConfirmReply, PayCommit, ConfirmDeadline, Crash
  <1>5. \A b \in Booking : /\ bookingStatus'[b] \in Settled => BookedBy(b) = SeatsOf[b]
                           /\ bookingStatus[b] = "CANCELLED" => bookingStatus'[b] = "CANCELLED"
    <2>1. CASE UNCHANGED bookingStatus
      BY <2>1 DEF SaleInv, PaidOwnsSeats
    <2>2. CASE PayCommit(p)
      <3>1. /\ pay[p].booking \in Booking
            /\ BookedBy(pay[p].booking) = SeatsOf[pay[p].booking]
        BY <2>2 DEF PayCommit, IInv, RpcInv, SaleInv, ConfirmedOwnsSeats, Confirmed
      <3> QED
        BY <2>2, <3>1 DEF PayCommit, SetStatus, IInv, TypeOK, SaleInv, PaidOwnsSeats, Settled
    <2> QED
      BY <1>1, <1>2, <2>1, <2>2 DEF PayCharged, PayDeclined, ConfirmReply, ConfirmDeadline, Crash
  <1>6. \A b \in toRelease' : bookingStatus'[b] = "CANCELLED"
    BY <1>3, <1>5 DEF IInv, TypeOK, SaleInv, ReleasesCancelledOnly
  <1>7. \A q \in Payer : /\ pay'[q].step \notin {"fetch", "release"}
                         /\ Confirmed(q)' => BookedBy(pay'[q].booking) = SeatsOf[pay'[q].booking]
                         /\ \A b \in Booking : Books(q, b)' => Books(q, b)
    BY <1>4 DEF SaleInv, NoCompensation, ConfirmedOwnsSeats, Confirmed, Books
  <1> QED
    BY <1>3, <1>5, <1>6, <1>7, RowsUnchanged

LEMMA PayStartSale ==
    ASSUME IInv, SaleInv, NEW p \in Payer, NEW b \in Booking, PayStart(p, b)
    PROVE  SaleInv'
  <1>1. /\ pay'[p] = [step |-> "charge", booking |-> b, rpc |-> "none"]
        /\ \A q \in Payer \ {p} : pay'[q] = pay[q]
    BY DEF PayStart, IInv, TypeOK
  <1>2. UNCHANGED <<rowVars, bookingStatus, toRelease>>
    BY DEF PayStart, storeVars, rowVars
  <1>3. \A q \in Payer : /\ pay'[q].step \notin {"fetch", "release"}
                         /\ Confirmed(q)' => BookedBy(pay'[q].booking) = SeatsOf[pay'[q].booking]
                         /\ \A x \in Booking : Books(q, x)' => Books(q, x)
    BY <1>1 DEF SaleInv, NoCompensation, ConfirmedOwnsSeats, Confirmed, Books
  <1> QED
    BY <1>2, <1>3, RowsUnchanged DEF SaleInv, PaidOwnsSeats, ReleasesCancelledOnly

LEMMA BookingSale ==
    ASSUME IInv, SaleInv, NEW b \in Booking,
           \/ HoldSeats(b) \/ HoldExpires(b) \/ ValidateSeatHold(b) \/ CreateBooking(b)
           \/ ExpirePending(b) \/ CancelBooking(b) \/ IssueTickets(b)
    PROVE  SaleInv'
  <1>1. UNCHANGED <<rowVars, pay>>
    BY DEF HoldSeats, HoldExpires, ValidateSeatHold, CreateBooking, ExpirePending, CancelBooking,
           IssueTickets, storeVars, rowVars, settlementVars
  <1>2. \A x \in Booking : /\ bookingStatus'[x] \in Settled => bookingStatus[x] \in Settled
                           /\ bookingStatus[x] = "CANCELLED" => bookingStatus'[x] = "CANCELLED"
    BY DEF HoldSeats, HoldExpires, ValidateSeatHold, CreateBooking, ExpirePending, Expirable,
           CancelBooking, IssueTickets, settlementVars, SetStatus, IInv, TypeOK, Settled
  <1>3. \A x \in toRelease' : bookingStatus'[x] = "CANCELLED"
    <2>1. CASE CancelBooking(b)
      BY <1>2, <2>1
         DEF CancelBooking, SetStatus, IInv, TypeOK, SaleInv, ReleasesCancelledOnly
    <2>2. CASE UNCHANGED toRelease
      BY <1>2, <2>2 DEF IInv, TypeOK, SaleInv, ReleasesCancelledOnly
    <2> QED
      BY <2>1, <2>2 DEF HoldSeats, HoldExpires, ValidateSeatHold, CreateBooking, ExpirePending,
                        IssueTickets, settlementVars
  <1>4. \A q \in Payer : /\ pay'[q].step \notin {"fetch", "release"}
                         /\ Confirmed(q)' => BookedBy(pay'[q].booking) = SeatsOf[pay'[q].booking]
                         /\ \A x \in Booking : Books(q, x)' => Books(q, x)
    BY <1>1 DEF SaleInv, NoCompensation, ConfirmedOwnsSeats, Confirmed, Books
  <1> QED
    BY <1>1, <1>2, <1>3, <1>4, RowsUnchanged DEF SaleInv, PaidOwnsSeats

\* ConfirmSeats takes its row locks only where no other handler has them.
LEMMA ConfirmValidateSale ==
    ASSUME IInv, SaleInv, NEW p \in Payer, ConfirmValidate(p)
    PROVE  SaleInv'
  <1> DEFINE b == pay[p].booking
  <1>1. /\ pay[p].rpc = "validate"
        /\ b \in Booking
        /\ UNCHANGED <<storeVars, bookingStatus, toRelease>>
    BY DEF ConfirmValidate, IInv, RpcInv
  <1>2. CASE Answer(p, "rejected") \/ (Answer(p, "ok") /\ BookedBy(b) = SeatsOf[b])
    <2>1. /\ \A q \in Payer \ {p} : pay'[q] = pay[q]
          /\ pay'[p].step \notin {"fetch", "release"}
          /\ Confirmed(p)' => BookedBy(pay'[p].booking) = SeatsOf[pay'[p].booking]
          /\ pay'[p].rpc # "book"
      <3>1. CASE Answer(p, "rejected")
        BY <1>1, <3>1, AnswerFacts DEF NoRequest, Confirmed
      <3>2. CASE Answer(p, "ok") /\ BookedBy(b) = SeatsOf[b]
        BY <1>1, <3>2, AnswerFacts DEF NoRequest, Confirmed
      <3> QED
        BY <1>2, <3>1, <3>2
    <2>2. \A q \in Payer : /\ pay'[q].step \notin {"fetch", "release"}
                           /\ Confirmed(q)' => BookedBy(pay'[q].booking) = SeatsOf[pay'[q].booking]
                           /\ \A x \in Booking : Books(q, x)' => Books(q, x)
      BY <2>1 DEF SaleInv, NoCompensation, ConfirmedOwnsSeats, Confirmed, Books
    <2> QED
      BY <1>1, <2>2, RowsUnchanged
         DEF SaleInv, PaidOwnsSeats, ReleasesCancelledOnly, storeVars, rowVars
  <1>3. CASE /\ ~RowsLocked(SeatsOf[b])
             /\ ~TakenByOther(b, SeatsOf[b])
             /\ pay' = [pay EXCEPT ![p].rpc = "book"]
    <2>1. /\ pay'[p].rpc = "book"
          /\ pay'[p].step = pay[p].step
          /\ pay'[p].booking = b
          /\ \A q \in Payer \ {p} : pay'[q] = pay[q]
      BY <1>3 DEF IInv, TypeOK, Requests
    <2>2. \A x \in Booking : BookedBy(x)' = BookedBy(x)
      BY <1>1 DEF BookedBy, BookedFor, storeVars
    <2>3. NoCompensation' /\ ReleasesCancelledOnly'
      BY <1>1, <2>1 DEF SaleInv, NoCompensation, ReleasesCancelledOnly
    <2>4. OwnSeatsOnly' /\ PaidOwnsSeats'
      BY <1>1, <2>2 DEF SaleInv, OwnSeatsOnly, PaidOwnsSeats
    <2>5. ConfirmedOwnsSeats'
      <3> SUFFICES ASSUME NEW q \in Payer, Confirmed(q)'
                   PROVE  (BookedBy(pay[q].booking) = SeatsOf[pay[q].booking])'
        BY DEF ConfirmedOwnsSeats
      <3>1. Confirmed(q) /\ pay'[q].booking = pay[q].booking
        BY <1>1, <2>1 DEF Confirmed, IInv, RpcInv
      <3>2. pay[q].booking \in Booking
        BY <3>1 DEF Confirmed, IInv, RpcInv
      <3> QED
        BY <2>2, <3>1, <3>2 DEF SaleInv, ConfirmedOwnsSeats
    <2>6. BooksFreeRows'
      BY <1>1, <1>3, <2>1 DEF SaleInv, BooksFreeRows, Books, TakenByOther, storeVars
    <2>7. BooksApart'
      BY <1>1, <1>3, <2>1 DEF SaleInv, BooksApart, Books, RowsLocked
    <2> QED
      BY <2>3, <2>4, <2>5, <2>6, <2>7 DEF SaleInv
  <1>4. (\A s \in SeatsOf[b] : BookedFor(b, s)) => BookedBy(b) = SeatsOf[b]
    BY <1>1 DEF SaleInv, OwnSeatsOnly, BookedBy
  <1> QED
    BY <1>2, <1>3, <1>4 DEF ConfirmValidate

\* A row that changes hands has no writer waiting for it.
LEMMA WritersUnmoved ==
    ASSUME SaleInv, NEW R \in SUBSET Seat, ~RowsLocked(R), UNCHANGED pay,
           \A s \in Seat \ R : seatStatus'[s] = seatStatus[s] /\ seatBooking'[s] = seatBooking[s]
    PROVE  BooksFreeRows' /\ BooksApart'
  <1>1. BooksApart'
    BY DEF SaleInv, BooksApart, Books
  <1>2. ASSUME NEW p \in Payer, NEW b \in Booking, Books(p, b)
        PROVE  ~TakenByOther(b, SeatsOf[b])'
    <2>1. \A s \in SeatsOf[b] : s \in Seat \ R
      BY <1>2 DEF Books, RowsLocked
    <2>2. ~TakenByOther(b, SeatsOf[b])
      BY <1>2 DEF SaleInv, BooksFreeRows
    <2> QED
      BY <2>1, <2>2 DEF TakenByOther
  <1>3. BooksFreeRows'
    BY <1>2 DEF BooksFreeRows, Books
  <1> QED
    BY <1>1, <1>3

LEMMA BlockSeatsSale ==
    ASSUME IInv, SaleInv, NEW S \in SUBSET Seat, BlockSeats(S)
    PROVE  SaleInv'
  <1>1. \A b \in Booking : BookedBy(b)' = BookedBy(b)
    BY DEF BlockSeats, BlockRows, BookedBy, BookedFor
  <1>2. UNCHANGED <<bookingStatus, pay, toRelease>>
    BY DEF BlockSeats, settlementVars
  <1>3. BooksFreeRows' /\ BooksApart'
    BY <1>2, WritersUnmoved DEF BlockSeats, BlockRows
  <1>4. ConfirmedOwnsSeats'
    BY <1>1, <1>2 DEF SaleInv, ConfirmedOwnsSeats, Confirmed, IInv, RpcInv
  <1> QED
    BY <1>1, <1>2, <1>3, <1>4
       DEF SaleInv, NoCompensation, OwnSeatsOnly, PaidOwnsSeats, ReleasesCancelledOnly

\* The seats freed are those of a cancelled booking.
LEMMA ReleaseCancelledSale ==
    ASSUME IInv, SaleInv, NEW b \in Booking, ReleaseCancelled(b)
    PROVE  SaleInv'
  <1> DEFINE R == ReleasableRows(b, SeatsOf[b])
  <1>1. /\ bookingStatus[b] = "CANCELLED"
        /\ ~RowsLocked(R)
        /\ R \in SUBSET Seat
        /\ \A s \in R : seatBooking[s] = b
        /\ UNCHANGED <<bookingStatus, pay>>
        /\ toRelease' \subseteq toRelease
    BY DEF ReleaseCancelled, SaleInv, ReleasesCancelledOnly, ReleasableRows, BookedFor
  <1>2. /\ seatStatus' = [s \in Seat |-> IF s \in R THEN "AVAILABLE" ELSE seatStatus[s]]
        /\ seatBooking' = [s \in Seat |-> IF s \in R THEN None ELSE seatBooking[s]]
    BY DEF ReleaseCancelled, FreeRows
  <1> HIDE DEF R
  <1>3. BooksFreeRows' /\ BooksApart'
    BY <1>1, <1>2, WritersUnmoved
  <1>4. \A x \in Booking : /\ x # b => BookedBy(x)' = BookedBy(x)
                           /\ BookedBy(x)' \subseteq BookedBy(x)
    BY <1>1, <1>2 DEF BookedBy, BookedFor
  <1>5. OwnSeatsOnly' /\ PaidOwnsSeats'
    BY <1>1, <1>4 DEF SaleInv, OwnSeatsOnly, PaidOwnsSeats, Settled
  <1>6. ConfirmedOwnsSeats'
    <2> SUFFICES ASSUME NEW q \in Payer, Confirmed(q)
                 PROVE  (BookedBy(pay[q].booking) = SeatsOf[pay[q].booking])'
      BY <1>1 DEF ConfirmedOwnsSeats, Confirmed
    <2>1. pay[q].booking \in Booking \ {b}
      BY <1>1 DEF Confirmed, IInv, RpcInv, LockInv, Settling
    <2> QED
      BY <1>1, <1>4, <2>1 DEF SaleInv, ConfirmedOwnsSeats
  <1> QED
    BY <1>1, <1>3, <1>5, <1>6 DEF SaleInv, NoCompensation, ReleasesCancelledOnly

\* The UPDATE of ConfirmSeats: all rows of the booking, none of another's.
LEMMA ConfirmBookSale ==
    ASSUME IInv, SaleInv, NEW p \in Payer, ConfirmBook(p)
    PROVE  SaleInv'
  <1> PICK b \in Booking : b = pay[p].booking
    BY DEF ConfirmBook, IInv, RpcInv
  <1>1. /\ pay[p].rpc = "book"
        /\ Books(p, b)
        /\ ~TakenByOther(b, SeatsOf[b])
        /\ SeatsOf[b] \in SUBSET Seat
        /\ Answer(p, "ok")
        /\ BookRows(b, SeatsOf[b])
        /\ UNCHANGED <<bookingStatus, toRelease>>
    BY DEF ConfirmBook, IInv, RpcInv, Books, SaleInv, BooksFreeRows
  <1>2. /\ seatStatus' = [s \in Seat |-> IF s \in SeatsOf[b] THEN "BOOKED" ELSE seatStatus[s]]
        /\ seatBooking' = [s \in Seat |-> IF s \in SeatsOf[b] THEN b ELSE seatBooking[s]]
    BY <1>1 DEF BookRows
  <1>3. /\ \A q \in Payer \ {p} : pay'[q] = pay[q]
        /\ pay'[p].step \notin {"fetch", "release"}
        /\ pay'[p].rpc # "book"
        /\ pay'[p].step # "idle" => pay'[p].booking = b
    BY <1>1, AnswerFacts DEF NoRequest
  <1>4. BookedBy(b)' = SeatsOf[b]
    BY <1>1, <1>2 DEF SaleInv, OwnSeatsOnly, BookedBy, BookedFor
  <1>5. \A x \in Booking \ {b} : BookedBy(x)' = BookedBy(x)
    BY <1>1, <1>2 DEF BookedBy, BookedFor, TakenByOther
  <1>6. NoCompensation' /\ ReleasesCancelledOnly'
    BY <1>1, <1>3 DEF SaleInv, NoCompensation, ReleasesCancelledOnly
  <1>7. OwnSeatsOnly' /\ PaidOwnsSeats'
    BY <1>1, <1>4, <1>5 DEF SaleInv, OwnSeatsOnly, PaidOwnsSeats
  <1>8. ConfirmedOwnsSeats'
    <2> SUFFICES ASSUME NEW q \in Payer, Confirmed(q)'
                 PROVE  (BookedBy(pay[q].booking) = SeatsOf[pay[q].booking])'
      BY DEF ConfirmedOwnsSeats
    <2>1. CASE q = p
      BY <1>3, <1>4, <2>1 DEF Confirmed
    <2>2. CASE q # p
      <3>1. pay'[q] = pay[q] /\ Confirmed(q) /\ pay[q].booking \in Booking
        BY <1>3, <2>2 DEF Confirmed, IInv, RpcInv
      <3> QED
        BY <1>4, <1>5, <3>1 DEF SaleInv, ConfirmedOwnsSeats
    <2> QED
      BY <2>1, <2>2
  <1>9. BooksApart'
    BY <1>3 DEF SaleInv, BooksApart, Books
  <1>10. BooksFreeRows'
    <2> SUFFICES ASSUME NEW q \in Payer, NEW x \in Booking, Books(q, x)'
                 PROVE  ~TakenByOther(x, SeatsOf[x])'
      BY DEF BooksFreeRows
    <2>1. q # p /\ Books(q, x)
      BY <1>3 DEF Books
    <2>2. ~TakenByOther(x, SeatsOf[x]) /\ SeatsOf[x] \cap SeatsOf[b] = {}
      BY <1>1, <2>1 DEF SaleInv, BooksFreeRows, BooksApart
    <2>3. SeatsOf[x] \in SUBSET Seat
      OBVIOUS
    <2> QED
      BY <1>2, <2>2, <2>3 DEF TakenByOther
  <1> QED
    BY <1>6, <1>7, <1>8, <1>9, <1>10 DEF SaleInv

LEMMA SaleNext ==
    ASSUME "commit" \notin Faults
    PROVE  IInv /\ SaleInv /\ [Next]_vars => SaleInv'
  <1> SUFFICES ASSUME IInv, SaleInv, [Next]_vars PROVE SaleInv'
    OBVIOUS
  <1>1. ASSUME NEW p \in Payer, Request(p) \/ Failure(p) PROVE SaleInv'
    BY <1>1, RequestSale DEF Request, Failure
  <1>2. ASSUME NEW p \in Payer, Confirmation(p) PROVE SaleInv'
    BY <1>2, ConfirmValidateSale, ConfirmBookSale DEF Confirmation
  <1>3. CASE UNCHANGED vars
    <2>1. UNCHANGED <<rowVars, bookingStatus, pay, toRelease>>
      BY <1>3 DEF vars, storeVars, settlementVars, rowVars
    <2> QED
      BY <2>1, RowsUnchanged DEF SaleInv, PaidOwnsSeats, ReleasesCancelledOnly,
         NoCompensation, ConfirmedOwnsSeats, Confirmed, Books
  <1> QED
    BY <1>1, <1>2, <1>3, PayStartSale, BookingSale, ReleaseCancelledSale, BlockSeatsSale DEF Next

LEMMA SaleHolds ==
    ASSUME "commit" \notin Faults
    PROVE  Spec => [](IInv /\ SaleInv)
  <1>1. Init => IInv /\ SaleInv
    BY InitInv, SaleInit
  <1>2. (IInv /\ SaleInv) /\ [Next]_vars => (IInv /\ SaleInv)'
    BY NextInv, SaleNext
  <1> QED
    BY <1>1, <1>2, PTL DEF Spec

(* A paid booking owns exactly its seats as long as the settlement transaction
   does not fail after ConfirmSeats succeeded: under crashes, deadlines, Redis
   failures, retries, and late ConfirmSeats handlers. *)
THEOREM PaidOwns ==
    ASSUME "commit" \notin Faults
    PROVE  Spec => []PaidOwnsSeats
  <1>1. IInv /\ SaleInv => PaidOwnsSeats
    BY DEF SaleInv
  <1> QED
    BY <1>1, SaleHolds, PTL

\* Two paid bookings that own their seats have none in common.
LEMMA OwnersApart == PaidOwnsSeats => NoDoubleSale
  BY DEF PaidOwnsSeats, NoDoubleSale, BookedBy, BookedFor

(* No seat is sold to two paid bookings, under the same assumption. *)
THEOREM SoldOnce ==
    ASSUME "commit" \notin Faults
    PROVE  Spec => []NoDoubleSale
  BY PaidOwns, OwnersApart, PTL

------------------------------------------------------------------------------
(* BookingSettlement implements BookingLifecycle. *)

LEMMA LifecycleInit == Init => Lifecycle!Init
  BY DEF Init, Lifecycle!Init, LifecycleState, Unsaved

\* A step that moves booking b from one status to another is that move of the
\* state machine.
LEMMA MoveMaps ==
    ASSUME IInv, NEW b \in Booking, NEW st \in BookingStates \ Unsaved, SetStatus(b, st)
    PROVE  Lifecycle!Move(b, LifecycleState[b], st)
  <1>1. /\ bookingStatus' \in [Booking -> BookingStates]
        /\ bookingStatus'[b] = st
        /\ \A x \in Booking \ {b} : bookingStatus'[x] = bookingStatus[x]
    BY DEF SetStatus, IInv, TypeOK
  <1>2. LifecycleState' = [LifecycleState EXCEPT ![b] = st]
    BY <1>1 DEF LifecycleState
  <1> QED
    BY <1>2 DEF Lifecycle!Move

\* A step that moves no row, or a booking without one, is a stutter.
LEMMA StutterMaps ==
    ASSUME \A b \in Booking : \/ bookingStatus'[b] = bookingStatus[b]
                              \/ bookingStatus[b] \in Unsaved /\ bookingStatus'[b] \in Unsaved
    PROVE  UNCHANGED LifecycleState
  BY DEF LifecycleState

LEMMA PayMaps ==
    ASSUME IInv, SaleInv, NEW p \in Payer, PayCommit(p)
    PROVE  Lifecycle!Next
  <1> PICK b \in Booking : b = pay[p].booking
    BY DEF PayCommit, IInv, RpcInv
  <1>1. /\ bookingStatus[b] = "PENDING_PAYMENT"
        /\ SetStatus(b, "PAID")
        /\ BookedBy(b) = SeatsOf[b]
    BY DEF PayCommit, SaleInv, ConfirmedOwnsSeats, Confirmed
  <1>2. LifecycleState[b] = "PENDING_PAYMENT"
    BY <1>1 DEF LifecycleState, Unsaved
  <1>3. Lifecycle!Move(b, "PENDING_PAYMENT", "PAID")
    BY <1>1, <1>2, MoveMaps DEF BookingStates, Settled, Unsaved
  <1>4. \A x \in Lifecycle!Conflicting(b) : LifecycleState[x] \notin Lifecycle!Settled
    <2> SUFFICES ASSUME NEW x \in Lifecycle!Conflicting(b),
                        LifecycleState[x] \in Lifecycle!Settled
                 PROVE  FALSE
      OBVIOUS
    <2>1. x \in Booking /\ x # b /\ SeatsOf[x] \cap SeatsOf[b] # {}
      BY DEF Lifecycle!Conflicting
    <2>2. bookingStatus[x] \in Settled
      BY <2>1 DEF LifecycleState, Lifecycle!Settled, IInv, TypeOK, BookingStates, Unsaved, Settled
    <2>3. BookedBy(x) = SeatsOf[x]
      BY <2>1, <2>2 DEF SaleInv, PaidOwnsSeats
    <2> QED
      BY <1>1, <2>1, <2>3 DEF BookedBy, BookedFor
  <1>5. Lifecycle!Pay(b)
    BY <1>3, <1>4 DEF Lifecycle!Pay
  <1> QED
    BY <1>5 DEF Lifecycle!Next

LEMMA NextMaps ==
    ASSUME "commit" \notin Faults, IInv, SaleInv, [Next]_vars
    PROVE  Lifecycle!Next \/ UNCHANGED LifecycleState
  <1> USE DEF Unsaved, BookingStates, Settled
  <1>1. ASSUME NEW p \in Payer, Request(p) \/ Failure(p) \/ Confirmation(p)
        PROVE  Lifecycle!Next \/ UNCHANGED LifecycleState
    <2>1. ~PayCommitFails(p)
      BY DEF PayCommitFails, IInv, LockInv, Settling
    <2>2. PayCommit(p) \/ UNCHANGED bookingStatus
      BY <1>1, <2>1
         DEF Request, Failure, Confirmation, PayCharged, PayDeclined, ConfirmReply,
             CompensateFetch, CompensateRelease, ConfirmDeadline, Crash,
             ConfirmValidate, ConfirmBook
    <2> QED
      BY <2>2, PayMaps, StutterMaps
  <1>2. ASSUME NEW p \in Payer, NEW b \in Booking, PayStart(p, b)
        PROVE  UNCHANGED LifecycleState
    BY <1>2, StutterMaps DEF PayStart
  <1>3. ASSUME NEW b \in Booking,
               \/ HoldSeats(b) \/ HoldExpires(b) \/ ValidateSeatHold(b) \/ ReleaseCancelled(b)
        PROVE  UNCHANGED LifecycleState
    BY <1>3, StutterMaps
       DEF HoldSeats, HoldExpires, ValidateSeatHold, ReleaseCancelled, SetStatus, settlementVars,
           IInv, TypeOK
  <1>4. ASSUME NEW b \in Booking,
               CreateBooking(b) \/ ExpirePending(b) \/ CancelBooking(b) \/ IssueTickets(b)
        PROVE  Lifecycle!Next
    <2>1. CASE CreateBooking(b)
      <3>1. LifecycleState[b] = "DRAFT" /\ SetStatus(b, "PENDING_PAYMENT")
        BY <2>1 DEF CreateBooking, LifecycleState
      <3>2. Lifecycle!Create(b)
        BY <3>1, MoveMaps DEF Lifecycle!Create
      <3> QED
        BY <3>2 DEF Lifecycle!Next
    <2>2. CASE ExpirePending(b)
      <3>1. LifecycleState[b] = "PENDING_PAYMENT" /\ SetStatus(b, "EXPIRED")
        BY <2>2 DEF ExpirePending, Expirable, LifecycleState
      <3>2. Lifecycle!Expire(b)
        BY <3>1, MoveMaps DEF Lifecycle!Expire
      <3> QED
        BY <3>2 DEF Lifecycle!Next
    <2>3. CASE CancelBooking(b)
      <3>1. LifecycleState[b] = "PAID" /\ SetStatus(b, "CANCELLED")
        BY <2>3 DEF CancelBooking, LifecycleState
      <3>2. Lifecycle!Cancel(b)
        BY <3>1, MoveMaps DEF Lifecycle!Cancel
      <3> QED
        BY <3>2 DEF Lifecycle!Next
    <2>4. CASE IssueTickets(b)
      <3>1. LifecycleState[b] = "PAID" /\ SetStatus(b, "TICKET_ISSUED")
        BY <2>4 DEF IssueTickets, LifecycleState
      <3>2. Lifecycle!IssueTickets(b)
        BY <3>1, MoveMaps DEF Lifecycle!IssueTickets
      <3> QED
        BY <3>2 DEF Lifecycle!Next
    <2> QED
      BY <1>4, <2>1, <2>2, <2>3, <2>4
  <1>5. ASSUME NEW S \in SUBSET Seat, BlockSeats(S) PROVE UNCHANGED LifecycleState
    BY <1>5, StutterMaps DEF BlockSeats, settlementVars
  <1>6. CASE UNCHANGED vars
    BY <1>6, StutterMaps DEF vars, settlementVars
  <1> QED
    BY <1>1, <1>2, <1>3, <1>4, <1>5, <1>6 DEF Next

(* Payment, expiry, cancellation and ticket issuing, with all their locks,
   remote calls and failures but a failing settlement transaction, move each
   booking along the documented state machine and sell a seat to one booking
   at a time. *)
THEOREM Refinement ==
    ASSUME "commit" \notin Faults
    PROVE  Spec => ImplementsLifecycle
  <1>1. IInv /\ SaleInv /\ [Next]_vars => [Lifecycle!Next]_LifecycleState
    BY NextMaps
  <1> QED
    BY <1>1, LifecycleInit, SaleHolds, PTL DEF Spec, ImplementsLifecycle, Lifecycle!Spec
==============================================================================
