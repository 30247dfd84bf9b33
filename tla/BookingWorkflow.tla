---------------------------- MODULE BookingWorkflow ----------------------------
(***************************************************************************)
(* What happens to the bookings of one trip between the services: rows of  *)
(* the transactional outbox, dispatchers that publish them at least once,  *)
(* RabbitMQ queues and dead letter queues, the Ticket Worker, the Email    *)
(* Worker, the trip.completed consumer of Booking Service and the          *)
(* booking.cancelled consumer of Seat Inventory; and check-in, booking     *)
(* creation and cancellation, which decide on a snapshot of a trip that    *)
(* its administrator keeps editing.                                        *)
(*                                                                         *)
(* The advisory lock 'trip-lifecycle' serializes check-in and creation     *)
(* with every edit of the trip.  Cancellation does not take it.            *)
(*                                                                         *)
(* Transactions that read and write one booking under its row lock are one *)
(* step (BookingSettlement has the payment in detail).  A statement that   *)
(* fails rolls its transaction back, which is no step.                     *)
(***************************************************************************)
EXTENDS Naturals

CONSTANTS
    Booking,     \* bookings of the trip
    Request,     \* slots for concurrently running CreateBooking, CheckIn, Cancel
    Consumers,   \* the consumers that are deployed
    Faults,      \* the failures that may happen, a subset of FaultKinds
    MaxSent,     \* bound: no notification is sent more often
    Free         \* nobody has the lock, no booking

KnownConsumers == {"ticket-worker", "email-worker", "booking-service", "seat-inventory"}

FaultKinds == {"stamp",    \* a published outbox row is not stamped as published
               "ack",      \* a consumer dies between its commit and its ack
               "commit",   \* a consumer dies before its commit
               "handler"}  \* a handler throws, its message is dead-lettered

ASSUME FreeIsNobody == Free \notin Request \cup Booking
ASSUME ConsumersKnown == Consumers \subseteq KnownConsumers
ASSUME FaultsKnown == Faults \subseteq FaultKinds
ASSUME MaxSentIsNat == MaxSent \in Nat

VARIABLES
    tripStatus,      \* trips.status
    departsFar,      \* trips.departure_time is at least the cutoff away
    lifecycleLock,   \* who has the advisory lock of the trip
    bookingStatus,   \* bookings.status; NONE: no row yet
    seatsSold,       \* trip_seats are BOOKED for the booking
    issued,          \* how often issueTickets went through for the booking
    request,         \* what each request is doing
    outbox,          \* outbox_events rows not stamped as published
    queue,           \* the messages in the queue of each consumer
    deadLetters,     \* and in its dead letter queue
    claimed,         \* workflow_processed_events
    sent             \* how often a notification was sent

tripVars == <<tripStatus, departsFar>>
bookingVars == <<bookingStatus, seatsSold, issued>>
brokerVars == <<queue, deadLetters>>
consumerVars == <<claimed, sent>>
vars == <<tripVars, lifecycleLock, bookingVars, request, outbox, brokerVars, consumerVars>>

TripStates == {"DRAFT", "ACTIVE", "LOCKED", "DEPARTED", "COMPLETED", "CANCELLED"}

BookingStates == {"NONE", "PENDING_PAYMENT", "PAID", "TICKET_ISSUED", "CHECKED_IN",
                  "COMPLETED", "EXPIRED", "CANCELLED"}

\* Ticketed: the booking has its tickets.
Ticketed == {"TICKET_ISSUED", "CHECKED_IN", "COMPLETED"}

BookingEvents == [name : {"booking.paid", "booking.cancelled", "ticket.issued"}, of : Booking]

TripCompleted == [name |-> "trip.completed", of |-> Free]

Events == BookingEvents \cup {TripCompleted}

About(name, b) == [name |-> name, of |-> b]

\* The queue bindings.
Subscribed(c, e) ==
    CASE c = "ticket-worker"   -> e.name = "booking.paid"
      [] c = "email-worker"    -> e.name \in {"booking.paid", "ticket.issued"}
      [] c = "booking-service" -> e.name = "trip.completed"
      [] c = "seat-inventory"  -> e.name = "booking.cancelled"

\* A request: what it does, how far it is, and the trip it saw.
Requests == [op : {"none", "create", "check-in", "cancel"},
             step : {"idle", "lock", "snapshot", "commit"},
             booking : Booking \cup {Free},
             trusted : BOOLEAN]

NoRequest == [op |-> "none", step |-> "idle", booking |-> Free, trusted |-> FALSE]

TypeOK ==
    /\ tripStatus \in TripStates
    /\ departsFar \in BOOLEAN
    /\ lifecycleLock \in Request \cup {Free}
    /\ bookingStatus \in [Booking -> BookingStates]
    /\ seatsSold \in [Booking -> BOOLEAN]
    /\ issued \in [Booking -> Nat]
    /\ request \in [Request -> Requests]
    /\ outbox \in SUBSET Events
    /\ queue \in [Consumers -> SUBSET Events]
    /\ deadLetters \in [Consumers -> SUBSET Events]
    /\ claimed \in [Consumers -> SUBSET Events]
    /\ sent \in [Events -> Nat]

\* createTrip makes DRAFT or ACTIVE trips.
Init ==
    /\ tripStatus \in {"DRAFT", "ACTIVE"}
    /\ departsFar = TRUE
    /\ lifecycleLock = Free
    /\ bookingStatus = [b \in Booking |-> "NONE"]
    /\ seatsSold = [b \in Booking |-> FALSE]
    /\ issued = [b \in Booking |-> 0]
    /\ request = [r \in Request |-> NoRequest]
    /\ outbox = {}
    /\ queue = [c \in Consumers |-> {}]
    /\ deadLetters = [c \in Consumers |-> {}]
    /\ claimed = [c \in Consumers |-> {}]
    /\ sent = [e \in Events |-> 0]

SetStatus(b, st) == bookingStatus' = [bookingStatus EXCEPT ![b] = st]

\* writeOutboxEvent, in the transaction of the change it reports.
Emit(E) == outbox' = outbox \cup E

EndRequest(r) == request' = [request EXCEPT ![r] = NoRequest]

\* The end of a transaction frees its advisory lock.
Unlock(r) == lifecycleLock' = IF lifecycleLock = r THEN Free ELSE lifecycleLock

------------------------------------------------------------------------------
(* Trip Service *)

\* TRIP_STATUS_TRANSITIONS
Transitions(from) ==
    CASE from = "DRAFT"    -> {"ACTIVE", "CANCELLED"}
      [] from = "ACTIVE"   -> {"LOCKED", "CANCELLED"}
      [] from = "LOCKED"   -> {"ACTIVE", "DEPARTED", "CANCELLED"}
      [] from = "DEPARTED" -> {"COMPLETED"}
      [] OTHER             -> {}

\* updateTripStatus and recordTripStatusChange.
UpdateTripStatus(status) ==
    /\ lifecycleLock = Free
    /\ status \in Transitions(tripStatus)
    /\ tripStatus' = status
    /\ Emit(IF status = "COMPLETED" THEN {TripCompleted} ELSE {})
    /\ UNCHANGED <<departsFar, lifecycleLock, bookingVars, request, brokerVars, consumerVars>>

\* updateTrip: a new departure time.  (Time itself passing is left out.)
Reschedule ==
    /\ lifecycleLock = Free
    /\ departsFar' = ~departsFar
    /\ UNCHANGED <<tripStatus, lifecycleLock, bookingVars, request, outbox, brokerVars,
                   consumerVars>>

------------------------------------------------------------------------------
(* Requests of Booking Service *)

Begin(r, op, step, b, trusted) ==
    /\ request[r].step = "idle"
    /\ request' = [request EXCEPT ![r] = [op |-> op, step |-> step, booking |-> b,
                                          trusted |-> trusted]]
    /\ UNCHANGED <<tripVars, lifecycleLock, bookingVars, outbox, brokerVars, consumerVars>>

\* ValidateHold gave b's seats; two requests may create the same booking.
CreateStart(r, b) ==
    /\ bookingStatus[b] = "NONE"
    /\ Begin(r, "create", "lock", b, FALSE)

\* The candidate row is read before the transaction.  One already CHECKED_IN
\* spares the trip snapshot.
CheckInStart(r, b) ==
    /\ bookingStatus[b] # "NONE"
    /\ Begin(r, "check-in", "lock", b, bookingStatus[b] = "CHECKED_IN")

CancelStart(r, b) ==
    /\ bookingStatus[b] = "PAID"
    /\ Begin(r, "cancel", "snapshot", b, FALSE)

\* Mutant form: the advisory lock is not taken.
LockTripSkipped(r) ==
    /\ request[r].step = "lock"
    /\ request' = [request EXCEPT ![r].step = IF request[r].trusted THEN "commit" ELSE "snapshot"]
    /\ UNCHANGED <<tripVars, lifecycleLock, bookingVars, outbox, brokerVars, consumerVars>>

\* pg_advisory_xact_lock
LockTrip(r) ==
    /\ request[r].step = "lock"
    /\ lifecycleLock = Free
    /\ lifecycleLock' = r
    /\ request' = [request EXCEPT ![r].step = IF request[r].trusted THEN "commit" ELSE "snapshot"]
    /\ UNCHANGED <<tripVars, bookingVars, outbox, brokerVars, consumerVars>>

\* Mutant form: a blocklist of CANCELLED trips instead of an allowlist.
AllowsUncancelled(op) ==
    CASE op = "create"   -> tripStatus = "ACTIVE"
      [] op = "check-in" -> tripStatus # "CANCELLED"
      [] op = "cancel"   -> departsFar
      [] OTHER           -> FALSE

\* canCheckInTripState, canCancelBeforeDeparture, and createBooking's test.
Allows(op) ==
    CASE op = "create"   -> tripStatus = "ACTIVE"
      [] op = "check-in" -> tripStatus \in {"ACTIVE", "DEPARTED"}
      [] op = "cancel"   -> departsFar
      [] OTHER           -> FALSE

\* fetchTripSnapshot: Trip Service reads the committed row.
TakeSnapshot(r) ==
    /\ request[r].step = "snapshot"
    /\ IF Allows(request[r].op)
       THEN /\ request' = [request EXCEPT ![r].step = "commit", ![r].trusted = TRUE]
            /\ UNCHANGED lifecycleLock
       ELSE EndRequest(r) /\ Unlock(r)
    /\ UNCHANGED <<tripVars, bookingVars, outbox, brokerVars, consumerVars>>

\* Trip Service or the database fails: rollback.
RequestFails(r) ==
    /\ request[r].step # "idle"
    /\ EndRequest(r)
    /\ Unlock(r)
    /\ UNCHANGED <<tripVars, bookingVars, outbox, brokerVars, consumerVars>>

\* The request commits, or finds the booking in a state that ends it
\* unchanged.  from and to are the states, e the event it writes.
Commit(r, op, from, to, E) ==
    LET b == request[r].booking
    IN  /\ request[r].step = "commit"
        /\ request[r].op = op
        /\ IF bookingStatus[b] = from
           THEN SetStatus(b, to) /\ Emit(E)
           ELSE UNCHANGED <<bookingStatus, outbox>>
        /\ EndRequest(r)
        /\ Unlock(r)
        /\ UNCHANGED <<tripVars, seatsSold, issued, brokerVars, consumerVars>>

\* The hold token of b is bound once: a second request gets the same booking.
CreateCommit(r) == Commit(r, "create", "NONE", "PENDING_PAYMENT", {})

CheckInCommit(r) == Commit(r, "check-in", "TICKET_ISSUED", "CHECKED_IN", {})

\* Mutant form: canCancel is not tested again on the locked row.
CancelCommitStale(r) ==
    LET b == request[r].booking
    IN  /\ request[r].step = "commit"
        /\ request[r].op = "cancel"
        /\ SetStatus(b, "CANCELLED")
        /\ Emit({About("booking.cancelled", b)})
        /\ EndRequest(r)
        /\ Unlock(r)
        /\ UNCHANGED <<tripVars, seatsSold, issued, brokerVars, consumerVars>>

CancelCommit(r) ==
    Commit(r, "cancel", "PAID", "CANCELLED", {About("booking.cancelled", request[r].booking)})

------------------------------------------------------------------------------
(* Other transitions of a booking *)

\* Mutant form: the event is published after the commit, if at all.
SettlePaymentNoOutbox(b) ==
    /\ bookingStatus[b] = "PENDING_PAYMENT"
    /\ SetStatus(b, "PAID")
    /\ seatsSold' = [seatsSold EXCEPT ![b] = TRUE]
    /\ \/ Emit({About("booking.paid", b)})
       \/ UNCHANGED outbox
    /\ UNCHANGED <<tripVars, lifecycleLock, issued, request, brokerVars, consumerVars>>

\* settleBookingPayment: whatever the trip does meanwhile.
SettlePayment(b) ==
    /\ bookingStatus[b] = "PENDING_PAYMENT"
    /\ SetStatus(b, "PAID")
    /\ seatsSold' = [seatsSold EXCEPT ![b] = TRUE]
    /\ Emit({About("booking.paid", b)})
    /\ UNCHANGED <<tripVars, lifecycleLock, issued, request, brokerVars, consumerVars>>

ExpirePending(b) ==
    /\ bookingStatus[b] = "PENDING_PAYMENT"
    /\ SetStatus(b, "EXPIRED")
    /\ UNCHANGED <<tripVars, lifecycleLock, seatsSold, issued, request, outbox, brokerVars,
                   consumerVars>>

\* cancelBookingWithEvents after the commit; it may fail, that is no step.
ReleaseByRpc(b) ==
    /\ bookingStatus[b] = "CANCELLED"
    /\ seatsSold[b]
    /\ seatsSold' = [seatsSold EXCEPT ![b] = FALSE]
    /\ UNCHANGED <<tripVars, lifecycleLock, bookingStatus, issued, request, outbox, brokerVars,
                   consumerVars>>

------------------------------------------------------------------------------
(* dispatchOutboxEvents: publish one row, then stamp it.  A row whose publish
   fails is skipped, so rows leave in any order; a dispatcher that dies after
   publishing leaves the row to be published again, under the same eventId. *)
DispatchOutbox(e) ==
    /\ e \in outbox
    /\ queue' = [c \in Consumers |-> IF Subscribed(c, e) THEN queue[c] \cup {e} ELSE queue[c]]
    /\ \/ outbox' = outbox \ {e}
       \/ "stamp" \in Faults /\ UNCHANGED outbox
    /\ UNCHANGED <<tripVars, lifecycleLock, bookingVars, request, deadLetters, consumerVars>>

------------------------------------------------------------------------------
(* Consumers: onMessage, then ack. *)

Ack(c, e) ==
    \/ queue' = [queue EXCEPT ![c] = @ \ {e}]
    \/ "ack" \in Faults /\ UNCHANGED queue

\* claimWorkflowEvent
Claim(c, e) == claimed' = [claimed EXCEPT ![c] = @ \cup {e}]

\* A claimed event is a redelivery: acknowledged, nothing else.
SkipRedelivery(c, e) ==
    /\ e \in queue[c] \cap claimed[c]
    /\ Ack(c, e)
    /\ UNCHANGED <<tripVars, lifecycleLock, bookingVars, request, outbox, deadLetters, consumerVars>>

\* The handler throws: nack without requeue.
HandlerFails(c, e) ==
    /\ "handler" \in Faults
    /\ e \in queue[c]
    /\ queue' = [queue EXCEPT ![c] = @ \ {e}]
    /\ deadLetters' = [deadLetters EXCEPT ![c] = @ \cup {e}]
    /\ UNCHANGED <<tripVars, lifecycleLock, bookingVars, request, outbox, consumerVars>>

Fresh(c, e) == c \in Consumers /\ e \in queue[c] \ claimed[c]

\* Mutant form: the status is not looked at before the tickets are made.
IssueTicketsUnchecked(b) ==
    LET e == About("booking.paid", b)
        c == "ticket-worker"
    IN  /\ Fresh(c, e)
        /\ Claim(c, e)
        /\ Ack(c, e)
        /\ IF bookingStatus[b] = "PAID" THEN SetStatus(b, "TICKET_ISSUED") ELSE UNCHANGED bookingStatus
        /\ issued' = [issued EXCEPT ![b] = @ + 1]
        /\ Emit({About("ticket.issued", b)})
        /\ UNCHANGED <<tripVars, lifecycleLock, seatsSold, request, deadLetters, sent>>

\* issueTickets: claim, lock the row, and stop unless it is PAID.
IssueTickets(b) ==
    LET e == About("booking.paid", b)
        c == "ticket-worker"
    IN  /\ Fresh(c, e)
        /\ Claim(c, e)
        /\ Ack(c, e)
        /\ IF bookingStatus[b] = "PAID"
           THEN /\ SetStatus(b, "TICKET_ISSUED")
                /\ issued' = [issued EXCEPT ![b] = @ + 1]
                /\ Emit({About("ticket.issued", b)})
           ELSE UNCHANGED <<bookingStatus, issued, outbox>>
        /\ UNCHANGED <<tripVars, lifecycleLock, seatsSold, request, deadLetters, sent>>

\* completeCheckedInBookings: one UPDATE.  booking.completed only refreshes
\* screens and is left out.
CompleteCheckedIn ==
    LET c == "booking-service"
    IN  /\ Fresh(c, TripCompleted)
        /\ Claim(c, TripCompleted)
        /\ Ack(c, TripCompleted)
        /\ bookingStatus' = [b \in Booking |-> IF bookingStatus[b] = "CHECKED_IN"
                                               THEN "COMPLETED" ELSE bookingStatus[b]]
        /\ UNCHANGED <<tripVars, lifecycleLock, seatsSold, issued, request, outbox, deadLetters, sent>>

\* Mutant form: the message is acknowledged before the seats are released.
ReleaseAckedFirst(b) ==
    LET e == About("booking.cancelled", b)
        c == "seat-inventory"
    IN  /\ c \in Consumers
        /\ e \in queue[c]
        /\ queue' = [queue EXCEPT ![c] = @ \ {e}]
        /\ UNCHANGED <<tripVars, lifecycleLock, bookingVars, request, outbox, deadLetters, consumerVars>>

\* processBookingLifecycleEvent: releasing is idempotent, nothing is claimed.
ReleaseByEvent(b) ==
    LET e == About("booking.cancelled", b)
        c == "seat-inventory"
    IN  /\ c \in Consumers
        /\ e \in queue[c]
        /\ seatsSold' = [seatsSold EXCEPT ![b] = FALSE]
        /\ Ack(c, e)
        /\ UNCHANGED <<tripVars, lifecycleLock, bookingStatus, issued, request, outbox, deadLetters,
                       consumerVars>>

\* processEmailEvent: claim, send, COMMIT; the message is sent before COMMIT.
SendEmail(e) ==
    LET c == "email-worker"
    IN  /\ Fresh(c, e)
        /\ sent[e] < MaxSent
        /\ sent' = [sent EXCEPT ![e] = @ + 1]
        /\ \/ Claim(c, e) /\ Ack(c, e)
           \/ "commit" \in Faults /\ UNCHANGED <<claimed, queue>>
        /\ UNCHANGED <<tripVars, lifecycleLock, bookingVars, request, outbox, deadLetters>>

------------------------------------------------------------------------------
RequestStep(r) ==
    \/ LockTrip(r)
    \/ TakeSnapshot(r)
    \/ CreateCommit(r)
    \/ CheckInCommit(r)
    \/ CancelCommit(r)

Consume(c, e) ==
    \/ SkipRedelivery(c, e)
    \/ c = "ticket-worker" /\ \E b \in Booking : e = About("booking.paid", b) /\ IssueTickets(b)
    \/ c = "booking-service" /\ e = TripCompleted /\ CompleteCheckedIn
    \/ c = "seat-inventory" /\ \E b \in Booking : e = About("booking.cancelled", b) /\ ReleaseByEvent(b)
    \/ c = "email-worker" /\ SendEmail(e)

Next ==
    \/ \E status \in TripStates : UpdateTripStatus(status)
    \/ Reschedule
    \/ \E r \in Request, b \in Booking : CreateStart(r, b)
    \/ \E r \in Request, b \in Booking : CheckInStart(r, b)
    \/ \E r \in Request, b \in Booking : CancelStart(r, b)
    \/ \E r \in Request : RequestStep(r)
    \/ \E r \in Request : RequestFails(r)
    \/ \E b \in Booking : SettlePayment(b)
    \/ \E b \in Booking : ExpirePending(b)
    \/ \E b \in Booking : ReleaseByRpc(b)
    \/ \E e \in outbox : DispatchOutbox(e)
    \/ \E c \in Consumers : \E e \in queue[c] : Consume(c, e)
    \/ \E c \in Consumers : \E e \in queue[c] : HandlerFails(c, e)

Spec == Init /\ [][Next]_vars

\* The dispatchers tick every 3 s and the broker comes back; a message that is
\* not acknowledged is delivered again.  Nobody has to pay, board or cancel.
Fairness ==
    \A e \in Events :
        /\ WF_vars(DispatchOutbox(e) /\ e \notin outbox')
        /\ \A c \in Consumers : WF_vars(Consume(c, e) /\ e \notin queue'[c])

FairSpec == Spec /\ Fairness

------------------------------------------------------------------------------
(* Properties. *)

(* The booking state machine of docs/ARCHITECTURE.md section 6: the services
   and workers together move a booking along it and nowhere else. *)
LifecycleState == [b \in Booking |-> IF bookingStatus[b] = "NONE" THEN "DRAFT" ELSE bookingStatus[b]]

Lifecycle == INSTANCE BookingLifecycle WITH state <- LifecycleState,
                                            SeatsOf <- [b \in Booking |-> {b}]

ImplementsLifecycle == Lifecycle!Spec

(* "a stale active-trip snapshot cannot leave a late CHECKED_IN booking after
   the completion consumer has run" (docs/API_CONTRACT.md). *)
NobodyLeftBehind ==
    ("booking-service" \in Consumers /\ TripCompleted \in claimed["booking-service"])
        => \A b \in Booking : bookingStatus[b] # "CHECKED_IN"

(* A passenger boards only a trip that is ACTIVE or DEPARTED at that moment,
   and a booking is created only for a trip that is ACTIVE then, although the
   trip was looked at through a remote call earlier. *)
BoardsOpenTripOnly ==
    [][\A b \in Booking :
          /\ (bookingStatus[b] # "CHECKED_IN" /\ bookingStatus'[b] = "CHECKED_IN")
                => tripStatus \in {"ACTIVE", "DEPARTED"}
          /\ (bookingStatus[b] = "NONE" /\ bookingStatus'[b] # "NONE")
                => tripStatus = "ACTIVE"]_vars

(* "cancellation-first produces no tickets or ticket.issued" and a redelivery
   "neither duplicates the ticket transition nor creates another downstream
   event" (docs/ARCHITECTURE.md): tickets are issued once for a booking that
   reached TICKET_ISSUED, and never for any other. *)
TicketsOnce ==
    \A b \in Booking : issued[b] = IF bookingStatus[b] \in Ticketed THEN 1 ELSE 0

\* Somebody still has to act on event e for consumer c.
Pending(c, e) == e \in outbox \cup queue[c] \cup deadLetters[c]

(* "A broker outage leaves the row unpublished for retry instead of losing the
   event" (docs/ARCHITECTURE.md): work that was not done yet is still in the
   outbox, in the queue or in the dead letter queue of the one who does it. *)
NothingLost ==
    /\ "ticket-worker" \in Consumers => \A b \in Booking :
          bookingStatus[b] = "PAID" => Pending("ticket-worker", About("booking.paid", b))
    /\ "seat-inventory" \in Consumers => \A b \in Booking :
          (bookingStatus[b] = "CANCELLED" /\ seatsSold[b])
              => Pending("seat-inventory", About("booking.cancelled", b))
    /\ "booking-service" \in Consumers => \A b \in Booking :
          (tripStatus = "COMPLETED" /\ bookingStatus[b] = "CHECKED_IN")
              => Pending("booking-service", TripCompleted)
    /\ "email-worker" \in Consumers => \A b \in Booking :
          bookingStatus[b] \in Ticketed
              => LET e == About("ticket.issued", b) IN sent[e] > 0 \/ Pending("email-worker", e)

\* Whatever dies or throws, the state stays one the code knows how to go on from.
WorkKept == TypeOK /\ NothingLost

(* Payment leads to tickets unless the customer cancels, "a transient RPC
   failure cannot leave cancelled seats permanently booked", and who boarded
   has travelled once the trip is COMPLETED (docs/ARCHITECTURE.md). *)
WorkGetsDone ==
    \A b \in Booking :
        /\ bookingStatus[b] = "PAID" ~> bookingStatus[b] # "PAID"
        /\ bookingStatus[b] = "CANCELLED" ~> ~seatsSold[b]
        /\ (tripStatus = "COMPLETED" /\ bookingStatus[b] = "CHECKED_IN")
              ~> bookingStatus[b] = "COMPLETED"

(* "RabbitMQ redelivery does not log/send the same notification twice"
   (docs/ARCHITECTURE.md): neither a repeated event nor a worker that dies
   after its commit sends a message again.  One that dies before its commit
   does, which the text does not say. *)
EmailOnce == "commit" \notin Faults => \A e \in Events : sent[e] <= 1

\* Repeated deliveries neither issue tickets nor send messages twice.
OnceOnly == TicketsOnce /\ EmailOnce
==============================================================================
