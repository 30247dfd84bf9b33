------------------------ MODULE BookingWorkflowProofs ------------------------
(***************************************************************************)
(* Proofs about BookingWorkflow, for any number of bookings, of concurrent *)
(* requests and of consumers, and any of the failures.                     *)
(*                                                                         *)
(* Three facts carry them.  A check-in or a creation that has seen the     *)
(* trip holds the advisory lock, and the trip cannot move before it ends.  *)
(* An event that exists anywhere is true: its booking was paid, its trip   *)
(* is over.  And a claim means that the work was done in the same          *)
(* transaction, so a skipped redelivery loses nothing.                     *)
(***************************************************************************)
EXTENDS BookingWorkflow, TLAPS

\* A request that holds the lock of its trip.
Locking(r) == request[r].op \in {"create", "check-in"} /\ request[r].step \in {"snapshot", "commit"}

Boarded(b) == bookingStatus[b] \in {"CHECKED_IN", "COMPLETED"}

\* What request r saw is still so.
RequestOK(r) ==
    LET q == request[r]
    IN  /\ q.op = "none" <=> q.step = "idle"
        /\ q.op # "none" => q.booking \in Booking
        /\ q.op = "cancel" => q.step # "lock"
        /\ Locking(r) => lifecycleLock = r
        /\ (q.op = "create" /\ q.step = "commit") => tripStatus = "ACTIVE"
        /\ (q.op = "check-in" /\ q.step = "commit") =>
              \/ tripStatus \in {"ACTIVE", "DEPARTED"}
              \/ Boarded(q.booking)
        /\ (q.step = "lock" /\ q.trusted) => q.op = "check-in" /\ Boarded(q.booking)

RequestInv == \A r \in Request : RequestOK(r)

\* An event that was written, and may still be acted on or was.
Known(e) == e \in outbox \/ \E c \in Consumers : e \in queue[c] \cup claimed[c]

Unpaid == {"NONE", "PENDING_PAYMENT", "EXPIRED"}

EventInv ==
    /\ Known(TripCompleted) => tripStatus = "COMPLETED"
    /\ \A b \in Booking : Known(About("booking.paid", b)) => bookingStatus[b] \notin Unpaid

\* A claimed event was acted on.
ClaimInv ==
    /\ "ticket-worker" \in Consumers => \A b \in Booking :
          About("booking.paid", b) \in claimed["ticket-worker"] => bookingStatus[b] # "PAID"
    /\ "seat-inventory" \in Consumers => claimed["seat-inventory"] = {}
    /\ "email-worker" \in Consumers => \A e \in claimed["email-worker"] : sent[e] > 0

\* A message that was sent is claimed, unless a worker died in between.
SentInv ==
    "commit" \notin Faults => \A e \in Events :
        sent[e] = 0 \/ (sent[e] = 1 /\ "email-worker" \in Consumers /\ e \in claimed["email-worker"])

WorkInv ==
    /\ EventInv
    /\ ClaimInv
    /\ SentInv
    /\ NobodyLeftBehind
    /\ NothingLost
    /\ TicketsOnce

IInv ==
    /\ TypeOK
    /\ RequestInv
    /\ WorkInv

workVars == <<tripStatus, bookingVars, outbox, brokerVars, consumerVars>>

------------------------------------------------------------------------------
(* Events and steps of requests. *)

LEMMA EventFacts ==
    ASSUME NEW b \in Booking
    PROVE  /\ About("booking.paid", b) \in Events
           /\ About("booking.cancelled", b) \in Events
           /\ About("ticket.issued", b) \in Events
           /\ TripCompleted \in Events
           /\ About("booking.paid", b) # TripCompleted
           /\ About("booking.cancelled", b) # TripCompleted
           /\ About("ticket.issued", b) # TripCompleted
           /\ \A x \in Booking : /\ About("ticket.issued", b) # About("booking.paid", x)
                                 /\ About("booking.cancelled", b) # About("booking.paid", x)
                                 /\ About("booking.paid", b) = About("booking.paid", x) => b = x
                                 /\ About("booking.cancelled", b) = About("booking.cancelled", x) => b = x
                                 /\ About("ticket.issued", b) = About("ticket.issued", x) => b = x
  BY DEF About, Events, BookingEvents, TripCompleted

LEMMA TripCompletedFact == TripCompleted \in Events
  BY DEF Events

\* A step that only moves a request leaves the work as it is.
LEMMA WorkFrame ==
    ASSUME WorkInv, UNCHANGED workVars
    PROVE  WorkInv'
  <1> USE DEF workVars, bookingVars, brokerVars, consumerVars
  <1>1. EventInv'
    BY DEF WorkInv, EventInv, Known
  <1>2. ClaimInv' /\ SentInv'
    BY DEF WorkInv, ClaimInv, SentInv
  <1>3. NobodyLeftBehind' /\ TicketsOnce'
    BY DEF WorkInv, NobodyLeftBehind, TicketsOnce
  <1>4. NothingLost'
    BY DEF WorkInv, NothingLost, Pending
  <1> QED
    BY <1>1, <1>2, <1>3, <1>4 DEF WorkInv

\* A step of no request leaves what the requests saw as it is, as long as who
\* boarded stays so.
LEMMA RequestFrame ==
    ASSUME TypeOK, RequestInv, UNCHANGED <<request, lifecycleLock, tripStatus>>,
           \A b \in Booking : Boarded(b) => Boarded(b)'
    PROVE  RequestInv'
  BY DEF RequestInv, RequestOK, Locking, TypeOK, Requests

LEMMA RequestTyped ==
    ASSUME TypeOK, NEW r \in Request
    PROVE  request[r] \in Requests
  BY DEF TypeOK

LEMMA NoRequestOK ==
    ASSUME NEW r \in Request, request'[r] = NoRequest
    PROVE  RequestOK(r)'
  BY DEF RequestOK, Locking, NoRequest

\* The other requests, when r moves: the lock is not taken from any of them.
LEMMA OthersKept ==
    ASSUME TypeOK, RequestInv, NEW r \in Request,
           tripStatus' = tripStatus,
           \A b \in Booking : Boarded(b) => Boarded(b)',
           \A x \in Request \ {r} : request'[x] = request[x],
           \A x \in Request \ {r} : lifecycleLock = x => lifecycleLock' = x,
           RequestOK(r)'
    PROVE  RequestInv'
  <1> SUFFICES ASSUME NEW x \in Request \ {r} PROVE RequestOK(x)'
    BY DEF RequestInv
  <1>1. RequestOK(x) /\ request'[x] = request[x] /\ request[x] \in Requests
    BY DEF RequestInv, TypeOK
  <1> QED
    BY <1>1 DEF RequestOK, Locking, Requests

LEMMA BeginKeeps ==
    ASSUME IInv, NEW r \in Request, NEW b \in Booking,
           CreateStart(r, b) \/ CheckInStart(r, b) \/ CancelStart(r, b)
    PROVE  IInv'
  <1> USE DEF IInv
  <1>1. PICK op \in {"create", "check-in", "cancel"}, step \in {"lock", "snapshot"}, trusted \in BOOLEAN :
           /\ Begin(r, op, step, b, trusted)
           /\ op = "cancel" => step # "lock"
           /\ op # "cancel" => step = "lock"
           /\ trusted => op = "check-in" /\ Boarded(b)
    BY DEF CreateStart, CheckInStart, CancelStart, Boarded
  <1>2. UNCHANGED workVars /\ UNCHANGED <<departsFar, lifecycleLock>>
    BY <1>1 DEF Begin, workVars, tripVars, bookingVars, brokerVars, consumerVars
  <1>3. request' = [request EXCEPT ![r] = [op |-> op, step |-> step, booking |-> b, trusted |-> trusted]]
    BY <1>1 DEF Begin
  <1>4. TypeOK'
    <2>1. request' \in [Request -> Requests]
      BY <1>3 DEF TypeOK, Requests
    <2> QED
      BY <1>2, <2>1 DEF TypeOK, workVars, bookingVars, brokerVars, consumerVars
  <1>5. RequestInv'
    <2>1. /\ request'[r] = [op |-> op, step |-> step, booking |-> b, trusted |-> trusted]
          /\ \A x \in Request \ {r} : request'[x] = request[x]
      BY <1>3 DEF TypeOK
    <2>2. \A x \in Booking : Boarded(x) => Boarded(x)'
      BY <1>2 DEF Boarded, workVars, bookingVars
    <2>3. RequestOK(r)'
      BY <1>1, <2>1, <2>2 DEF RequestOK, Locking
    <2> QED
      BY <1>2, <2>1, <2>2, <2>3, OthersKept DEF workVars
  <1> QED
    BY <1>2, <1>4, <1>5, WorkFrame

LEMMA LockTripKeeps ==
    ASSUME IInv, NEW r \in Request, LockTrip(r)
    PROVE  IInv'
  <1> USE DEF IInv
  <1> DEFINE step == IF request[r].trusted THEN "commit" ELSE "snapshot"
  <1>1. UNCHANGED workVars /\ departsFar' = departsFar /\ lifecycleLock = Free /\ lifecycleLock' = r
        /\ request[r].step = "lock"
    BY DEF LockTrip, workVars, tripVars, bookingVars, brokerVars, consumerVars
  <1>2. request' = [request EXCEPT ![r].step = step]
    BY DEF LockTrip
  <1>3. TypeOK'
    <2>1. request' \in [Request -> Requests]
      BY <1>2 DEF TypeOK, Requests
    <2> QED
      BY <1>1, <2>1 DEF TypeOK, workVars, bookingVars, brokerVars, consumerVars
  <1>4. RequestInv'
    <2>1. /\ request'[r] = [request[r] EXCEPT !.step = step]
          /\ \A x \in Request \ {r} : request'[x] = request[x]
      BY <1>2 DEF TypeOK
    <2>2. \A x \in Booking : Boarded(x) => Boarded(x)'
      BY <1>1 DEF Boarded, workVars, bookingVars
    <2>3. RequestOK(r) /\ request[r] \in Requests
      BY RequestTyped DEF RequestInv
    <2>4. RequestOK(r)'
      <3>1. /\ request'[r].op = request[r].op
            /\ request'[r].booking = request[r].booking
            /\ request'[r].trusted = request[r].trusted
            /\ request'[r].step = step
        BY <2>1, <2>3 DEF Requests
      <3>2. /\ step = "commit" => request[r].op = "check-in" /\ Boarded(request[r].booking)
            /\ step \in {"commit", "snapshot"}
            /\ request[r].op \in {"create", "check-in"} /\ request[r].booking \in Booking
        BY <2>3, <1>1 DEF RequestOK, Requests
      <3> PICK b \in Booking : b = request[r].booking
        BY <3>2
      <3>3. request'[r].booking = b /\ (step = "commit" => Boarded(b)')
        BY <2>2, <3>1, <3>2
      <3> HIDE DEF step
      <3> QED
        BY <1>1, <3>1, <3>2, <3>3 DEF RequestOK, Locking, Boarded
    <2> QED
      BY <1>1, <2>1, <2>2, <2>4, OthersKept, FreeIsNobody DEF workVars
  <1> QED
    BY <1>1, <1>3, <1>4, WorkFrame

\* A request that ends, or fails, frees the lock for nobody else.
LEMMA EndKeepsRequests ==
    ASSUME TypeOK, RequestInv, NEW r \in Request, EndRequest(r), Unlock(r),
           tripStatus' = tripStatus,
           \A b \in Booking : Boarded(b) => Boarded(b)'
    PROVE  /\ RequestInv'
           /\ request' \in [Request -> Requests]
           /\ lifecycleLock' \in Request \cup {Free}
  <1>1. /\ request' \in [Request -> Requests]
        /\ request'[r] = NoRequest
        /\ \A x \in Request \ {r} : request'[x] = request[x]
    BY DEF EndRequest, TypeOK, Requests, NoRequest
  <1>2. /\ lifecycleLock' \in Request \cup {Free}
        /\ \A x \in Request \ {r} : lifecycleLock = x => lifecycleLock' = x
    BY DEF Unlock, TypeOK
  <1> QED
    BY <1>1, <1>2, NoRequestOK, OthersKept

LEMMA TakeSnapshotKeeps ==
    ASSUME IInv, NEW r \in Request, TakeSnapshot(r)
    PROVE  IInv'
  <1> USE DEF IInv
  <1>1. UNCHANGED workVars /\ departsFar' = departsFar /\ request[r].step = "snapshot"
    BY DEF TakeSnapshot, workVars, tripVars, bookingVars, brokerVars, consumerVars
  <1>2. \A x \in Booking : Boarded(x) => Boarded(x)'
    BY <1>1 DEF Boarded, workVars, bookingVars
  <1>3. RequestInv' /\ request' \in [Request -> Requests] /\ lifecycleLock' \in Request \cup {Free}
    <2>1. CASE Allows(request[r].op)
      <3>1. /\ request' = [request EXCEPT ![r].step = "commit", ![r].trusted = TRUE]
            /\ lifecycleLock' = lifecycleLock
        BY <2>1 DEF TakeSnapshot
      <3>2. RequestOK(r) /\ request[r] \in Requests
        BY RequestTyped DEF RequestInv
      <3>3. /\ request' \in [Request -> Requests]
            /\ request'[r] = [request[r] EXCEPT !.step = "commit", !.trusted = TRUE]
            /\ \A x \in Request \ {r} : request'[x] = request[x]
        BY <3>1, <3>2 DEF TypeOK, Requests
      <3>4. /\ request'[r].op = request[r].op
            /\ request'[r].booking = request[r].booking
            /\ request'[r].step = "commit"
        BY <3>2, <3>3 DEF Requests
      <3>5. RequestOK(r)'
        BY <1>1, <2>1, <3>1, <3>2, <3>4 DEF RequestOK, Locking, Allows, workVars
      <3> QED
        BY <1>1, <1>2, <3>1, <3>3, <3>5, OthersKept DEF workVars, TypeOK
    <2>2. CASE ~Allows(request[r].op)
      <3>1. EndRequest(r) /\ Unlock(r)
        BY <2>2 DEF TakeSnapshot
      <3> QED
        BY <1>1, <1>2, <3>1, EndKeepsRequests DEF workVars
    <2> QED
      BY <2>1, <2>2
  <1>4. TypeOK'
    BY <1>1, <1>3 DEF TypeOK, workVars, bookingVars, brokerVars, consumerVars
  <1> QED
    BY <1>1, <1>3, <1>4, WorkFrame

LEMMA RequestFailsKeeps ==
    ASSUME IInv, NEW r \in Request, RequestFails(r)
    PROVE  IInv'
  <1> USE DEF IInv
  <1>1. UNCHANGED workVars /\ departsFar' = departsFar
    BY DEF RequestFails, workVars, tripVars, bookingVars, brokerVars, consumerVars
  <1>2. \A x \in Booking : Boarded(x) => Boarded(x)'
    BY <1>1 DEF Boarded, workVars, bookingVars
  <1>3. RequestInv' /\ request' \in [Request -> Requests] /\ lifecycleLock' \in Request \cup {Free}
    BY <1>1, <1>2, EndKeepsRequests DEF RequestFails, workVars
  <1>4. TypeOK'
    BY <1>1, <1>3 DEF TypeOK, workVars, bookingVars, brokerVars, consumerVars
  <1> QED
    BY <1>1, <1>3, <1>4, WorkFrame

------------------------------------------------------------------------------
(* Steps of a booking. *)

LEMMA SetStatusFacts ==
    ASSUME TypeOK, NEW b \in Booking, NEW st \in BookingStates, SetStatus(b, st)
    PROVE  /\ bookingStatus' \in [Booking -> BookingStates]
           /\ bookingStatus'[b] = st
           /\ \A x \in Booking \ {b} : bookingStatus'[x] = bookingStatus[x]
  BY DEF SetStatus, TypeOK

\* What a commit may do: what each kind of request finds when it gets there.
LEMMA CommitFacts ==
    ASSUME IInv, NEW r \in Request, CreateCommit(r) \/ CheckInCommit(r) \/ CancelCommit(r)
    PROVE  LET b == request[r].booking
           IN  /\ b \in Booking
               /\ EndRequest(r) /\ Unlock(r)
               /\ UNCHANGED <<tripVars, seatsSold, issued, brokerVars, consumerVars>>
               /\ \/ UNCHANGED <<bookingStatus, outbox>>
                  \/ /\ bookingStatus[b] = "NONE"
                     /\ SetStatus(b, "PENDING_PAYMENT") /\ outbox' = outbox
                     /\ tripStatus = "ACTIVE"
                  \/ /\ bookingStatus[b] = "TICKET_ISSUED"
                     /\ SetStatus(b, "CHECKED_IN") /\ outbox' = outbox
                     /\ tripStatus \in {"ACTIVE", "DEPARTED"}
                  \/ /\ bookingStatus[b] = "PAID"
                     /\ SetStatus(b, "CANCELLED")
                     /\ outbox' = outbox \cup {About("booking.cancelled", b)}
  <1>1. RequestOK(r) /\ request[r].step = "commit" /\ request[r].op \in {"create", "check-in", "cancel"}
    BY DEF IInv, RequestInv, CreateCommit, CheckInCommit, CancelCommit, Commit
  <1>2. request[r].booking \in Booking
    BY <1>1 DEF RequestOK
  <1>3. CASE CreateCommit(r)
    <2>1. tripStatus = "ACTIVE"
      BY <1>1, <1>3 DEF RequestOK, CreateCommit, Commit
    <2> QED
      BY <1>2, <1>3, <2>1 DEF CreateCommit, Commit, Emit
  <1>4. CASE CheckInCommit(r)
    <2>1. bookingStatus[request[r].booking] = "TICKET_ISSUED" => tripStatus \in {"ACTIVE", "DEPARTED"}
      BY <1>1, <1>4 DEF RequestOK, CheckInCommit, Commit, Boarded
    <2> QED
      BY <1>2, <1>4, <2>1 DEF CheckInCommit, Commit, Emit
  <1>5. CASE CancelCommit(r)
    BY <1>2, <1>5 DEF CancelCommit, Commit, Emit
  <1> QED
    BY <1>3, <1>4, <1>5

LEMMA CommitKeeps ==
    ASSUME IInv, NEW r \in Request, CreateCommit(r) \/ CheckInCommit(r) \/ CancelCommit(r)
    PROVE  IInv'
  <1> USE DEF IInv
  <1> PICK b \in Booking : b = request[r].booking
    BY CommitFacts
  <1>1. /\ EndRequest(r) /\ Unlock(r)
        /\ UNCHANGED <<tripStatus, departsFar, seatsSold, issued, queue, deadLetters, claimed, sent>>
    BY CommitFacts DEF tripVars, brokerVars, consumerVars
  <1>2. PICK st \in BookingStates :
           /\ \/ st = bookingStatus[b] /\ outbox' = outbox
              \/ st = "PENDING_PAYMENT" /\ bookingStatus[b] = "NONE" /\ outbox' = outbox
              \/ /\ st = "CHECKED_IN" /\ bookingStatus[b] = "TICKET_ISSUED" /\ outbox' = outbox
                 /\ tripStatus \in {"ACTIVE", "DEPARTED"}
              \/ /\ st = "CANCELLED" /\ bookingStatus[b] = "PAID"
                 /\ outbox' = outbox \cup {About("booking.cancelled", b)}
           /\ bookingStatus' \in [Booking -> BookingStates]
           /\ bookingStatus'[b] = st
           /\ \A x \in Booking \ {b} : bookingStatus'[x] = bookingStatus[x]
    <2>1. {"PENDING_PAYMENT", "CHECKED_IN", "CANCELLED"} \subseteq BookingStates
      BY DEF BookingStates
    <2>2. CASE UNCHANGED <<bookingStatus, outbox>>
      BY <2>2 DEF TypeOK
    <2>3. CASE bookingStatus[b] = "NONE" /\ SetStatus(b, "PENDING_PAYMENT") /\ outbox' = outbox
      BY <2>1, <2>3, SetStatusFacts
    <2>4. CASE /\ bookingStatus[b] = "TICKET_ISSUED" /\ SetStatus(b, "CHECKED_IN")
               /\ outbox' = outbox /\ tripStatus \in {"ACTIVE", "DEPARTED"}
      BY <2>1, <2>4, SetStatusFacts
    <2>5. CASE /\ bookingStatus[b] = "PAID" /\ SetStatus(b, "CANCELLED")
               /\ outbox' = outbox \cup {About("booking.cancelled", b)}
      BY <2>1, <2>5, SetStatusFacts
    <2> QED
      BY <2>2, <2>3, <2>4, <2>5, CommitFacts
  <1>3. \A x \in Booking : Boarded(x) => Boarded(x)'
    BY <1>2 DEF Boarded
  <1>4. RequestInv' /\ request' \in [Request -> Requests] /\ lifecycleLock' \in Request \cup {Free}
    BY <1>1, <1>3, EndKeepsRequests
  <1>5. TypeOK'
    <2>1. outbox' \in SUBSET Events
      BY <1>2, EventFacts DEF TypeOK
    <2> QED
      BY <1>1, <1>2, <1>4, <2>1 DEF TypeOK
  <1>6. EventInv'
    <2>1. /\ Known(TripCompleted)' => Known(TripCompleted)
          /\ \A x \in Booking : Known(About("booking.paid", x))' => Known(About("booking.paid", x))
      BY <1>1, <1>2, EventFacts DEF Known
    <2> QED
      BY <1>1, <1>2, <2>1 DEF WorkInv, EventInv, Unpaid
  <1>7. ClaimInv' /\ SentInv'
    BY <1>1, <1>2 DEF WorkInv, ClaimInv, SentInv
  <1>8. NobodyLeftBehind'
    <2>1. "booking-service" \in Consumers /\ TripCompleted \in claimed["booking-service"]
             => tripStatus = "COMPLETED"
      BY DEF WorkInv, EventInv, Known
    <2> QED
      BY <1>1, <1>2, <2>1 DEF WorkInv, NobodyLeftBehind
  <1>9. NothingLost'
    BY <1>1, <1>2 DEF WorkInv, NothingLost, Pending, Ticketed
  <1>10. TicketsOnce'
    BY <1>1, <1>2 DEF WorkInv, TicketsOnce, Ticketed
  <1> QED
    BY <1>4, <1>5, <1>6, <1>7, <1>8, <1>9, <1>10 DEF WorkInv

LEMMA SettlePaymentKeeps ==
    ASSUME IInv, NEW b \in Booking, SettlePayment(b)
    PROVE  IInv'
  <1> USE DEF IInv
  <1>1. /\ bookingStatus[b] = "PENDING_PAYMENT"
        /\ outbox' = outbox \cup {About("booking.paid", b)}
        /\ UNCHANGED <<tripStatus, departsFar, lifecycleLock, issued, request, queue, deadLetters,
                       claimed, sent>>
    BY DEF SettlePayment, Emit, tripVars, brokerVars, consumerVars
  <1>2. /\ bookingStatus' \in [Booking -> BookingStates]
        /\ bookingStatus'[b] = "PAID"
        /\ \A x \in Booking \ {b} : bookingStatus'[x] = bookingStatus[x]
    BY SetStatusFacts DEF SettlePayment, BookingStates
  <1>3. /\ seatsSold' \in [Booking -> BOOLEAN]
        /\ \A x \in Booking \ {b} : seatsSold'[x] = seatsSold[x]
    BY DEF SettlePayment, TypeOK
  <1>4. TypeOK'
    <2>1. outbox' \in SUBSET Events
      BY <1>1, EventFacts DEF TypeOK
    <2> QED
      BY <1>1, <1>2, <1>3, <2>1 DEF TypeOK
  <1>5. RequestInv'
    <2>1. \A x \in Booking : Boarded(x) => Boarded(x)'
      BY <1>1, <1>2 DEF Boarded
    <2> QED
      BY <1>1, <2>1, RequestFrame
  <1>6. EventInv'
    <2>1. /\ Known(TripCompleted)' => Known(TripCompleted)
          /\ \A x \in Booking \ {b} :
                Known(About("booking.paid", x))' => Known(About("booking.paid", x))
      BY <1>1, EventFacts DEF Known
    <2> QED
      BY <1>1, <1>2, <2>1 DEF WorkInv, EventInv, Unpaid
  <1>7. ClaimInv' /\ SentInv'
    <2>1. "ticket-worker" \in Consumers => About("booking.paid", b) \notin claimed["ticket-worker"]
      BY <1>1 DEF WorkInv, EventInv, Known, Unpaid
    <2> QED
      BY <1>1, <1>2, <2>1 DEF WorkInv, ClaimInv, SentInv
  <1>8. NobodyLeftBehind' /\ TicketsOnce'
    BY <1>1, <1>2 DEF WorkInv, NobodyLeftBehind, TicketsOnce, Ticketed
  <1>9. NothingLost'
    BY <1>1, <1>2, <1>3 DEF WorkInv, NothingLost, Pending, Ticketed
  <1> QED
    BY <1>4, <1>5, <1>6, <1>7, <1>8, <1>9 DEF WorkInv

LEMMA ExpirePendingKeeps ==
    ASSUME IInv, NEW b \in Booking, ExpirePending(b)
    PROVE  IInv'
  <1> USE DEF IInv
  <1>1. /\ bookingStatus[b] = "PENDING_PAYMENT"
        /\ UNCHANGED <<tripStatus, departsFar, lifecycleLock, seatsSold, issued, request, outbox,
                       queue, deadLetters, claimed, sent>>
    BY DEF ExpirePending, tripVars, brokerVars, consumerVars
  <1>2. /\ bookingStatus' \in [Booking -> BookingStates]
        /\ bookingStatus'[b] = "EXPIRED"
        /\ \A x \in Booking \ {b} : bookingStatus'[x] = bookingStatus[x]
    BY SetStatusFacts DEF ExpirePending, BookingStates
  <1>3. RequestInv'
    <2>1. \A x \in Booking : Boarded(x) => Boarded(x)'
      BY <1>1, <1>2 DEF Boarded
    <2> QED
      BY <1>1, <2>1, RequestFrame
  <1>4. EventInv' /\ ClaimInv' /\ SentInv'
    BY <1>1, <1>2 DEF WorkInv, EventInv, Known, Unpaid, ClaimInv, SentInv
  <1>5. NobodyLeftBehind' /\ TicketsOnce' /\ NothingLost'
    BY <1>1, <1>2 DEF WorkInv, NobodyLeftBehind, TicketsOnce, NothingLost, Pending, Ticketed
  <1> QED
    BY <1>1, <1>2, <1>3, <1>4, <1>5 DEF WorkInv, TypeOK

LEMMA ReleaseByRpcKeeps ==
    ASSUME IInv, NEW b \in Booking, ReleaseByRpc(b)
    PROVE  IInv'
  <1> USE DEF IInv
  <1>1. UNCHANGED <<tripStatus, departsFar, lifecycleLock, bookingStatus, issued, request, outbox,
                    queue, deadLetters, claimed, sent>>
    BY DEF ReleaseByRpc, tripVars, brokerVars, consumerVars
  <1>2. seatsSold' \in [Booking -> BOOLEAN] /\ \A x \in Booking : seatsSold'[x] => seatsSold[x]
    BY DEF ReleaseByRpc, TypeOK
  <1>3. RequestInv'
    BY <1>1, RequestFrame DEF Boarded
  <1>4. EventInv' /\ ClaimInv' /\ SentInv'
    BY <1>1 DEF WorkInv, EventInv, Known, ClaimInv, SentInv
  <1>5. NobodyLeftBehind' /\ TicketsOnce' /\ NothingLost'
    BY <1>1, <1>2 DEF WorkInv, NobodyLeftBehind, TicketsOnce, NothingLost, Pending
  <1> QED
    BY <1>1, <1>2, <1>3, <1>4, <1>5 DEF WorkInv, TypeOK

------------------------------------------------------------------------------
(* Steps of the trip: nobody who saw it still runs, and a completed trip is
   never reopened. *)

LEMMA TransitionFacts ==
    ASSUME NEW status, status \in Transitions(tripStatus)
    PROVE  status \in TripStates /\ tripStatus # "COMPLETED"
  BY DEF Transitions, TripStates

LEMMA UpdateTripStatusKeeps ==
    ASSUME IInv, NEW status \in TripStates, UpdateTripStatus(status)
    PROVE  IInv'
  <1> USE DEF IInv
  <1>1. /\ lifecycleLock = Free
        /\ tripStatus' = status
        /\ tripStatus # "COMPLETED"
        /\ outbox' = outbox \cup (IF status = "COMPLETED" THEN {TripCompleted} ELSE {})
        /\ UNCHANGED <<departsFar, lifecycleLock, bookingStatus, seatsSold, issued, request, queue,
                       deadLetters, claimed, sent>>
    BY TransitionFacts DEF UpdateTripStatus, Emit, bookingVars, brokerVars, consumerVars
  <1>2. TypeOK'
    <2>1. outbox' \in SUBSET Events
      BY <1>1, TripCompletedFact DEF TypeOK
    <2> QED
      BY <1>1, <2>1 DEF TypeOK
  <1>3. RequestInv'
    <2> SUFFICES ASSUME NEW r \in Request PROVE RequestOK(r)'
      BY DEF RequestInv
    <2>1. RequestOK(r) /\ ~Locking(r)
      BY <1>1, FreeIsNobody DEF RequestInv, RequestOK
    <2> QED
      BY <1>1, <2>1 DEF RequestOK, Locking, Boarded
  <1>4. EventInv'
    <2>1. /\ Known(TripCompleted)' => status = "COMPLETED"
          /\ \A x \in Booking : Known(About("booking.paid", x))' => Known(About("booking.paid", x))
      BY <1>1, EventFacts DEF WorkInv, EventInv, Known
    <2> QED
      BY <1>1, <2>1 DEF WorkInv, EventInv
  <1>5. ClaimInv' /\ SentInv' /\ NobodyLeftBehind' /\ TicketsOnce'
    BY <1>1 DEF WorkInv, ClaimInv, SentInv, NobodyLeftBehind, TicketsOnce
  <1>6. NothingLost'
    BY <1>1 DEF WorkInv, NothingLost, Pending
  <1> QED
    BY <1>2, <1>3, <1>4, <1>5, <1>6 DEF WorkInv

LEMMA RescheduleKeeps ==
    ASSUME IInv, Reschedule
    PROVE  IInv'
  <1> USE DEF IInv
  <1>1. UNCHANGED workVars /\ UNCHANGED <<lifecycleLock, request>> /\ departsFar' \in BOOLEAN
    BY DEF Reschedule, workVars, TypeOK
  <1>2. RequestInv'
    BY <1>1, RequestFrame DEF Boarded, workVars, bookingVars
  <1>3. TypeOK'
    BY <1>1 DEF TypeOK, workVars, bookingVars, brokerVars, consumerVars
  <1> QED
    BY <1>1, <1>2, <1>3, WorkFrame

------------------------------------------------------------------------------
(* Steps of messages. *)

LEMMA DispatchOutboxKeeps ==
    ASSUME IInv, NEW e \in outbox, DispatchOutbox(e)
    PROVE  IInv'
  <1> USE DEF IInv
  <1>1. /\ UNCHANGED <<tripStatus, departsFar, lifecycleLock, bookingStatus, seatsSold, issued,
                       request, deadLetters, claimed, sent>>
        /\ outbox' \subseteq outbox /\ outbox \subseteq outbox' \cup {e}
        /\ e \in Events
    BY DEF DispatchOutbox, tripVars, bookingVars, consumerVars, TypeOK
  <1>2. queue' = [c \in Consumers |-> IF Subscribed(c, e) THEN queue[c] \cup {e} ELSE queue[c]]
    BY DEF DispatchOutbox
  <1>3. /\ queue' \in [Consumers -> SUBSET Events]
        /\ \A c \in Consumers : queue[c] \subseteq queue'[c] /\ queue'[c] \subseteq queue[c] \cup {e}
        /\ \A c \in Consumers : Subscribed(c, e) => e \in queue'[c]
    BY <1>1, <1>2 DEF TypeOK
  <1>4. TypeOK'
    BY <1>1, <1>3 DEF TypeOK
  <1>5. RequestInv'
    BY <1>1, RequestFrame DEF Boarded
  <1>6. EventInv'
    <2>1. \A x : Known(x)' => Known(x)
      BY <1>1, <1>3 DEF Known
    <2> QED
      BY <1>1, <2>1 DEF WorkInv, EventInv
  <1>7. ClaimInv' /\ SentInv' /\ NobodyLeftBehind' /\ TicketsOnce'
    BY <1>1 DEF WorkInv, ClaimInv, SentInv, NobodyLeftBehind, TicketsOnce
  <1>8. ASSUME NEW c \in Consumers, NEW x, x = e => Subscribed(c, e), Pending(c, x)
        PROVE  Pending(c, x)'
    BY <1>1, <1>3, <1>8 DEF Pending
  <1>9. NothingLost'
    <2>1. /\ Subscribed("booking-service", TripCompleted)
          /\ \A b \in Booking : /\ Subscribed("ticket-worker", About("booking.paid", b))
                                /\ Subscribed("seat-inventory", About("booking.cancelled", b))
                                /\ Subscribed("email-worker", About("ticket.issued", b))
      BY DEF Subscribed, About, TripCompleted
    <2> QED
      BY <1>1, <1>8, <2>1 DEF WorkInv, NothingLost
  <1> QED
    BY <1>4, <1>5, <1>6, <1>7, <1>9 DEF WorkInv

\* Acknowledging e takes at most e from the queue of c.
LEMMA AckFacts ==
    ASSUME TypeOK, NEW c \in Consumers, NEW e, Ack(c, e)
    PROVE  /\ queue' \in [Consumers -> SUBSET Events]
           /\ \A x \in Consumers : queue'[x] \subseteq queue[x]
           /\ queue[c] \subseteq queue'[c] \cup {e}
           /\ \A x \in Consumers \ {c} : queue'[x] = queue[x]
  BY DEF Ack, TypeOK

LEMMA ClaimFacts ==
    ASSUME TypeOK, NEW c \in Consumers, NEW e \in Events, Claim(c, e)
    PROVE  /\ claimed' \in [Consumers -> SUBSET Events]
           /\ claimed'[c] = claimed[c] \cup {e}
           /\ \A x \in Consumers \ {c} : claimed'[x] = claimed[x]
  BY DEF Claim, TypeOK

\* A claimed event has nothing left to do.
LEMMA ClaimedIsDone ==
    ASSUME IInv
    PROVE  /\ "ticket-worker" \in Consumers => \A b \in Booking :
                 About("booking.paid", b) \in claimed["ticket-worker"] => bookingStatus[b] # "PAID"
           /\ "seat-inventory" \in Consumers => claimed["seat-inventory"] = {}
           /\ "booking-service" \in Consumers =>
                 (TripCompleted \in claimed["booking-service"] =>
                     \A b \in Booking : bookingStatus[b] # "CHECKED_IN")
           /\ "email-worker" \in Consumers => \A e \in claimed["email-worker"] : sent[e] > 0
  BY DEF IInv, WorkInv, ClaimInv, NobodyLeftBehind

LEMMA SkipRedeliveryKeeps ==
    ASSUME IInv, NEW c \in Consumers, NEW e \in queue[c], SkipRedelivery(c, e)
    PROVE  IInv'
  <1> USE DEF IInv
  <1>1. /\ e \in claimed[c]
        /\ UNCHANGED <<tripStatus, departsFar, lifecycleLock, bookingStatus, seatsSold, issued,
                       request, outbox, deadLetters, claimed, sent>>
    BY DEF SkipRedelivery, tripVars, bookingVars, consumerVars
  <1>2. /\ queue' \in [Consumers -> SUBSET Events]
        /\ \A x \in Consumers : queue'[x] \subseteq queue[x]
        /\ queue[c] \subseteq queue'[c] \cup {e}
        /\ \A x \in Consumers \ {c} : queue'[x] = queue[x]
    BY AckFacts DEF SkipRedelivery
  <1>3. RequestInv'
    BY <1>1, RequestFrame DEF Boarded
  <1>4. EventInv'
    BY <1>1, <1>2 DEF WorkInv, EventInv, Known
  <1>5. ClaimInv' /\ SentInv' /\ NobodyLeftBehind' /\ TicketsOnce'
    BY <1>1 DEF WorkInv, ClaimInv, SentInv, NobodyLeftBehind, TicketsOnce
  <1>6. ASSUME NEW d \in Consumers, NEW x, Pending(d, x), ~(d = c /\ x = e)
        PROVE  Pending(d, x)'
    BY <1>1, <1>2, <1>6 DEF Pending
  <1>7. NothingLost'
    BY <1>1, <1>6, ClaimedIsDone DEF WorkInv, NothingLost
  <1> QED
    BY <1>1, <1>2, <1>3, <1>4, <1>5, <1>7 DEF WorkInv, TypeOK

LEMMA HandlerFailsKeeps ==
    ASSUME IInv, NEW c \in Consumers, NEW e \in queue[c], HandlerFails(c, e)
    PROVE  IInv'
  <1> USE DEF IInv
  <1>1. UNCHANGED <<tripStatus, departsFar, lifecycleLock, bookingStatus, seatsSold, issued,
                    request, outbox, claimed, sent>>
    BY DEF HandlerFails, tripVars, bookingVars, consumerVars
  <1>2. /\ queue' \in [Consumers -> SUBSET Events]
        /\ deadLetters' \in [Consumers -> SUBSET Events]
        /\ \A x \in Consumers : /\ queue'[x] \subseteq queue[x]
                                /\ queue[x] \cup deadLetters[x] \subseteq queue'[x] \cup deadLetters'[x]
    BY DEF HandlerFails, TypeOK
  <1>3. RequestInv'
    BY <1>1, RequestFrame DEF Boarded
  <1>4. EventInv'
    BY <1>1, <1>2 DEF WorkInv, EventInv, Known
  <1>5. ClaimInv' /\ SentInv' /\ NobodyLeftBehind' /\ TicketsOnce'
    BY <1>1 DEF WorkInv, ClaimInv, SentInv, NobodyLeftBehind, TicketsOnce
  <1>6. ASSUME NEW d \in Consumers, NEW x, Pending(d, x)
        PROVE  Pending(d, x)'
    BY <1>1, <1>2, <1>6 DEF Pending
  <1>7. NothingLost'
    BY <1>1, <1>6 DEF WorkInv, NothingLost
  <1> QED
    BY <1>1, <1>2, <1>3, <1>4, <1>5, <1>7 DEF WorkInv, TypeOK

LEMMA IssueTicketsKeeps ==
    ASSUME IInv, NEW b \in Booking, IssueTickets(b)
    PROVE  IInv'
  <1> USE DEF IInv
  <1> DEFINE e == About("booking.paid", b)
             c == "ticket-worker"
  <1>1. /\ c \in Consumers /\ e \in queue[c] /\ e \in Events
        /\ Claim(c, e) /\ Ack(c, e)
        /\ UNCHANGED <<tripStatus, departsFar, lifecycleLock, seatsSold, request, deadLetters, sent>>
    BY EventFacts DEF IssueTickets, Fresh, tripVars
  <1>2. /\ queue' \in [Consumers -> SUBSET Events]
        /\ \A x \in Consumers : queue'[x] \subseteq queue[x]
        /\ queue[c] \subseteq queue'[c] \cup {e}
        /\ \A x \in Consumers \ {c} : queue'[x] = queue[x]
    BY <1>1, AckFacts
  <1>3. /\ claimed' \in [Consumers -> SUBSET Events]
        /\ claimed'[c] = claimed[c] \cup {e}
        /\ \A x \in Consumers \ {c} : claimed'[x] = claimed[x]
    BY <1>1, ClaimFacts
  <1>4. /\ bookingStatus' \in [Booking -> BookingStates]
        /\ issued' \in [Booking -> Nat]
        /\ outbox' \in SUBSET Events
        /\ outbox \subseteq outbox' /\ outbox' \subseteq outbox \cup {About("ticket.issued", b)}
        /\ \A x \in Booking \ {b} : bookingStatus'[x] = bookingStatus[x] /\ issued'[x] = issued[x]
        /\ \/ /\ bookingStatus[b] = "PAID" /\ bookingStatus'[b] = "TICKET_ISSUED"
              /\ issued'[b] = issued[b] + 1
              /\ About("ticket.issued", b) \in outbox'
           \/ /\ bookingStatus[b] # "PAID" /\ bookingStatus'[b] = bookingStatus[b]
              /\ issued'[b] = issued[b]
    <2>1. CASE bookingStatus[b] = "PAID"
      <3>1. SetStatus(b, "TICKET_ISSUED") /\ Emit({About("ticket.issued", b)})
        BY <2>1 DEF IssueTickets
      <3>2. issued' = [issued EXCEPT ![b] = issued[b] + 1]
        BY <2>1 DEF IssueTickets
      <3>3. /\ bookingStatus' \in [Booking -> BookingStates]
            /\ bookingStatus'[b] = "TICKET_ISSUED"
            /\ \A x \in Booking \ {b} : bookingStatus'[x] = bookingStatus[x]
        BY <3>1, SetStatusFacts DEF BookingStates
      <3>4. /\ issued' \in [Booking -> Nat]
            /\ issued'[b] = issued[b] + 1
            /\ \A x \in Booking \ {b} : issued'[x] = issued[x]
        BY <3>2 DEF TypeOK
      <3> QED
        BY <2>1, <3>1, <3>3, <3>4, EventFacts DEF Emit, TypeOK
    <2>2. CASE bookingStatus[b] # "PAID"
      BY <2>2 DEF IssueTickets, TypeOK
    <2> QED
      BY <2>1, <2>2
  <1> HIDE DEF e, c
  <1>5. TypeOK'
    BY <1>1, <1>2, <1>3, <1>4 DEF TypeOK
  <1>6. RequestInv'
    <2>1. \A x \in Booking : Boarded(x) => Boarded(x)'
      BY <1>4 DEF Boarded
    <2> QED
      BY <1>1, <2>1, RequestFrame
  <1>7. EventInv'
    <2>1. \A x \in Events : Known(x)' => Known(x) \/ x = About("ticket.issued", b)
      BY <1>1, <1>2, <1>3, <1>4 DEF Known
    <2>2. /\ Known(TripCompleted)' => Known(TripCompleted)
          /\ \A x \in Booking : Known(About("booking.paid", x))' => Known(About("booking.paid", x))
      BY <2>1, EventFacts
    <2> QED
      BY <1>1, <1>4, <2>2 DEF WorkInv, EventInv, Unpaid
  <1>8. ClaimInv' /\ SentInv'
    BY <1>1, <1>3, <1>4, EventFacts DEF WorkInv, ClaimInv, SentInv, c, e
  <1>9. NobodyLeftBehind' /\ TicketsOnce'
    BY <1>3, <1>4 DEF WorkInv, NobodyLeftBehind, TicketsOnce, Ticketed, c, TypeOK
  <1>10. ASSUME NEW d \in Consumers, NEW x, Pending(d, x), ~(d = c /\ x = e)
         PROVE  Pending(d, x)'
    BY <1>1, <1>2, <1>4, <1>10 DEF Pending
  <1>11. NothingLost'
    <2>1. "ticket-worker" \in Consumers => \A x \in Booking :
             bookingStatus'[x] = "PAID" => Pending("ticket-worker", About("booking.paid", x))'
      BY <1>4, <1>10, EventFacts DEF WorkInv, NothingLost, c, e
    <2>2. "email-worker" \in Consumers => \A x \in Booking :
             bookingStatus'[x] \in Ticketed =>
                 \/ sent'[About("ticket.issued", x)] > 0
                 \/ Pending("email-worker", About("ticket.issued", x))'
      <3> SUFFICES ASSUME "email-worker" \in Consumers, NEW x \in Booking,
                          bookingStatus'[x] \in Ticketed
                   PROVE  \/ sent'[About("ticket.issued", x)] > 0
                          \/ Pending("email-worker", About("ticket.issued", x))'
        OBVIOUS
      <3>1. CASE x = b /\ bookingStatus[b] = "PAID"
        BY <1>4, <3>1 DEF Pending
      <3>2. CASE ~(x = b /\ bookingStatus[b] = "PAID")
        <4>1. bookingStatus[x] \in Ticketed
          BY <1>4, <3>2
        <4> QED
          BY <1>1, <1>10, <4>1 DEF WorkInv, NothingLost, c
      <3> QED
        BY <3>1, <3>2
    <2>3. "seat-inventory" \in Consumers => \A x \in Booking :
             (bookingStatus'[x] = "CANCELLED" /\ seatsSold'[x])
                 => Pending("seat-inventory", About("booking.cancelled", x))'
      BY <1>1, <1>4, <1>10 DEF WorkInv, NothingLost, c
    <2>4. "booking-service" \in Consumers => \A x \in Booking :
             (tripStatus' = "COMPLETED" /\ bookingStatus'[x] = "CHECKED_IN")
                 => Pending("booking-service", TripCompleted)'
      BY <1>1, <1>4, <1>10 DEF WorkInv, NothingLost, c
    <2> QED
      BY <2>1, <2>2, <2>3, <2>4 DEF NothingLost
  <1> QED
    BY <1>5, <1>6, <1>7, <1>8, <1>9, <1>11 DEF WorkInv

LEMMA CompleteCheckedInKeeps ==
    ASSUME IInv, CompleteCheckedIn
    PROVE  IInv'
  <1> USE DEF IInv
  <1> DEFINE c == "booking-service"
  <1>1. /\ c \in Consumers /\ TripCompleted \in queue[c]
        /\ Claim(c, TripCompleted) /\ Ack(c, TripCompleted)
        /\ UNCHANGED <<tripStatus, departsFar, lifecycleLock, seatsSold, issued, request, outbox,
                       deadLetters, sent>>
    BY DEF CompleteCheckedIn, Fresh, tripVars
  <1>2. /\ queue' \in [Consumers -> SUBSET Events]
        /\ \A x \in Consumers : queue'[x] \subseteq queue[x]
        /\ queue[c] \subseteq queue'[c] \cup {TripCompleted}
        /\ \A x \in Consumers \ {c} : queue'[x] = queue[x]
    BY <1>1, AckFacts
  <1>3. /\ claimed' \in [Consumers -> SUBSET Events]
        /\ claimed'[c] = claimed[c] \cup {TripCompleted}
        /\ \A x \in Consumers \ {c} : claimed'[x] = claimed[x]
    BY <1>1, ClaimFacts, TripCompletedFact
  <1>4. /\ bookingStatus' \in [Booking -> BookingStates]
        /\ \A x \in Booking : \/ bookingStatus[x] = "CHECKED_IN" /\ bookingStatus'[x] = "COMPLETED"
                              \/ bookingStatus[x] # "CHECKED_IN" /\ bookingStatus'[x] = bookingStatus[x]
    BY DEF CompleteCheckedIn, TypeOK, BookingStates
  <1> HIDE DEF c
  <1>5. TypeOK'
    BY <1>1, <1>2, <1>3, <1>4 DEF TypeOK
  <1>6. RequestInv'
    <2>1. \A x \in Booking : Boarded(x) => Boarded(x)'
      BY <1>4 DEF Boarded
    <2> QED
      BY <1>1, <2>1, RequestFrame
  <1>7. EventInv'
    <2>1. \A x : Known(x)' => Known(x)
      BY <1>1, <1>2, <1>3 DEF Known
    <2> QED
      BY <1>1, <1>4, <2>1 DEF WorkInv, EventInv, Unpaid
  <1>8. ClaimInv' /\ SentInv'
    BY <1>1, <1>3, <1>4 DEF WorkInv, ClaimInv, SentInv, c
  <1>9. NobodyLeftBehind' /\ TicketsOnce'
    BY <1>1, <1>4 DEF WorkInv, NobodyLeftBehind, TicketsOnce, Ticketed
  <1>10. ASSUME NEW d \in Consumers \ {c}, NEW x, Pending(d, x)
         PROVE  Pending(d, x)'
    BY <1>1, <1>2, <1>10 DEF Pending
  <1>11. NothingLost'
    BY <1>1, <1>4, <1>10 DEF WorkInv, NothingLost, Ticketed, c
  <1> QED
    BY <1>5, <1>6, <1>7, <1>8, <1>9, <1>11 DEF WorkInv

LEMMA ReleaseByEventKeeps ==
    ASSUME IInv, NEW b \in Booking, ReleaseByEvent(b)
    PROVE  IInv'
  <1> USE DEF IInv
  <1> DEFINE e == About("booking.cancelled", b)
             c == "seat-inventory"
  <1>1. /\ c \in Consumers /\ e \in queue[c]
        /\ Ack(c, e)
        /\ UNCHANGED <<tripStatus, departsFar, lifecycleLock, bookingStatus, issued, request, outbox,
                       deadLetters, claimed, sent>>
    BY DEF ReleaseByEvent, tripVars, consumerVars
  <1>2. /\ queue' \in [Consumers -> SUBSET Events]
        /\ \A x \in Consumers : queue'[x] \subseteq queue[x]
        /\ queue[c] \subseteq queue'[c] \cup {e}
        /\ \A x \in Consumers \ {c} : queue'[x] = queue[x]
    BY <1>1, AckFacts
  <1>3. /\ seatsSold' \in [Booking -> BOOLEAN]
        /\ ~seatsSold'[b]
        /\ \A x \in Booking \ {b} : seatsSold'[x] = seatsSold[x]
    BY DEF ReleaseByEvent, TypeOK
  <1>4. RequestInv'
    BY <1>1, RequestFrame DEF Boarded
  <1>5. EventInv'
    BY <1>1, <1>2 DEF WorkInv, EventInv, Known
  <1>6. ClaimInv' /\ SentInv' /\ NobodyLeftBehind' /\ TicketsOnce'
    BY <1>1 DEF WorkInv, ClaimInv, SentInv, NobodyLeftBehind, TicketsOnce
  <1>7. ASSUME NEW d \in Consumers, NEW x, Pending(d, x), ~(d = c /\ x = e)
        PROVE  Pending(d, x)'
    BY <1>1, <1>2, <1>7 DEF Pending
  <1>8. NothingLost'
    BY <1>1, <1>3, <1>7, EventFacts DEF WorkInv, NothingLost
  <1> QED
    BY <1>1, <1>2, <1>3, <1>4, <1>5, <1>6, <1>8 DEF WorkInv, TypeOK

LEMMA SendEmailKeeps ==
    ASSUME IInv, NEW e, SendEmail(e)
    PROVE  IInv'
  <1> USE DEF IInv
  <1> DEFINE c == "email-worker"
  <1>1. /\ c \in Consumers /\ e \in queue[c] /\ e \in Events /\ e \notin claimed[c]
        /\ UNCHANGED <<tripStatus, departsFar, lifecycleLock, bookingStatus, seatsSold, issued,
                       request, outbox, deadLetters>>
    BY DEF SendEmail, Fresh, tripVars, bookingVars, TypeOK
  <1>2. /\ sent' \in [Events -> Nat]
        /\ sent'[e] = sent[e] + 1
        /\ \A x \in Events \ {e} : sent'[x] = sent[x]
    BY <1>1 DEF SendEmail, TypeOK
  <1>3. /\ queue' \in [Consumers -> SUBSET Events]
        /\ \A x \in Consumers : queue'[x] \subseteq queue[x]
        /\ queue[c] \subseteq queue'[c] \cup {e}
        /\ \A x \in Consumers \ {c} : queue'[x] = queue[x]
    BY <1>1, AckFacts DEF SendEmail, TypeOK
  <1>4. /\ claimed' \in [Consumers -> SUBSET Events]
        /\ claimed[c] \subseteq claimed'[c] /\ claimed'[c] \subseteq claimed[c] \cup {e}
        /\ \A x \in Consumers \ {c} : claimed'[x] = claimed[x]
        /\ "commit" \notin Faults => e \in claimed'[c]
    <2>1. CASE Claim(c, e)
      BY <1>1, <2>1, ClaimFacts
    <2>2. CASE "commit" \in Faults /\ UNCHANGED claimed
      BY <2>2 DEF TypeOK
    <2> QED
      BY <2>1, <2>2 DEF SendEmail
  <1> HIDE DEF c
  <1>5. TypeOK'
    BY <1>1, <1>2, <1>3, <1>4 DEF TypeOK
  <1>6. RequestInv'
    BY <1>1, RequestFrame DEF Boarded
  <1>7. EventInv'
    <2>1. \A x : Known(x)' => Known(x)
      BY <1>1, <1>3, <1>4 DEF Known
    <2> QED
      BY <1>1, <2>1 DEF WorkInv, EventInv
  <1>8. \A x \in Events : sent[x] \in Nat
    BY DEF TypeOK
  <1>9. ClaimInv'
    BY <1>1, <1>2, <1>4, <1>8, <1>5 DEF WorkInv, ClaimInv, c, TypeOK
  <1>10. SentInv'
    BY <1>1, <1>2, <1>4, <1>8 DEF WorkInv, SentInv, c
  <1>11. NobodyLeftBehind' /\ TicketsOnce'
    BY <1>1, <1>4 DEF WorkInv, NobodyLeftBehind, TicketsOnce, c
  <1>12. ASSUME NEW d \in Consumers, NEW x, Pending(d, x), ~(d = c /\ x = e)
         PROVE  Pending(d, x)'
    BY <1>1, <1>3, <1>12 DEF Pending
  <1>13. \A x \in Events : sent[x] > 0 => sent'[x] > 0
    BY <1>2, <1>8
  <1>14. NothingLost'
    BY <1>1, <1>2, <1>8, <1>12, <1>13, EventFacts DEF WorkInv, NothingLost, c
  <1> QED
    BY <1>5, <1>6, <1>7, <1>9, <1>10, <1>11, <1>14 DEF WorkInv

------------------------------------------------------------------------------
(* The invariant. *)

LEMMA InitHolds == Init => IInv
  <1> SUFFICES ASSUME Init PROVE IInv
    OBVIOUS
  <1> USE DEF Init
  <1>1. TypeOK
    BY DEF TypeOK, TripStates, BookingStates, Requests, NoRequest
  <1>2. RequestInv
    BY DEF RequestInv, RequestOK, Locking, NoRequest
  <1>3. EventInv /\ ClaimInv
    BY DEF EventInv, Known, ClaimInv
  <1>4. SentInv /\ NobodyLeftBehind /\ NothingLost /\ TicketsOnce
    BY DEF SentInv, NobodyLeftBehind, NothingLost, TicketsOnce, Ticketed
  <1> QED
    BY <1>1, <1>2, <1>3, <1>4 DEF IInv, WorkInv

LEMMA StutterKeeps ==
    ASSUME IInv, UNCHANGED vars
    PROVE  IInv'
  <1>1. UNCHANGED workVars /\ UNCHANGED <<departsFar, lifecycleLock, request>>
    BY DEF vars, workVars, tripVars
  <1>2. RequestInv'
    BY <1>1, RequestFrame DEF IInv, Boarded, workVars, bookingVars
  <1>3. TypeOK'
    BY <1>1 DEF IInv, TypeOK, workVars, bookingVars, brokerVars, consumerVars
  <1> QED
    BY <1>1, <1>2, <1>3, WorkFrame DEF IInv

LEMMA ConsumeKeeps ==
    ASSUME IInv, NEW c \in Consumers, NEW e \in queue[c], Consume(c, e)
    PROVE  IInv'
  BY SkipRedeliveryKeeps, IssueTicketsKeeps, CompleteCheckedInKeeps, ReleaseByEventKeeps,
     SendEmailKeeps DEF Consume

LEMMA NextKeeps == IInv /\ [Next]_vars => IInv'
  <1> SUFFICES ASSUME IInv, [Next]_vars PROVE IInv'
    OBVIOUS
  <1>1. CASE \E status \in TripStates : UpdateTripStatus(status)
    BY <1>1, UpdateTripStatusKeeps
  <1>2. CASE Reschedule
    BY <1>2, RescheduleKeeps
  <1>3. CASE \E r \in Request, b \in Booking : CreateStart(r, b) \/ CheckInStart(r, b) \/ CancelStart(r, b)
    BY <1>3, BeginKeeps
  <1>4. CASE \E r \in Request : RequestStep(r) \/ RequestFails(r)
    BY <1>4, LockTripKeeps, TakeSnapshotKeeps, CommitKeeps, RequestFailsKeeps DEF RequestStep
  <1>5. CASE \E b \in Booking : SettlePayment(b) \/ ExpirePending(b) \/ ReleaseByRpc(b)
    BY <1>5, SettlePaymentKeeps, ExpirePendingKeeps, ReleaseByRpcKeeps
  <1>6. CASE \E e \in outbox : DispatchOutbox(e)
    BY <1>6, DispatchOutboxKeeps
  <1>7. CASE \E c \in Consumers : \E e \in queue[c] : Consume(c, e) \/ HandlerFails(c, e)
    BY <1>7, ConsumeKeeps, HandlerFailsKeeps
  <1>8. CASE UNCHANGED vars
    BY <1>8, StutterKeeps
  <1> QED
    BY <1>1, <1>2, <1>3, <1>4, <1>5, <1>6, <1>7, <1>8 DEF Next

(* The invariant behind every other result: requests decide on what is still
   so, events are true, and claims mean that the work was done. *)
THEOREM Invariant == Spec => []IInv
  BY InitHolds, NextKeeps, PTL DEF Spec

(* Whatever dies, throws or is delivered twice: a paid booking without its
   tickets, a cancelled one with its seats, a passenger still aboard a
   completed trip and a notification not sent are never without the event that
   will bring the work about. *)
THEOREM WorkIsKept == Spec => []WorkKept
  <1>1. IInv => WorkKept
    BY DEF IInv, WorkInv, WorkKept
  <1> QED
    BY <1>1, Invariant, PTL

(* No check-in, however late its trip snapshot, commits after the completion
   of the trip has moved the passengers on. *)
THEOREM NoneLeftBehind == Spec => []NobodyLeftBehind
  <1>1. IInv => NobodyLeftBehind
    BY DEF IInv, WorkInv
  <1> QED
    BY <1>1, Invariant, PTL

(* Redelivered events issue no second set of tickets and, unless a worker dies
   before its commit, send no second message. *)
THEOREM NothingTwice == Spec => []OnceOnly
  <1>1. IInv => OnceOnly
    <2> SUFFICES ASSUME IInv PROVE TicketsOnce /\ EmailOnce
      BY DEF OnceOnly
    <2>1. "commit" \notin Faults => \A e \in Events : sent[e] \in {0, 1}
      BY DEF IInv, WorkInv, SentInv
    <2> QED
      BY <2>1 DEF IInv, WorkInv, EmailOnce
  <1> QED
    BY <1>1, Invariant, PTL

------------------------------------------------------------------------------
(* What a step may do to the status of a booking. *)

\* Booking b goes from one status to the next.
Moves(b, from, to) == bookingStatus[b] = from /\ SetStatus(b, to)

\* All but the end of a trip.
MovesOne(b) ==
    \/ Moves(b, "NONE", "PENDING_PAYMENT") /\ tripStatus = "ACTIVE"
    \/ Moves(b, "PENDING_PAYMENT", "PAID")
    \/ Moves(b, "PENDING_PAYMENT", "EXPIRED")
    \/ Moves(b, "PAID", "CANCELLED")
    \/ Moves(b, "PAID", "TICKET_ISSUED")
    \/ Moves(b, "TICKET_ISSUED", "CHECKED_IN") /\ tripStatus \in {"ACTIVE", "DEPARTED"}

LEMMA StatusMoves ==
    ASSUME IInv, [Next]_vars
    PROVE  \/ UNCHANGED bookingStatus
           \/ \E b \in Booking : MovesOne(b)
           \/ CompleteCheckedIn
  <1>1. CASE \E status \in TripStates : UpdateTripStatus(status)
    BY <1>1 DEF UpdateTripStatus, bookingVars
  <1>2. CASE Reschedule
    BY <1>2 DEF Reschedule, bookingVars
  <1>3. CASE \E r \in Request, b \in Booking : CreateStart(r, b) \/ CheckInStart(r, b) \/ CancelStart(r, b)
    BY <1>3 DEF CreateStart, CheckInStart, CancelStart, Begin, bookingVars
  <1>4. CASE \E r \in Request : RequestStep(r) \/ RequestFails(r)
    <2> PICK r \in Request : RequestStep(r) \/ RequestFails(r)
      BY <1>4
    <2>1. CASE LockTrip(r) \/ TakeSnapshot(r) \/ RequestFails(r)
      BY <2>1 DEF LockTrip, TakeSnapshot, RequestFails, bookingVars
    <2>2. CASE CreateCommit(r) \/ CheckInCommit(r) \/ CancelCommit(r)
      BY <2>2, CommitFacts DEF MovesOne, Moves
    <2> QED
      BY <2>1, <2>2 DEF RequestStep
  <1>5. CASE \E b \in Booking : SettlePayment(b) \/ ExpirePending(b) \/ ReleaseByRpc(b)
    BY <1>5 DEF SettlePayment, ExpirePending, ReleaseByRpc, MovesOne, Moves
  <1>6. CASE \E e \in outbox : DispatchOutbox(e)
    BY <1>6 DEF DispatchOutbox, bookingVars
  <1>7. CASE \E c \in Consumers : \E e \in queue[c] : Consume(c, e) \/ HandlerFails(c, e)
    <2> PICK c \in Consumers : \E e \in queue[c] : Consume(c, e) \/ HandlerFails(c, e)
      BY <1>7
    <2> PICK e \in queue[c] : Consume(c, e) \/ HandlerFails(c, e)
      OBVIOUS
    <2>1. CASE HandlerFails(c, e) \/ SkipRedelivery(c, e) \/ SendEmail(e)
      BY <2>1 DEF HandlerFails, SkipRedelivery, SendEmail, bookingVars
    <2>2. CASE \E b \in Booking : IssueTickets(b)
      BY <2>2 DEF IssueTickets, MovesOne, Moves
    <2>3. CASE \E b \in Booking : ReleaseByEvent(b)
      BY <2>3 DEF ReleaseByEvent
    <2> QED
      BY <2>1, <2>2, <2>3 DEF Consume
  <1>8. CASE UNCHANGED vars
    BY <1>8 DEF vars, bookingVars
  <1> QED
    BY <1>1, <1>2, <1>3, <1>4, <1>5, <1>6, <1>7, <1>8 DEF Next

\* The step of one booking leaves the others, and goes where it says.
LEMMA MoveFacts ==
    ASSUME IInv, NEW b \in Booking, NEW from \in BookingStates, NEW to \in BookingStates,
           Moves(b, from, to)
    PROVE  /\ bookingStatus[b] = from /\ bookingStatus'[b] = to
           /\ \A x \in Booking \ {b} : bookingStatus'[x] = bookingStatus[x]
  BY SetStatusFacts DEF IInv, Moves

(* Passengers board and bookings are made only while the trip is open for it:
   what the remote trip snapshot said is still true at the commit. *)
THEOREM BoardsOpenTrip == Spec => BoardsOpenTripOnly
  <1> DEFINE OpenTrip ==
        \A b \in Booking :
          /\ (bookingStatus[b] # "CHECKED_IN" /\ bookingStatus'[b] = "CHECKED_IN")
                => tripStatus \in {"ACTIVE", "DEPARTED"}
          /\ (bookingStatus[b] = "NONE" /\ bookingStatus'[b] # "NONE")
                => tripStatus = "ACTIVE"
  <1>1. ASSUME IInv, [Next]_vars PROVE OpenTrip
    <2>1. CASE UNCHANGED bookingStatus
      BY <2>1
    <2>2. ASSUME NEW b \in Booking, MovesOne(b) PROVE OpenTrip
      <3>1. {"NONE", "PENDING_PAYMENT", "PAID", "EXPIRED", "CANCELLED", "TICKET_ISSUED", "CHECKED_IN"}
               \subseteq BookingStates
        BY DEF BookingStates
      <3>2. \A x \in Booking \ {b} : bookingStatus'[x] = bookingStatus[x]
        BY <1>1, <2>2, <3>1, MoveFacts DEF MovesOne
      <3>3. \/ bookingStatus[b] = "NONE" /\ bookingStatus'[b] = "PENDING_PAYMENT" /\ tripStatus = "ACTIVE"
            \/ /\ bookingStatus[b] # "NONE"
               /\ bookingStatus'[b] \in {"PAID", "EXPIRED", "CANCELLED", "TICKET_ISSUED"}
            \/ /\ bookingStatus[b] = "TICKET_ISSUED" /\ bookingStatus'[b] = "CHECKED_IN"
               /\ tripStatus \in {"ACTIVE", "DEPARTED"}
        BY <1>1, <2>2, <3>1, MoveFacts DEF MovesOne
      <3> QED
        BY <3>2, <3>3
    <2>3. CASE CompleteCheckedIn
      BY <1>1, <2>3 DEF CompleteCheckedIn, IInv, TypeOK
    <2> QED
      BY <1>1, <2>1, <2>2, <2>3, StatusMoves
  <1>2. IInv /\ [Next]_vars => [OpenTrip]_vars
    BY <1>1
  <1> QED
    BY <1>2, Invariant, PTL DEF Spec, BoardsOpenTripOnly

------------------------------------------------------------------------------
(* BookingWorkflow implements BookingLifecycle. *)

LEMMA LifecycleInit == Init => Lifecycle!Init
  BY DEF Init, Lifecycle!Init, LifecycleState

\* A step that moves booking b moves it in the state machine.
LEMMA MoveMaps ==
    ASSUME IInv, NEW b \in Booking, NEW from, NEW to \in BookingStates \ {"NONE"},
           Moves(b, from, to)
    PROVE  Lifecycle!Move(b, IF from = "NONE" THEN "DRAFT" ELSE from, to)
  <1>1. /\ bookingStatus' \in [Booking -> BookingStates]
        /\ bookingStatus[b] = from
        /\ bookingStatus'[b] = to
        /\ \A x \in Booking \ {b} : bookingStatus'[x] = bookingStatus[x]
    BY SetStatusFacts DEF Moves, IInv
  <1>2. LifecycleState' = [LifecycleState EXCEPT ![b] = to]
    BY <1>1 DEF LifecycleState
  <1>3. LifecycleState[b] = IF from = "NONE" THEN "DRAFT" ELSE from
    BY <1>1 DEF LifecycleState
  <1> QED
    BY <1>2, <1>3 DEF Lifecycle!Move

LEMMA NextMaps ==
    ASSUME IInv, [Next]_vars
    PROVE  Lifecycle!Next \/ UNCHANGED LifecycleState
  <1>1. CASE UNCHANGED bookingStatus
    BY <1>1 DEF LifecycleState
  <1>2. ASSUME NEW b \in Booking, MovesOne(b) PROVE Lifecycle!Next
    <2>1. {"PENDING_PAYMENT", "PAID", "EXPIRED", "CANCELLED", "TICKET_ISSUED", "CHECKED_IN"}
             \subseteq BookingStates \ {"NONE"}
      BY DEF BookingStates
    <2>2. \/ Lifecycle!Move(b, "DRAFT", "PENDING_PAYMENT")
          \/ Lifecycle!Move(b, "PENDING_PAYMENT", "PAID")
          \/ Lifecycle!Move(b, "PENDING_PAYMENT", "EXPIRED")
          \/ Lifecycle!Move(b, "PAID", "CANCELLED")
          \/ Lifecycle!Move(b, "PAID", "TICKET_ISSUED")
          \/ Lifecycle!Move(b, "TICKET_ISSUED", "CHECKED_IN")
      BY <1>2, <2>1, MoveMaps DEF MovesOne
    <2>3. Lifecycle!Conflicting(b) = {}
      BY DEF Lifecycle!Conflicting
    <2>4. \/ Lifecycle!Create(b) \/ Lifecycle!Pay(b) \/ Lifecycle!Expire(b)
          \/ Lifecycle!Cancel(b) \/ Lifecycle!IssueTickets(b) \/ Lifecycle!CheckIn(b)
      BY <2>2, <2>3 DEF Lifecycle!Create, Lifecycle!Pay, Lifecycle!Expire, Lifecycle!Cancel,
                        Lifecycle!IssueTickets, Lifecycle!CheckIn
    <2> QED
      BY <2>4 DEF Lifecycle!Next
  <1>3. CASE CompleteCheckedIn
    <2> DEFINE B == {b \in Booking : bookingStatus[b] = "CHECKED_IN"}
    <2>1. LifecycleState' = [b \in Booking |-> IF b \in B THEN "COMPLETED" ELSE LifecycleState[b]]
      BY <1>3 DEF CompleteCheckedIn, LifecycleState
    <2>2. \A b \in B : LifecycleState[b] = "CHECKED_IN"
      BY DEF LifecycleState
    <2>3. Lifecycle!Complete(B)
      BY <2>1, <2>2 DEF Lifecycle!Complete
    <2> QED
      BY <2>3 DEF Lifecycle!Next
  <1> QED
    BY <1>1, <1>2, <1>3, StatusMoves

(* Requests, workers and consumers together, with every failure, move each
   booking along the documented state machine and nowhere else. *)
THEOREM Refinement == Spec => ImplementsLifecycle
  <1>1. IInv /\ [Next]_vars => [Lifecycle!Next]_LifecycleState
    BY NextMaps
  <1> QED
    BY <1>1, LifecycleInit, Invariant, PTL DEF Spec, ImplementsLifecycle, Lifecycle!Spec
==============================================================================
