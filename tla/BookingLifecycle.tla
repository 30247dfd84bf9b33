-------------------------- MODULE BookingLifecycle --------------------------
(***************************************************************************)
(* What Booking Service promises, without how: every booking moves along   *)
(* one state machine, and a seat is sold to one booking at a time.         *)
(* BookingSettlement implements it, with row locks, remote calls and       *)
(* compensation; BookingWorkflow implements it with events and workers.    *)
(* DRAFT stands for a booking that has no row yet: no statement writes it. *)
(***************************************************************************)
CONSTANTS
    Booking,
    SeatsOf     \* the seats of each booking's passengers

VARIABLE state

BookingStates == {"DRAFT", "PENDING_PAYMENT", "PAID", "TICKET_ISSUED",
                  "CHECKED_IN", "COMPLETED", "EXPIRED", "CANCELLED"}

\* isPaymentSettledStatus
Settled == {"PAID", "TICKET_ISSUED", "CHECKED_IN", "COMPLETED"}

Conflicting(b) == {x \in Booking \ {b} : SeatsOf[x] \cap SeatsOf[b] # {}}

Move(b, from, to) ==
    /\ state[b] = from
    /\ state' = [state EXCEPT ![b] = to]

Create(b) == Move(b, "DRAFT", "PENDING_PAYMENT")

Pay(b) ==
    /\ Move(b, "PENDING_PAYMENT", "PAID")
    /\ \A x \in Conflicting(b) : state[x] \notin Settled

Expire(b) == Move(b, "PENDING_PAYMENT", "EXPIRED")

Cancel(b) == Move(b, "PAID", "CANCELLED")

IssueTickets(b) == Move(b, "PAID", "TICKET_ISSUED")

CheckIn(b) == Move(b, "TICKET_ISSUED", "CHECKED_IN")

\* The end of a trip completes the bookings B that boarded it, all at once.
Complete(B) ==
    /\ \A b \in B : state[b] = "CHECKED_IN"
    /\ state' = [b \in Booking |-> IF b \in B THEN "COMPLETED" ELSE state[b]]

Init == state = [b \in Booking |-> "DRAFT"]

Next ==
    \/ \E b \in Booking : \/ Create(b)
                          \/ Pay(b)
                          \/ Expire(b)
                          \/ Cancel(b)
                          \/ IssueTickets(b)
                          \/ CheckIn(b)
    \/ \E B \in SUBSET Booking : Complete(B)

Spec == Init /\ [][Next]_state
=============================================================================
