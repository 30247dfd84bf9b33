------------------------------ MODULE Analytics ------------------------------
(***************************************************************************)
(* The daily aggregates of Analytics Service: from the settlement and the  *)
(* cancellation of a booking, through the outbox of Booking Service and    *)
(* the Kafka topic booking-events, to the row of analytics_daily of a day  *)
(* and a route label.                                                      *)
(*                                                                         *)
(* booking.paid credits the row of the day in its occurredAt, which is     *)
(* read from the clock of the process when the event is written.           *)
(* booking.cancelled reverses the row of the day in event_logs.created_at, *)
(* which PostgreSQL set to the START of the settlement transaction; two    *)
(* remote calls lie between the two.  The label of the one route of this   *)
(* model is found again: when the lookup fails twice in a row the code     *)
(* falls back to another label, which is left out.                         *)
(*                                                                         *)
(* revenue and tickets_sold receive their deltas in the same statement as  *)
(* paid_booking_count, which stands for the three.                         *)
(***************************************************************************)
EXTENDS Integers, Sequences, FiniteSets

CONSTANTS
    Booking,
    LastDay,          \* bound: the days of the instance are 1..LastDay
    MaxSearches,      \* bound: searches counted per day of the instance
    MaxLog,           \* bound: records of the topic
    EarlierPaid,      \* paid_booking_count of the route on day 1 at the start
    EarlierSearches,  \* and its search_count
    Faults            \* the failures that may happen, a subset of FaultKinds

FaultKinds == {"stamp",     \* a published outbox row is not stamped as published
               "stuck",     \* booking.paid fails to publish and is overtaken
               "offset",    \* the consumer dies before committing its offset
               "midnight"}  \* the day ends during a settlement

ASSUME BoundsAreNat ==
    /\ LastDay \in Nat \ {0}
    /\ {MaxSearches, MaxLog, EarlierPaid, EarlierSearches} \subseteq Nat
ASSUME FaultsKnown == Faults \subseteq FaultKinds

VARIABLES
    today,      \* the business date
    booking,    \* per booking: its status, the day its settlement began, the day of its event
    outbox,     \* unpublished rows for booking-events
    log,        \* the records of the topic
    offset,     \* records the consumer group has committed
    processed,  \* processed_events
    daily       \* analytics_daily

vars == <<today, booking, outbox, log, offset, processed, daily>>

Day == 1..LastDay
Event == [name : {"booking.paid", "booking.cancelled"}, of : Booking]

Paid(b) == [name |-> "booking.paid", of |-> b]
Cancelled(b) == [name |-> "booking.cancelled", of |-> b]

BookingRecords == [status : {"pending", "settling", "paid", "cancelled"},
                   began : Day \cup {0}, occurred : Day \cup {0}]

TypeOK ==
    /\ today \in Day
    /\ booking \in [Booking -> BookingRecords]
    /\ outbox \in SUBSET Event
    /\ log \in Seq(Event)
    /\ offset \in 0..Len(log)
    /\ processed \in SUBSET Event
    /\ daily \in [Day -> [search : Nat, paid : Nat, rate : Nat]]

\* search_to_paid_rate, in hundredths: round(paid / search * 100, 2).
Rate(paid, search) ==
    IF search > 0 THEN (2 * 10000 * paid + search) \div (2 * search) ELSE 0

\* numeric(5, 2): below 1000.00.
FitsColumn(rate) == rate < 100000

ASSUME EarlierRateFits == FitsColumn(Rate(EarlierPaid, EarlierSearches))

Row(paid, search) == [search |-> search, paid |-> paid, rate |-> Rate(paid, search)]

\* The row of the route when the instance begins.
Earlier(d) == IF d = 1 THEN Row(EarlierPaid, EarlierSearches) ELSE Row(0, 0)

Init ==
    /\ today = 1
    /\ booking = [b \in Booking |-> [status |-> "pending", began |-> 0, occurred |-> 0]]
    /\ outbox = {}
    /\ log = <<>>
    /\ offset = 0
    /\ processed = {}
    /\ daily = [d \in Day |-> Earlier(d)]

NewDay ==
    /\ today < LastDay
    /\ "midnight" \in Faults \/ \A b \in Booking : booking[b].status # "settling"
    /\ today' = today + 1
    /\ UNCHANGED <<booking, outbox, log, offset, processed, daily>>

------------------------------------------------------------------------------
(* Booking Service *)

\* BEGIN of the settlement: now() of everything it inserts.
SettleBegin(b) ==
    /\ booking[b].status = "pending"
    /\ booking' = [booking EXCEPT ![b] = [@ EXCEPT !.status = "settling", !.began = today]]
    /\ UNCHANGED <<today, outbox, log, offset, processed, daily>>

\* The payment and the seats took their time; paidOccurredAt is new Date().
SettleCommit(b) ==
    /\ booking[b].status = "settling"
    /\ booking' = [booking EXCEPT ![b] = [@ EXCEPT !.status = "paid", !.occurred = today]]
    /\ outbox' = outbox \cup {Paid(b)}
    /\ UNCHANGED <<today, log, offset, processed, daily>>

Cancel(b) ==
    /\ booking[b].status = "paid"
    /\ booking' = [booking EXCEPT ![b].status = "cancelled"]
    /\ outbox' = outbox \cup {Cancelled(b)}
    /\ UNCHANGED <<today, log, offset, processed, daily>>

\* dispatchOutboxEvents: in order of creation, but a row that fails is skipped.
Publish(e) ==
    /\ e \in outbox
    /\ "stuck" \in Faults \/ e.name = "booking.paid" \/ Paid(e.of) \notin outbox
    /\ Len(log) < MaxLog
    /\ log' = Append(log, e)
    /\ \/ outbox' = outbox \ {e}
       \/ "stamp" \in Faults /\ UNCHANGED outbox
    /\ UNCHANGED <<today, booking, offset, processed, daily>>

------------------------------------------------------------------------------
(* Analytics Service *)

\* upsertSearchCount, for a trip.search_performed event of day d, which comes
\* in another topic.  A rate the column cannot hold fails the statement.
CountSearch(d) ==
    LET row == daily[d]
    IN  /\ row.search < Earlier(d).search + MaxSearches
        /\ FitsColumn(Rate(row.paid, row.search + 1))
        /\ daily' = [daily EXCEPT ![d] = Row(row.paid, row.search + 1)]
        /\ UNCHANGED <<today, booking, outbox, log, offset, processed>>

\* greatest(paid_booking_count + delta, 0)
Clamped(paid) == IF paid > 0 THEN paid ELSE 0

\* The day and the delta of an event: handleBookingPaid takes the event's own
\* time, handleBookingCancelled that of GetBookingMetrics.
DayOf(e) == IF e.name = "booking.paid" THEN booking[e.of].occurred ELSE booking[e.of].began
Delta(e) == IF e.name = "booking.paid" THEN 1 ELSE -1

\* The row applyPaidBookingDelta makes of the one that is there.
Applied(e) == LET row == daily[DayOf(e)] IN Row(Clamped(row.paid + Delta(e)), row.search)

\* A rate the column cannot hold fails the statement.
HandleBookingEvent(e) ==
    /\ FitsColumn(Applied(e).rate)
    /\ daily' = [daily EXCEPT ![DayOf(e)] = Applied(e)]

\* Mutant form: processed_events is not consulted.
ConsumeUndeduplicated ==
    /\ offset < Len(log)
    /\ LET e == log[offset + 1]
       IN  HandleBookingEvent(e) /\ processed' = processed \cup {e}
    /\ \/ offset' = offset + 1
       \/ "offset" \in Faults /\ UNCHANGED offset
    /\ UNCHANGED <<today, booking, outbox, log>>

\* Mutant form: the offset is committed before the transaction, which fails.
ConsumeCommitsFirst ==
    /\ offset < Len(log)
    /\ LET e == log[offset + 1]
       IN  \/ HandleBookingEvent(e) /\ processed' = processed \cup {e}
           \/ UNCHANGED <<processed, daily>>
    /\ offset' = offset + 1
    /\ UNCHANGED <<today, booking, outbox, log>>

\* processAnalyticsMessage: marker and aggregate in one transaction.  When it
\* fails the record is not acknowledged and comes again: no step.
Consume ==
    /\ offset < Len(log)
    /\ LET e == log[offset + 1]
       IN  IF e \in processed
           THEN UNCHANGED <<processed, daily>>
           ELSE HandleBookingEvent(e) /\ processed' = processed \cup {e}
    /\ \/ offset' = offset + 1
       \/ "offset" \in Faults /\ UNCHANGED offset
    /\ UNCHANGED <<today, booking, outbox, log>>

------------------------------------------------------------------------------
Next ==
    \/ NewDay
    \/ \E b \in Booking : SettleBegin(b)
    \/ \E b \in Booking : SettleCommit(b)
    \/ \E b \in Booking : Cancel(b)
    \/ \E e \in outbox : Publish(e)
    \/ \E d \in 1..today : CountSearch(d)
    \/ Consume

Spec == Init /\ [][Next]_vars

\* KafkaJS keeps delivering the record at the committed offset.
FairSpec == Spec /\ WF_vars(Consume /\ offset' > offset)

------------------------------------------------------------------------------
(* Properties. *)

Credited(d) ==
    {b \in Booking : /\ Paid(b) \in processed
                     /\ Cancelled(b) \notin processed
                     /\ booking[b].occurred = d}

\* The reversal of b did not overtake its payment.
InOrder(b) ==
    \A i \in 1..Len(log) : log[i] = Cancelled(b) => \E j \in 1..i : log[j] = Paid(b)

(* "This lets cancellation reverse the exact daily aggregate row that received
   the payment" (analyticsRepository.js), and redelivered messages "are skipped
   instead of double-counted" (docs/API_CONTRACT.md): each day counts the
   bookings paid on it, less those cancelled later.  A day one of whose
   reversals came before its payment is excepted: the clamp may have lost it. *)
Ledger ==
    \A d \in Day : (\A b \in Booking : booking[b].occurred = d => InOrder(b)) =>
        daily[d].paid = Earlier(d).paid + Cardinality(Credited(d))

(* search_to_paid_rate is recomputed by two statements, from a count each of
   them did not change: whatever order searches, payments and reversals come
   in, it is the rate of the counts stored beside it. *)
RateCurrent ==
    \A d \in Day : daily[d].rate = Rate(daily[d].paid, daily[d].search)

\* The books are right: each day counts its bookings, and its rate is theirs.
Books == TypeOK /\ Ledger /\ RateCurrent

\* The next record of the partition would make a rate the column cannot hold: it
\* fails whenever it comes again, until a search lowers the rate of its day.
Blocked ==
    /\ offset < Len(log)
    /\ log[offset + 1] \notin processed
    /\ ~ FitsColumn(Applied(log[offset + 1]).rate)

(* "Resolve the handler so the partition can progress", and a record that
   failed for a transient reason is retried (consumer.js): every record of
   booking-events is applied in the end, whatever is repeated or overtaken,
   unless its partition is blocked for ever by a record whose rate overflows
   numeric(5, 2). *)
RecordsApplied ==
    \A e \in Event : \/ (\E i \in 1..Len(log) : log[i] = e) ~> e \in processed
                     \/ <>[]Blocked
==============================================================================
