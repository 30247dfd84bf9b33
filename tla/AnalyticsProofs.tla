--------------------------- MODULE AnalyticsProofs ---------------------------
(***************************************************************************)
(* Proofs about Analytics: the books balance, for any number of bookings   *)
(* and days, whatever is published twice, overtaken or consumed again.     *)
(*                                                                         *)
(* The argument follows a booking through the pipeline.  An event is in    *)
(* the topic only if its booking came that far; the consumer group has     *)
(* processed what lies before its offset and nothing beyond the next       *)
(* record.  So a reversal that did not overtake its payment finds the      *)
(* payment counted, and the clamp of the count at 0 loses nothing.         *)
(***************************************************************************)
EXTENDS Analytics, FiniteSetTheorems, TLAPS

InLog(e) == \E i \in 1..Len(log) : log[i] = e

\* Events that were written.
Written(e) == e \in outbox \/ InLog(e)

\* Nothing is written before its booking came that far.
WrittenInv ==
    \A b \in Booking :
        /\ Written(Paid(b)) => booking[b].status \in {"paid", "cancelled"}
        /\ Written(Cancelled(b)) => booking[b].status = "cancelled"

\* The records before the offset, and perhaps the next one, are processed.
OffsetInv ==
    /\ \A i \in 1..offset : log[i] \in processed
    /\ \A e \in processed : \E i \in 1..Len(log) : i <= offset + 1 /\ log[i] = e

\* The days of a booking: of its settlement and of its event.
DaysInv ==
    \A b \in Booking :
        /\ booking[b].status \in {"pending", "settling"} => booking[b].occurred = 0
        /\ booking[b].status \in {"paid", "cancelled"} => booking[b].occurred \in Day
        /\ booking[b].status \in {"settling", "paid", "cancelled"} => booking[b].began \in Day

\* The bookings whose payment was counted; finitely many at any time.
Recorded == {b \in Booking : Paid(b) \in processed}

FiniteInv == IsFiniteSet(Recorded)

\* Without a midnight in a settlement the two days are one.
OneDayInv ==
    "midnight" \notin Faults => \A b \in Booking :
        /\ booking[b].status = "settling" => booking[b].began = today
        /\ booking[b].status \in {"paid", "cancelled"} => booking[b].began = booking[b].occurred

\* All reversals of day d came after their payments.
DayInOrder(d) == \A b \in Booking : booking[b].occurred = d => InOrder(b)

\* No booking paid on day d, or whose settlement began on it, crossed a midnight.
DayWhole(d) ==
    \A b \in Booking :
        (booking[b].status \in {"paid", "cancelled"} /\ d \in {booking[b].began, booking[b].occurred})
            => booking[b].began = booking[b].occurred

Regular(d) == DayInOrder(d) /\ DayWhole(d)

Balanced(d) == daily[d].paid = Earlier(d).paid + Cardinality(Credited(d))

LedgerInv == \A d \in Day : Regular(d) => Balanced(d)

PipelineInv == WrittenInv /\ OffsetInv /\ DaysInv /\ FiniteInv /\ OneDayInv

IInv == TypeOK /\ RateCurrent /\ PipelineInv /\ LedgerInv

------------------------------------------------------------------------------
(* Events, rates, rows and the topic. *)

LEMMA EventFacts ==
    ASSUME NEW b \in Booking
    PROVE  /\ Paid(b) \in Event /\ Cancelled(b) \in Event
           /\ \A x \in Booking : /\ Paid(b) # Cancelled(x)
                                 /\ Paid(b) = Paid(x) => b = x
                                 /\ Cancelled(b) = Cancelled(x) => b = x
  BY DEF Paid, Cancelled, Event

LEMMA EventCases ==
    ASSUME NEW e \in Event
    PROVE  /\ e.of \in Booking
           /\ \/ e.name = "booking.paid" /\ e = Paid(e.of)
              \/ e.name = "booking.cancelled" /\ e = Cancelled(e.of)
  BY DEF Paid, Cancelled, Event

LEMMA Quotient ==
    ASSUME NEW a \in Nat, NEW m \in Nat, m > 0
    PROVE  a \div m \in Nat
  OBVIOUS

LEMMA RateType ==
    ASSUME NEW p \in Nat, NEW s \in Nat
    PROVE  Rate(p, s) \in Nat
  <1>1. CASE s > 0
    <2>1. 2 * 10000 * p + s \in Nat /\ 2 * s \in Nat /\ 2 * s > 0
      BY <1>1
    <2>2. (2 * 10000 * p + s) \div (2 * s) \in Nat
      BY <2>1, Quotient
    <2> QED
      BY <1>1, <2>2 DEF Rate
  <1>2. CASE ~(s > 0)
    BY <1>2 DEF Rate
  <1> QED
    BY <1>1, <1>2

LEMMA RowFacts ==
    ASSUME NEW p \in Nat, NEW s \in Nat
    PROVE  /\ Row(p, s) \in [search : Nat, paid : Nat, rate : Nat]
           /\ Row(p, s).paid = p /\ Row(p, s).search = s
           /\ Row(p, s).rate = Rate(p, s)
  BY RateType DEF Row

LEMMA EarlierFacts ==
    ASSUME NEW d \in Day
    PROVE  /\ Earlier(d) \in [search : Nat, paid : Nat, rate : Nat]
           /\ Earlier(d).rate = Rate(Earlier(d).paid, Earlier(d).search)
  <1>1. CASE d = 1
    BY <1>1, BoundsAreNat, RowFacts DEF Earlier
  <1>2. CASE d # 1
    BY <1>2, RowFacts DEF Earlier
  <1> QED
    BY <1>1, <1>2

\* A new row for one day leaves the other days.
LEMMA NewRowKeeps ==
    ASSUME TypeOK, RateCurrent, NEW d \in Day, NEW p \in Nat, NEW s \in Nat,
           daily' = [daily EXCEPT ![d] = Row(p, s)]
    PROVE  /\ daily' \in [Day -> [search : Nat, paid : Nat, rate : Nat]]
           /\ RateCurrent'
           /\ daily'[d].paid = p
           /\ \A x \in Day \ {d} : daily'[x] = daily[x]
  <1>1. /\ daily' \in [Day -> [search : Nat, paid : Nat, rate : Nat]]
        /\ daily'[d] = Row(p, s)
        /\ \A x \in Day \ {d} : daily'[x] = daily[x]
    BY RowFacts DEF TypeOK
  <1>2. RateCurrent'
    <2> SUFFICES ASSUME NEW x \in Day PROVE daily'[x].rate = Rate(daily'[x].paid, daily'[x].search)
      BY DEF RateCurrent, Rate
    <2>1. CASE x = d
      <3>1. daily'[x].rate = Rate(p, s) /\ daily'[x].paid = p /\ daily'[x].search = s
        BY <1>1, <2>1, RowFacts
      <3> QED
        BY <3>1
    <2>2. CASE x # d
      <3>1. daily'[x] = daily[x] /\ daily[x].rate = Rate(daily[x].paid, daily[x].search)
        BY <1>1, <2>2 DEF RateCurrent
      <3> QED
        BY <3>1
    <2> QED
      BY <2>1, <2>2
  <1> QED
    BY <1>1, <1>2, RowFacts

LEMMA AppendFacts ==
    ASSUME log \in Seq(Event), NEW e \in Event, log' = Append(log, e)
    PROVE  /\ log' \in Seq(Event)
           /\ Len(log') = Len(log) + 1 /\ Len(log) \in Nat
           /\ \A i \in 1..Len(log) : log'[i] = log[i]
           /\ log'[Len(log) + 1] = e
  OBVIOUS

\* A record that came out of order stays so.
LEMMA OutOfOrderStays ==
    ASSUME log \in Seq(Event), NEW e \in Event, log' = Append(log, e), NEW b \in Booking, InOrder(b)'
    PROVE  InOrder(b)
  <1>1. /\ Len(log') = Len(log) + 1 /\ Len(log) \in Nat
        /\ \A i \in 1..Len(log) : log'[i] = log[i]
    BY AppendFacts
  <1> SUFFICES ASSUME NEW i \in 1..Len(log), log[i] = Cancelled(b)
               PROVE  \E j \in 1..i : log[j] = Paid(b)
    BY DEF InOrder
  <1>2. PICK j \in 1..i : log'[j] = Paid(b)'
    BY <1>1 DEF InOrder, Cancelled, Paid
  <1> QED
    BY <1>1, <1>2 DEF Paid

\* A reversal that was processed in order was preceded by its payment.
LEMMA PaymentFirst ==
    ASSUME TypeOK, OffsetInv, NEW b \in Booking, Cancelled(b) \in processed, InOrder(b)
    PROVE  Paid(b) \in processed
  <1>1. PICK i \in 1..Len(log) : i <= offset + 1 /\ log[i] = Cancelled(b)
    BY DEF OffsetInv
  <1>2. PICK j \in 1..i : log[j] = Paid(b)
    BY <1>1 DEF InOrder
  <1>3. j # i
    BY <1>1, <1>2, EventFacts
  <1>4. j \in 1..offset
    BY <1>1, <1>2, <1>3 DEF TypeOK
  <1> QED
    BY <1>2, <1>4 DEF OffsetInv

LEMMA CreditedFinite ==
    ASSUME FiniteInv, NEW d
    PROVE  IsFiniteSet(Credited(d)) /\ Cardinality(Credited(d)) \in Nat
  <1>1. Credited(d) \in SUBSET Recorded
    BY DEF Credited, Recorded
  <1> QED
    BY <1>1, FS_Subset, FS_CardinalityType DEF FiniteInv

------------------------------------------------------------------------------
(* Steps of Booking Service and its dispatcher. *)

\* The books are kept by a step that takes no booking, record or row away.
LEMMA LedgerFrame ==
    ASSUME LedgerInv,
           \A d \in Day : daily'[d].paid = daily[d].paid,
           \A d \in Day : Regular(d)' => Regular(d),
           \A d \in Day : Credited(d)' = Credited(d)
    PROVE  LedgerInv'
  <1> SUFFICES ASSUME NEW d \in Day, Regular(d)'
               PROVE  Balanced(d)'
    BY DEF LedgerInv
  <1>1. Balanced(d)
    BY DEF LedgerInv
  <1> QED
    BY <1>1 DEF Balanced

LEMMA NewDayKeeps ==
    ASSUME IInv, NewDay
    PROVE  IInv'
  <1> USE DEF IInv, PipelineInv
  <1>1. UNCHANGED <<booking, outbox, log, offset, processed, daily>> /\ today' \in Day
    BY BoundsAreNat DEF NewDay, TypeOK, Day
  <1>2. TypeOK' /\ RateCurrent'
    BY <1>1 DEF TypeOK, RateCurrent
  <1>3. WrittenInv' /\ OffsetInv' /\ DaysInv' /\ FiniteInv'
    BY <1>1 DEF WrittenInv, Written, InLog, OffsetInv, DaysInv, FiniteInv, Recorded
  <1>4. OneDayInv'
    BY <1>1 DEF NewDay, OneDayInv
  <1>5. LedgerInv'
    BY <1>1, LedgerFrame DEF Regular, DayInOrder, DayWhole, InOrder, Credited
  <1> QED
    BY <1>2, <1>3, <1>4, <1>5

LEMMA CountSearchKeeps ==
    ASSUME IInv, NEW d \in 1..today, CountSearch(d)
    PROVE  IInv'
  <1> USE DEF IInv, PipelineInv
  <1>1. UNCHANGED <<today, booking, outbox, log, offset, processed>> /\ d \in Day
    BY BoundsAreNat DEF CountSearch, TypeOK, Day
  <1>2. /\ daily[d].paid \in Nat /\ daily[d].search + 1 \in Nat
        /\ daily' = [daily EXCEPT ![d] = Row(daily[d].paid, daily[d].search + 1)]
    BY <1>1 DEF CountSearch, TypeOK
  <1>3. /\ daily' \in [Day -> [search : Nat, paid : Nat, rate : Nat]]
        /\ RateCurrent'
        /\ \A x \in Day : daily'[x].paid = daily[x].paid
    BY <1>1, <1>2, NewRowKeeps
  <1>4. TypeOK'
    BY <1>1, <1>3 DEF TypeOK
  <1>5. WrittenInv' /\ OffsetInv' /\ DaysInv' /\ FiniteInv' /\ OneDayInv'
    BY <1>1 DEF WrittenInv, Written, InLog, OffsetInv, DaysInv, FiniteInv, Recorded, OneDayInv
  <1>6. LedgerInv'
    BY <1>1, <1>3, LedgerFrame DEF Regular, DayInOrder, DayWhole, InOrder, Credited
  <1> QED
    BY <1>3, <1>4, <1>5, <1>6

\* What the transactions of Booking Service do to the record of a booking.
LEMMA BookingFacts ==
    ASSUME TypeOK, NEW b \in Booking, NEW new \in BookingRecords,
           booking' = [booking EXCEPT ![b] = new]
    PROVE  /\ booking' \in [Booking -> BookingRecords]
           /\ booking'[b] = new
           /\ \A x \in Booking \ {b} : booking'[x] = booking[x]
  BY DEF TypeOK

\* An event that was processed was written.
LEMMA ProcessedWritten ==
    ASSUME OffsetInv, NEW e \in processed
    PROVE  InLog(e)
  BY DEF OffsetInv, InLog

LEMMA SettleBeginKeeps ==
    ASSUME IInv, NEW b \in Booking, SettleBegin(b)
    PROVE  IInv'
  <1> USE DEF IInv, PipelineInv
  <1> DEFINE new == [booking[b] EXCEPT !.status = "settling", !.began = today]
  <1>1. UNCHANGED <<today, outbox, log, offset, processed, daily>> /\ booking[b].status = "pending"
    BY DEF SettleBegin
  <1>2. /\ new \in BookingRecords
        /\ new.status = "settling" /\ new.began = today /\ new.occurred = booking[b].occurred
    BY DEF TypeOK, BookingRecords
  <1>3. booking' = [booking EXCEPT ![b] = new]
    BY DEF SettleBegin
  <1> HIDE DEF new
  <1>4. /\ booking' \in [Booking -> BookingRecords]
        /\ booking'[b] = new
        /\ \A x \in Booking \ {b} : booking'[x] = booking[x]
    BY <1>2, <1>3, BookingFacts
  <1>5. TypeOK' /\ RateCurrent'
    BY <1>1, <1>4 DEF TypeOK, RateCurrent
  <1>6. WrittenInv' /\ OffsetInv' /\ FiniteInv'
    BY <1>1, <1>2, <1>4 DEF WrittenInv, Written, InLog, OffsetInv, FiniteInv, Recorded
  <1>7. DaysInv' /\ OneDayInv'
    BY <1>1, <1>2, <1>4 DEF DaysInv, OneDayInv, TypeOK
  <1>8. LedgerInv'
    <2>1. \A x \in Booking : booking'[x].occurred = booking[x].occurred
      BY <1>2, <1>4
    <2>2. \A d \in Day : Credited(d)' = Credited(d)
      BY <1>1, <2>1 DEF Credited
    <2>3. \A d \in Day : Regular(d)' => Regular(d)
      BY <1>1, <1>2, <1>4, <2>1 DEF Regular, DayInOrder, DayWhole, InOrder
    <2> QED
      BY <1>1, <2>2, <2>3, LedgerFrame
  <1> QED
    BY <1>5, <1>6, <1>7, <1>8

LEMMA SettleCommitKeeps ==
    ASSUME IInv, NEW b \in Booking, SettleCommit(b)
    PROVE  IInv'
  <1> USE DEF IInv, PipelineInv
  <1> DEFINE new == [booking[b] EXCEPT !.status = "paid", !.occurred = today]
  <1>1. /\ UNCHANGED <<today, log, offset, processed, daily>>
        /\ booking[b].status = "settling"
        /\ outbox' = outbox \cup {Paid(b)}
    BY DEF SettleCommit
  <1>2. /\ new \in BookingRecords
        /\ new.status = "paid" /\ new.occurred = today /\ new.began = booking[b].began
    BY DEF TypeOK, BookingRecords
  <1>3. booking' = [booking EXCEPT ![b] = new]
    BY DEF SettleCommit
  <1> HIDE DEF new
  <1>4. /\ booking' \in [Booking -> BookingRecords]
        /\ booking'[b] = new
        /\ \A x \in Booking \ {b} : booking'[x] = booking[x]
    BY <1>2, <1>3, BookingFacts
  <1>5. TypeOK' /\ RateCurrent'
    BY <1>1, <1>4, EventFacts DEF TypeOK, RateCurrent
  <1>6. OffsetInv' /\ FiniteInv'
    BY <1>1 DEF OffsetInv, FiniteInv, Recorded
  <1>7. WrittenInv'
    BY <1>1, <1>2, <1>4, EventFacts DEF WrittenInv, Written, InLog
  <1>8. DaysInv' /\ OneDayInv'
    BY <1>1, <1>2, <1>4 DEF DaysInv, OneDayInv, TypeOK
  <1>9. LedgerInv'
    <2>1. booking[b].occurred = 0 /\ Paid(b) \notin processed
      BY <1>1, ProcessedWritten DEF DaysInv, WrittenInv, Written
    <2>2. \A d \in Day : Credited(d)' = Credited(d)
      BY <1>1, <1>4, <2>1 DEF Credited
    <2>3. \A d \in Day : Regular(d)' => Regular(d)
      BY <1>1, <1>2, <1>4, <2>1, BoundsAreNat DEF Regular, DayInOrder, DayWhole, InOrder, Day
    <2> QED
      BY <1>1, <2>2, <2>3, LedgerFrame
  <1> QED
    BY <1>5, <1>6, <1>7, <1>8, <1>9

LEMMA CancelKeeps ==
    ASSUME IInv, NEW b \in Booking, Cancel(b)
    PROVE  IInv'
  <1> USE DEF IInv, PipelineInv
  <1> DEFINE new == [booking[b] EXCEPT !.status = "cancelled"]
  <1>1. /\ UNCHANGED <<today, log, offset, processed, daily>>
        /\ booking[b].status = "paid"
        /\ outbox' = outbox \cup {Cancelled(b)}
    BY DEF Cancel
  <1>2. /\ new \in BookingRecords
        /\ new.status = "cancelled"
        /\ new.occurred = booking[b].occurred /\ new.began = booking[b].began
    BY DEF TypeOK, BookingRecords
  <1>3. booking' = [booking EXCEPT ![b] = new]
    BY DEF Cancel
  <1> HIDE DEF new
  <1>4. /\ booking' \in [Booking -> BookingRecords]
        /\ booking'[b] = new
        /\ \A x \in Booking \ {b} : booking'[x] = booking[x]
    BY <1>2, <1>3, BookingFacts
  <1>5. TypeOK' /\ RateCurrent'
    BY <1>1, <1>4, EventFacts DEF TypeOK, RateCurrent
  <1>6. OffsetInv' /\ FiniteInv'
    BY <1>1 DEF OffsetInv, FiniteInv, Recorded
  <1>7. WrittenInv'
    BY <1>1, <1>2, <1>4, EventFacts DEF WrittenInv, Written, InLog
  <1>8. DaysInv' /\ OneDayInv'
    BY <1>1, <1>2, <1>4 DEF DaysInv, OneDayInv
  <1>9. LedgerInv'
    <2>1. \A x \in Booking : booking'[x].occurred = booking[x].occurred
      BY <1>2, <1>4
    <2>2. \A d \in Day : Credited(d)' = Credited(d)
      BY <1>1, <2>1 DEF Credited
    <2>3. \A d \in Day : Regular(d)' => Regular(d)
      BY <1>1, <1>2, <1>4, <2>1 DEF Regular, DayInOrder, DayWhole, InOrder
    <2> QED
      BY <1>1, <2>2, <2>3, LedgerFrame
  <1> QED
    BY <1>5, <1>6, <1>7, <1>8, <1>9

LEMMA PublishKeeps ==
    ASSUME IInv, NEW e \in outbox, Publish(e)
    PROVE  IInv'
  <1> USE DEF IInv, PipelineInv
  <1>1. /\ UNCHANGED <<today, booking, offset, processed, daily>>
        /\ log' = Append(log, e)
        /\ outbox' \subseteq outbox
        /\ e \in Event /\ log \in Seq(Event)
    BY DEF Publish, TypeOK
  <1>2. /\ log' \in Seq(Event)
        /\ Len(log') = Len(log) + 1 /\ Len(log) \in Nat
        /\ \A i \in 1..Len(log) : log'[i] = log[i]
        /\ log'[Len(log) + 1] = e
    BY <1>1, AppendFacts
  <1>3. offset \in 0..Len(log) /\ offset \in Nat
    BY <1>2 DEF TypeOK
  <1>4. TypeOK' /\ RateCurrent'
    BY <1>1, <1>2, <1>3 DEF TypeOK, RateCurrent
  <1>5. WrittenInv'
    <2>1. \A x : InLog(x)' => InLog(x) \/ x = e
      BY <1>2 DEF InLog
    <2>2. \A x : Written(x)' => Written(x)
      BY <1>1, <2>1 DEF Written
    <2>3. \A b \in Booking : /\ Written(Paid(b))' => Written(Paid(b))
                             /\ Written(Cancelled(b))' => Written(Cancelled(b))
      BY <2>2 DEF Paid, Cancelled
    <2> QED
      BY <1>1, <2>3 DEF WrittenInv
  <1>6. OffsetInv'
    <2>1. \A i \in 1..offset : log'[i] \in processed
      BY <1>2, <1>3 DEF OffsetInv
    <2>2. \A x \in processed : \E i \in 1..Len(log') : i <= offset + 1 /\ log'[i] = x
      BY <1>2, <1>3 DEF OffsetInv
    <2> QED
      BY <1>1, <2>1, <2>2 DEF OffsetInv
  <1>7. DaysInv' /\ FiniteInv' /\ OneDayInv'
    BY <1>1 DEF DaysInv, FiniteInv, Recorded, OneDayInv
  <1>8. LedgerInv'
    <2>1. \A d \in Day : Regular(d)' => Regular(d)
      BY <1>1, OutOfOrderStays DEF Regular, DayInOrder, DayWhole
    <2>2. \A d \in Day : Credited(d)' = Credited(d)
      BY <1>1 DEF Credited
    <2> QED
      BY <1>1, <2>1, <2>2, LedgerFrame
  <1> QED
    BY <1>4, <1>5, <1>6, <1>7, <1>8

------------------------------------------------------------------------------
(* The consumer. *)

\* The record it is at: the offset moves past it or the worker dies first, and
\* the record has its marker in processed_events either way.
LEMMA ConsumeFacts ==
    ASSUME IInv, Consume
    PROVE  /\ log[offset + 1] \in Event /\ InLog(log[offset + 1])
           /\ UNCHANGED <<today, booking, outbox, log>>
           /\ offset' \in 0..Len(log)
           /\ processed' = processed \cup {log[offset + 1]}
           /\ OffsetInv'
           /\ \/ log[offset + 1] \in processed /\ daily' = daily
              \/ log[offset + 1] \notin processed /\ HandleBookingEvent(log[offset + 1])
  <1> DEFINE e == log[offset + 1]
  <1>1. /\ offset \in Nat /\ Len(log) \in Nat /\ offset < Len(log)
        /\ offset + 1 \in 1..Len(log) /\ e \in Event
    BY DEF IInv, TypeOK, Consume
  <1>2. /\ UNCHANGED <<today, booking, outbox, log>>
        /\ processed' = processed \cup {e}
        /\ offset' \in {offset, offset + 1}
        /\ \/ e \in processed /\ daily' = daily
           \/ e \notin processed /\ HandleBookingEvent(e)
    BY DEF Consume
  <1> HIDE DEF e
  <1>3. PICK next \in {offset, offset + 1} : next = offset'
    BY <1>2
  <1>4. OffsetInv'
    <2>1. \A i \in 1..next : log[i] \in processed'
      <3> SUFFICES ASSUME NEW i \in 1..next PROVE log[i] \in processed'
        OBVIOUS
      <3>1. i \in 1..offset \/ i = offset + 1
        BY <1>1
      <3> QED
        BY <1>2, <3>1 DEF IInv, PipelineInv, OffsetInv, e
    <2>2. \A x \in processed' : \E i \in 1..Len(log) : i <= next + 1 /\ log[i] = x
      <3> SUFFICES ASSUME NEW x \in processed'
                   PROVE  \E i \in 1..Len(log) : i <= next + 1 /\ log[i] = x
        OBVIOUS
      <3>1. PICK i \in 1..Len(log) : i <= offset + 1 /\ log[i] = x
        <4>1. CASE x = e
          BY <1>1, <4>1 DEF e
        <4>2. CASE x \in processed
          BY <4>2 DEF IInv, PipelineInv, OffsetInv
        <4> QED
          BY <1>2, <4>1, <4>2
      <3>2. i <= next + 1
        BY <1>1, <3>1
      <3> QED
        BY <3>1, <3>2
    <2> QED
      BY <1>2, <1>3, <2>1, <2>2, Zenon DEF OffsetInv
  <1> QED
    BY <1>1, <1>2, <1>4 DEF InLog, e

\* The count of a day after a delta.
LEMMA DeltaFacts ==
    ASSUME TypeOK, RateCurrent, NEW d \in Day, NEW delta \in Int, NEW e, HandleBookingEvent(e),
           d = DayOf(e), delta = Delta(e)
    PROVE  /\ daily' \in [Day -> [search : Nat, paid : Nat, rate : Nat]]
           /\ RateCurrent'
           /\ daily[d].paid + delta >= 0 => daily'[d].paid = daily[d].paid + delta
           /\ \A x \in Day \ {d} : daily'[x] = daily[x]
  <1> DEFINE paid == Clamped(daily[d].paid + delta)
  <1>1. daily[d].paid \in Nat /\ daily[d].search \in Nat
    BY DEF TypeOK
  <1>2. /\ paid \in Nat
        /\ daily[d].paid + delta >= 0 => paid = daily[d].paid + delta
    BY <1>1 DEF Clamped
  <1>3. daily' = [daily EXCEPT ![d] = Row(paid, daily[d].search)]
    BY DEF HandleBookingEvent, Applied
  <1> HIDE DEF paid
  <1> QED
    BY <1>1, <1>2, <1>3, NewRowKeeps

\* A marker leaves the invariant of the pipeline as it is.
LEMMA MarkerKeeps ==
    ASSUME IInv, Consume
    PROVE  PipelineInv'
  <1> USE DEF IInv, PipelineInv
  <1> DEFINE e == log[offset + 1]
  <1>1. /\ UNCHANGED <<today, booking, outbox, log>>
        /\ processed' = processed \cup {e}
        /\ OffsetInv'
    BY ConsumeFacts
  <1>2. e \in Event
    BY ConsumeFacts
  <1> HIDE DEF e
  <1>3. WrittenInv' /\ DaysInv' /\ OneDayInv'
    BY <1>1 DEF WrittenInv, Written, InLog, DaysInv, OneDayInv
  <1>4. FiniteInv'
    <2>1. Recorded' = Recorded \/ Recorded' = Recorded \cup {e.of}
      BY <1>1, <1>2, EventCases, EventFacts DEF Recorded
    <2> QED
      BY <2>1, FS_AddElement DEF FiniteInv
  <1> QED
    BY <1>1, <1>3, <1>4

LEMMA ConsumePaid ==
    ASSUME IInv, Consume, NEW b \in Booking, log[offset + 1] = Paid(b), Paid(b) \notin processed
    PROVE  /\ daily' \in [Day -> [search : Nat, paid : Nat, rate : Nat]]
           /\ RateCurrent'
           /\ LedgerInv'
  <1> USE DEF IInv, PipelineInv
  <1>1. /\ UNCHANGED <<booking, log>>
        /\ processed' = processed \cup {Paid(b)}
        /\ HandleBookingEvent(Paid(b))
        /\ InLog(Paid(b))
    BY ConsumeFacts
  <1>2. PICK d \in Day : d = booking[b].occurred
    BY <1>1 DEF WrittenInv, Written, DaysInv
  <1>3. d = DayOf(Paid(b)) /\ Delta(Paid(b)) = 1
    BY <1>2 DEF DayOf, Delta, Paid
  <1>4. daily[d].paid \in Nat
    BY <1>2 DEF TypeOK
  <1>5. /\ daily' \in [Day -> [search : Nat, paid : Nat, rate : Nat]]
        /\ RateCurrent'
        /\ daily'[d].paid = daily[d].paid + 1
        /\ \A x \in Day \ {d} : daily'[x] = daily[x]
    BY <1>1, <1>2, <1>3, <1>4, DeltaFacts
  <1>6. LedgerInv'
    <2> SUFFICES ASSUME NEW x \in Day, Regular(x)'
                 PROVE  Balanced(x)'
      BY DEF LedgerInv
    <2>1. Regular(x)
      BY <1>1 DEF Regular, DayInOrder, DayWhole, InOrder
    <2>2. Balanced(x)
      BY <2>1 DEF LedgerInv
    <2>3. CASE x # d
      <3>1. Credited(x)' = Credited(x)
        BY <1>1, <1>2, <2>3, EventFacts DEF Credited
      <3> QED
        BY <1>5, <2>2, <2>3, <3>1 DEF Balanced
    <2>4. CASE x = d
      <3>1. Cancelled(b) \notin processed
        BY <1>2, <2>1, <2>4, PaymentFirst DEF Regular, DayInOrder
      <3>2. Credited(d)' = Credited(d) \cup {b}
        BY <1>1, <1>2, <3>1, EventFacts DEF Credited
      <3>3. b \notin Credited(d)
        BY DEF Credited
      <3>4. /\ Cardinality(Credited(d) \cup {b}) = Cardinality(Credited(d)) + 1
            /\ Cardinality(Credited(d)) \in Nat
        BY <3>3, CreditedFinite, FS_AddElement
      <3> QED
        BY <1>5, <2>2, <2>4, <3>2, <3>4, EarlierFacts DEF Balanced
    <2> QED
      BY <2>3, <2>4
  <1> QED
    BY <1>5, <1>6

LEMMA ConsumeCancelled ==
    ASSUME IInv, Consume, NEW b \in Booking, log[offset + 1] = Cancelled(b),
           Cancelled(b) \notin processed
    PROVE  /\ daily' \in [Day -> [search : Nat, paid : Nat, rate : Nat]]
           /\ RateCurrent'
           /\ LedgerInv'
  <1> USE DEF IInv, PipelineInv
  <1>1. /\ UNCHANGED <<booking, log>>
        /\ processed' = processed \cup {Cancelled(b)}
        /\ HandleBookingEvent(Cancelled(b))
        /\ InLog(Cancelled(b))
        /\ OffsetInv'
    BY ConsumeFacts
  <1>2. booking[b].status = "cancelled"
    BY <1>1 DEF WrittenInv, Written
  <1> PICK d \in Day : d = booking[b].began
    BY <1>2 DEF DaysInv
  <1>3. d = DayOf(Cancelled(b)) /\ Delta(Cancelled(b)) = -1
    BY DEF DayOf, Delta, Cancelled
  <1>4. \A x \in Day : Regular(x) /\ x \in {d, booking[b].occurred} => d = booking[b].occurred
    BY <1>2 DEF Regular, DayWhole
  <1>5. daily[d].paid \in Nat
    BY <1>2 DEF TypeOK
  <1>6. /\ daily' \in [Day -> [search : Nat, paid : Nat, rate : Nat]]
        /\ RateCurrent'
        /\ daily[d].paid > 0 => daily'[d].paid = daily[d].paid - 1
        /\ \A x \in Day \ {d} : daily'[x] = daily[x]
    BY <1>1, <1>2, <1>3, <1>5, DeltaFacts
  <1>7. LedgerInv'
    <2> SUFFICES ASSUME NEW x \in Day, Regular(x)'
                 PROVE  Balanced(x)'
      BY DEF LedgerInv
    <2>1. Regular(x)
      BY <1>1 DEF Regular, DayInOrder, DayWhole, InOrder
    <2>2. Balanced(x)
      BY <2>1 DEF LedgerInv
    <2>3. CASE x # d
      <3>1. Credited(x)' = Credited(x)
        BY <1>1, <1>4, <2>1, <2>3, EventFacts DEF Credited
      <3> QED
        BY <1>6, <2>2, <2>3, <3>1 DEF Balanced
    <2>4. CASE x = d
      <3>1. Paid(b) \in processed
        <4>1. InOrder(b)
          BY <1>4, <2>1, <2>4 DEF Regular, DayInOrder
        <4>2. PICK i \in 1..Len(log) : i <= offset + 1 /\ log[i] = Cancelled(b)
          BY DEF Consume, TypeOK
        <4>3. PICK j \in 1..i : log[j] = Paid(b)
          BY <4>1, <4>2 DEF InOrder
        <4>4. j # i
          BY <4>2, <4>3, EventFacts
        <4>5. j \in 1..offset
          BY <4>2, <4>3, <4>4 DEF TypeOK
        <4> QED
          BY <4>3, <4>5 DEF OffsetInv
      <3>2. Credited(d)' = Credited(d) \ {b}
        BY <1>1, EventFacts DEF Credited
      <3>3. b \in Credited(d)
        BY <1>1, <1>4, <2>1, <2>4, <3>1 DEF Credited
      <3>4. /\ Cardinality(Credited(d) \ {b}) = Cardinality(Credited(d)) - 1
            /\ Cardinality(Credited(d)) \in Nat
            /\ Cardinality(Credited(d)) # 0
        BY <3>3, CreditedFinite, FS_RemoveElement, FS_EmptySet
      <3>5. PICK base \in Nat : base = Earlier(d).paid
        BY EarlierFacts
      <3>6. daily[d].paid = base + Cardinality(Credited(d)) /\ daily[d].paid > 0
        BY <2>2, <2>4, <3>4, <3>5 DEF Balanced
      <3>7. daily'[d].paid = base + Cardinality(Credited(d) \ {b})
        BY <1>6, <3>4, <3>6
      <3> QED
        BY <2>4, <3>2, <3>5, <3>7 DEF Balanced
    <2> QED
      BY <2>3, <2>4
  <1> QED
    BY <1>6, <1>7

LEMMA ConsumeKeeps ==
    ASSUME IInv, Consume
    PROVE  IInv'
  <1> USE DEF IInv
  <1> DEFINE e == log[offset + 1]
  <1>1. /\ e \in Event
        /\ UNCHANGED <<today, booking, outbox, log>>
        /\ offset' \in 0..Len(log)
        /\ processed' = processed \cup {e}
        /\ e \in processed => daily' = daily
    BY ConsumeFacts
  <1>2. /\ daily' \in [Day -> [search : Nat, paid : Nat, rate : Nat]]
        /\ RateCurrent'
        /\ LedgerInv'
    <2>1. CASE e \in processed
      <3>1. UNCHANGED <<booking, log, processed, daily>>
        BY <1>1, <2>1
      <3>2. LedgerInv'
        BY <3>1, LedgerFrame DEF Regular, DayInOrder, DayWhole, InOrder, Credited
      <3> QED
        BY <3>1, <3>2 DEF TypeOK, RateCurrent
    <2>2. CASE e \notin processed
      BY <1>1, <2>2, EventCases, ConsumePaid, ConsumeCancelled
    <2> QED
      BY <2>1, <2>2
  <1>3. TypeOK'
    BY <1>1, <1>2 DEF TypeOK
  <1> QED
    BY <1>2, <1>3, MarkerKeeps

------------------------------------------------------------------------------
(* The invariant. *)

LEMMA InitHolds == Init => IInv
  <1> SUFFICES ASSUME Init PROVE IInv
    OBVIOUS
  <1> USE BoundsAreNat DEF Init
  <1>1. /\ EarlierPaid \in Nat /\ EarlierSearches \in Nat
        /\ 1 \in Day
    BY DEF Day
  <1>2. daily \in [Day -> [search : Nat, paid : Nat, rate : Nat]]
    BY EarlierFacts
  <1>3. TypeOK
    BY <1>1, <1>2 DEF TypeOK, BookingRecords
  <1>4. \A d \in Day : daily[d].paid = Earlier(d).paid
    OBVIOUS
  <1>6. RateCurrent
    BY EarlierFacts DEF RateCurrent
  <1>7. Recorded = {} /\ \A d \in Day : Credited(d) = {}
    BY DEF Recorded, Credited
  <1>8. WrittenInv /\ OffsetInv
    BY DEF WrittenInv, Written, InLog, OffsetInv
  <1>9. DaysInv /\ OneDayInv
    BY DEF DaysInv, OneDayInv
  <1>10. FiniteInv
    BY <1>7, FS_EmptySet DEF FiniteInv
  <1>11. LedgerInv
    <2>1. \A d \in Day : Cardinality(Credited(d)) = 0
      BY <1>7, FS_EmptySet
    <2>2. \A d \in Day : Balanced(d)
      BY <1>4, <2>1, EarlierFacts DEF Balanced
    <2> QED
      BY <2>2 DEF LedgerInv
  <1> QED
    BY <1>3, <1>6, <1>8, <1>9, <1>10, <1>11 DEF IInv, PipelineInv

LEMMA StutterKeeps ==
    ASSUME IInv, UNCHANGED vars
    PROVE  IInv'
  <1> USE DEF IInv, PipelineInv, vars
  <1>1. TypeOK' /\ RateCurrent'
    BY DEF TypeOK, RateCurrent
  <1>2. PipelineInv'
    BY DEF WrittenInv, Written, InLog, OffsetInv, DaysInv, FiniteInv, Recorded, OneDayInv
  <1>3. LedgerInv'
    BY LedgerFrame DEF Regular, DayInOrder, DayWhole, InOrder, Credited
  <1> QED
    BY <1>1, <1>2, <1>3

LEMMA NextKeeps == IInv /\ [Next]_vars => IInv'
  BY NewDayKeeps, SettleBeginKeeps, SettleCommitKeeps, CancelKeeps, PublishKeeps, CountSearchKeeps,
     ConsumeKeeps, StutterKeeps DEF Next

(* The invariant behind the two results: what was written, what was processed
   and what was counted agree, record by record. *)
THEOREM Invariant == Spec => []IInv
  BY InitHolds, NextKeeps, PTL DEF Spec

(* The rate stored beside two counts is always their rate, through either of
   the statements that write it and whatever fails. *)
THEOREM RateHolds == Spec => [](TypeOK /\ RateCurrent)
  <1>1. IInv => TypeOK /\ RateCurrent
    BY DEF IInv
  <1> QED
    BY <1>1, Invariant, PTL

(* Each day whose bookings were settled within it, and whose reversals came
   after their payments, counts exactly its bookings, with rows published twice
   and records consumed again.  A midnight in a settlement spoils the two days
   it parts and no other. *)
THEOREM RegularDaysBalance == Spec => [](\A d \in Day : Regular(d) => Balanced(d))
  <1>1. IInv => \A d \in Day : Regular(d) => Balanced(d)
    BY DEF IInv, LedgerInv
  <1> QED
    BY <1>1, Invariant, PTL

(* The books are right as long as no day ends during a settlement. *)
THEOREM BooksBalance ==
    ASSUME "midnight" \notin Faults
    PROVE  Spec => []Books
  <1>1. IInv => Books
    <2> SUFFICES ASSUME IInv PROVE Ledger
      BY DEF IInv, Books
    <2>1. \A d \in Day : DayWhole(d)
      BY DEF IInv, PipelineInv, OneDayInv, DayWhole
    <2> QED
      BY <2>1 DEF IInv, LedgerInv, Regular, DayInOrder, Balanced, Ledger
  <1> QED
    BY <1>1, Invariant, PTL
==============================================================================
