----------------------------- MODULE ReportPages ------------------------------
(***************************************************************************)
(* The pages of the admin console that show what happens: the bookings     *)
(* with the boarding desk, the dashboard and the event log (web/app/admin).*)
(* A page queries when it is opened and when its button is clicked.  The   *)
(* bookings page asks who its user is first, and its boarding desk can be  *)
(* used before that is known.                                              *)
(*                                                                         *)
(* An entry is a booking by its status, or a number of the dashboard or a  *)
(* line of the log by its version.  Filters are left out.                  *)
(***************************************************************************)
EXTENDS Naturals

CONSTANTS
    Entry,
    Query,        \* slots for queries in flight (bound)
    MaxClicks,    \* clicks, and what others do (bound)
    None

Status == {"TICKET_ISSUED", "CHECKED_IN", "COMPLETED", "CANCELLED"}

Shown == [Entry -> Status \cup {None}]

\* answer: what the query brings; since: for the properties, what changed after it
\* was served.
Pending == [step : {"sent", "served", "failed"}, answer : Shown, since : SUBSET Entry]

\* list: what the page showed when the handler was clicked; late: for the properties,
\* the booking changed after the check-in was served.
CheckIn == [entry : Entry, step : {"sent", "served", "failed"}, list : Shown, late : BOOLEAN]

NoneIsNothing == None \notin Status /\ None \notin Pending \cup CheckIn

VARIABLES
    kind,       \* which page this is
    entry,      \* what the services know
    shown,      \* what the page shows
    session,    \* getSession of the bookings page
    query,      \* the query in each slot
    checkIn,    \* handleCheckIn
    loading, loaded,
    touched,    \* for the properties: entries changed since what is shown was read
    clicks

vars == <<kind, entry, shown, session, query, checkIn, loading, loaded, touched, clicks>>

TypeOK ==
    /\ kind \in {"bookings", "dashboard", "event-logs"}
    /\ entry \in [Entry -> Status]
    /\ shown \in Shown
    /\ session \in {"asked", "ADMIN", "STAFF"}
    /\ query \in [Query -> Pending \cup {None}]
    /\ checkIn \in CheckIn \cup {None}
    /\ loading \in BOOLEAN /\ loaded \in BOOLEAN
    /\ touched \in SUBSET Entry
    /\ clicks \in 0..MaxClicks

Empty == [b \in Entry |-> None]

Asking == [step |-> "sent", answer |-> Empty, since |-> {}]

Start(q) == query' = [query EXCEPT ![q] = Asking] /\ loading' = TRUE

Opened(q) ==
    IF kind = "bookings"
    THEN [x \in Query |-> None]
    ELSE [x \in Query |-> IF x = q THEN Asking ELSE None]

Init ==
    /\ kind \in {"bookings", "dashboard", "event-logs"}
    /\ entry = [b \in Entry |-> "TICKET_ISSUED"]
    /\ shown = Empty
    /\ session = "asked"
    /\ query = Opened(CHOOSE q \in Query : TRUE)
    /\ checkIn = None
    /\ loading = (kind # "bookings")
    /\ loaded = FALSE
    /\ touched = {}
    /\ clicks = 0

Counted == clicks < MaxClicks /\ clicks' = clicks + 1

\* For the properties: what was read of b is out of date.
Changed(b) ==
    /\ touched' = touched \cup {b}
    /\ query' = [q \in Query |->
          IF query[q] # None /\ query[q].step = "served"
          THEN [query[q] EXCEPT !.since = @ \cup {b}] ELSE query[q]]

\* The answer of getSession: an ADMIN's page queries, whatever else is going on.
SessionAnswered(q) ==
    /\ kind = "bookings" /\ session = "asked"
    /\ \/ session' = "ADMIN" /\ query[q] = None /\ Start(q)
       \/ session' = "STAFF" /\ UNCHANGED <<query, loading>>
    /\ UNCHANGED <<kind, entry, shown, checkIn, loaded, touched, clicks>>

\* The button that queries again
Refresh(q) ==
    /\ Counted
    /\ ~loading
    /\ kind = "bookings" => session = "ADMIN"
    /\ query[q] = None
    /\ Start(q)
    /\ UNCHANGED <<kind, entry, shown, session, checkIn, loaded, touched>>

ServeQuery(q) ==
    /\ query[q] # None /\ query[q].step = "sent"
    /\ \/ query' = [query EXCEPT ![q].step = "served", ![q].answer = entry]
       \/ query' = [query EXCEPT ![q].step = "failed"]
    /\ UNCHANGED <<kind, entry, shown, session, checkIn, loading, loaded, touched, clicks>>

\* The dashboard keeps its last numbers when a query fails, the others show nothing.
QueryAnswered(q) ==
    /\ query[q] # None /\ query[q].step # "sent"
    /\ query' = [query EXCEPT ![q] = None]
    /\ CASE query[q].step = "served" -> shown' = query[q].answer /\ loaded' = TRUE
         [] query[q].step = "failed" /\ kind = "dashboard" -> UNCHANGED <<shown, loaded>>
         [] OTHER -> shown' = Empty /\ loaded' = FALSE
    /\ touched' = IF query[q].step = "served" THEN query[q].since ELSE touched
    /\ loading' = FALSE
    /\ UNCHANGED <<kind, entry, session, checkIn, clicks>>

\* handleCheckIn: from the list, or by a code at the boarding desk.
StartCheckIn(b) ==
    /\ Counted
    /\ kind = "bookings" /\ ~loading /\ checkIn = None
    /\ checkIn' = [entry |-> b, step |-> "sent", list |-> shown, late |-> FALSE]
    /\ loading' = TRUE
    /\ UNCHANGED <<kind, entry, shown, session, query, loaded, touched>>

\* CheckInPassenger, which says yes again to a passenger who has checked in; or it
\* is refused, or its deadline passes.
ServeCheckIn ==
    /\ checkIn # None /\ checkIn.step = "sent"
    /\ \/ /\ entry[checkIn.entry] = "TICKET_ISSUED"
          /\ entry' = [entry EXCEPT ![checkIn.entry] = "CHECKED_IN"]
          /\ \/ checkIn' = [checkIn EXCEPT !.step = "served"]
             \/ checkIn' = [checkIn EXCEPT !.step = "failed"]
          /\ Changed(checkIn.entry)
       \/ /\ entry[checkIn.entry] = "CHECKED_IN"
          /\ checkIn' = [checkIn EXCEPT !.step = "served"]
          /\ UNCHANGED <<entry, query, touched>>
       \/ /\ checkIn' = [checkIn EXCEPT !.step = "failed"]
          /\ UNCHANGED <<entry, query, touched>>
    /\ UNCHANGED <<kind, shown, session, loading, loaded, clicks>>

\* setBookings with a function: the handler builds on the current list.
CheckedIn(list) == [list EXCEPT ![checkIn.entry] = IF @ = None THEN None ELSE "CHECKED_IN"]

CheckInAnswered ==
    /\ checkIn # None /\ checkIn.step # "sent"
    /\ IF checkIn.step = "served"
       THEN /\ shown' = CheckedIn(shown)
            /\ touched' = IF checkIn.late THEN touched \cup {checkIn.entry}
                         ELSE {b \in touched : CheckedIn(shown)[b] # entry[b]}
       ELSE UNCHANGED <<shown, touched>>
    /\ checkIn' = None
    /\ loading' = FALSE
    /\ UNCHANGED <<kind, entry, session, query, loaded, clicks>>

\* What becomes of a booking: it is checked in or cancelled, and completed with its
\* trip.  Numbers and lines change as they like.
Later(status) ==
    IF kind # "bookings" THEN Status \ {status}
    ELSE CASE status = "TICKET_ISSUED" -> {"CHECKED_IN", "CANCELLED"}
           [] status = "CHECKED_IN" -> {"COMPLETED"}
           [] OTHER -> {}

\* Customers, other desks and the services go on.
EntryChanges(b) ==
    /\ Counted
    /\ \E status \in Later(entry[b]) : entry' = [entry EXCEPT ![b] = status]
    /\ Changed(b)
    /\ checkIn' = IF checkIn # None /\ checkIn.step = "served" /\ checkIn.entry = b
                  THEN [checkIn EXCEPT !.late = TRUE] ELSE checkIn
    /\ UNCHANGED <<kind, shown, session, loading, loaded>>

Next ==
    \/ \E q \in Query : SessionAnswered(q) \/ Refresh(q) \/ ServeQuery(q) \/ QueryAnswered(q)
    \/ \E b \in Entry : StartCheckIn(b) \/ EntryChanges(b)
    \/ ServeCheckIn \/ CheckInAnswered

QueryEnds(q) == ServeQuery(q) \/ QueryAnswered(q)

CheckInEnds == ServeCheckIn \/ CheckInAnswered

\* Every request has a deadline.
Fairness == (\A q \in Query : WF_vars(QueryEnds(q))) /\ WF_vars(CheckInEnds)

Spec == Init /\ [][Next]_vars /\ Fairness

------------------------------------------------------------------------------
(* Properties *)

\* What a page shows of an entry is what the entry was when the answer was served that
\* came last, of a query or of its check-in, unless the entry has changed since.  A
\* check-in that ends late does not put back the list from before a query.  (But answers
\* overtake each other: then the page shows the older of two, and what changed between
\* them counts as changed.  So a booking that a query found COMPLETED is shown CHECKED_IN
\* again when the answer to its check-in comes after the one to the query.)
ReportTrue ==
    loaded /\ ~loading => \A b \in Entry \ touched : shown[b] = entry[b]

\* The invariant behind it: an answer under way is true but for what changed since it
\* was served.
ReportInv ==
    /\ TypeOK
    /\ loaded => \A b \in Entry \ touched : shown[b] = entry[b]
    /\ \A q \in Query : query[q] # None /\ query[q].step = "served" =>
          \A b \in Entry \ query[q].since : query[q].answer[b] = entry[b]
    /\ checkIn # None => kind = "bookings"
    /\ checkIn # None /\ checkIn.step = "served" /\ ~checkIn.late =>
          entry[checkIn.entry] = "CHECKED_IN"

\* The desk can be used again after every click: Waiting ~> ~Waiting.
Waiting == loading
==============================================================================
