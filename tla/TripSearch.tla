----------------------------- MODULE TripSearch ------------------------------
(***************************************************************************)
(* SearchTrips and GetTripDetail of Trip Service                           *)
(* (trip-service/src/service/searchCatalog.js): the cache in Redis, the    *)
(* rows in PostgreSQL and the hold keys of Seat Inventory are read in that *)
(* order, each in a command of its own, while trips are edited and seats   *)
(* are held and sold, and other calls write the cache.                     *)
(*                                                                         *)
(* A trip is its status, its date and its seats; a criterion is a date and *)
(* a least number of seats.  Prices, hours, operators and vehicle types    *)
(* filter like the date does, sorting only orders the list: they are left  *)
(* out.                                                                    *)
(***************************************************************************)
EXTENDS Integers, FiniteSets

CONSTANTS
    Trip, Seat, Date,
    Criteria,    \* the searches that are asked (bound)
    Request,     \* slots for calls in flight (bound)
    MaxChanges,  \* edits of trips and seats (bound)
    None

ASSUME SeatsFinite == IsFiniteSet(Seat) /\ IsFiniteSet(Trip)

ASSUME CriteriaTyped == Criteria \subseteq [date : Date, least : Nat] /\ Criteria # {}

ASSUME NoneIsNone == None \notin Request \cup Trip

ASSUME BoundIsNat == MaxChanges \in Nat

VARIABLES
    onSale,   \* trips whose status is ACTIVE
    date,     \* trips.departure_time, as a date
    row,      \* trip_seats.status
    held,     \* seats of a trip with a hold key
    cache,    \* trip:search:{hash}
    request,  \* the call in each slot
    changes,  \* number of edits so far
    edited,   \* for the properties: trips whose status or date was ever changed
    watch     \* for the properties: a witness of one call, whichever it is

catalogVars == <<onSale, date, row, held, edited>>
vars == <<catalogVars, cache, request, watch, changes>>

\* catalogTrips and suggested_dates of a cached search; for the properties, those
\* of its trips that were rescheduled since their rows were read.
Entry == [trips : SUBSET Trip, dates : SUBSET Date, moved : SUBSET Trip]

NoEntry == [trips |-> {None}, dates |-> {}, moved |-> {}]

Steps == {"idle", "cache", "refresh", "query", "details",
          "scan", "nearby", "store", "answered"}

\* rows: AVAILABLE rows as read, then available_seats; candidates:
\* catalogTrips; trips, dates: the answer; moved: as in an entry.
Call == [step : Steps, for : Criteria, hit : BOOLEAN, rows : [Trip -> Nat],
         candidates : SUBSET Trip, trips : SUBSET Trip, dates : SUBSET Date,
         moved : SUBSET Trip]

Available(t) == {s \in Seat : row[t][s] = "AVAILABLE"}

\* What the seat map calls AVAILABLE.
Free(t) == Available(t) \ held[t]

DatesOnSale == {date[t] : t \in onSale}

OnDay(c) == {t \in Trip : date[t] = c.date}

Nothing == [t \in Trip |-> 0]

Asked(step, c) ==
    [step |-> step, for |-> c, hit |-> FALSE, rows |-> Nothing,
     candidates |-> {}, trips |-> {}, dates |-> {}, moved |-> {}]

NoCall == Asked("idle", CHOOSE c \in Criteria : TRUE)

\* What the witness has seen: trips on sale and their dates during the call, and
\* trips on the day it asks for; seats sold and freed while it was between the
\* rows and the holds; and then the free seats, the holds left on sold seats, and
\* whether Redis failed.
Seen == [call : Request \cup {None}, onSale : SUBSET Trip, dates : SUBSET Date,
         onDay : SUBSET Trip,
         sold : [Trip -> Nat], freed : [Trip -> Nat], free : [Trip -> Nat],
         stale : [Trip -> Nat], blind : BOOLEAN, details : BOOLEAN]

Unwatched ==
    [call |-> None, onSale |-> {}, dates |-> {}, onDay |-> {}, sold |-> Nothing,
     freed |-> Nothing, free |-> Nothing, stale |-> Nothing, blind |-> FALSE,
     details |-> FALSE]

TypeOK ==
    /\ onSale \in SUBSET Trip
    /\ date \in [Trip -> Date]
    /\ row \in [Trip -> [Seat -> {"AVAILABLE", "BOOKED"}]]
    /\ held \in [Trip -> SUBSET Seat]
    /\ cache \in [Criteria -> Entry \cup {NoEntry}]
    /\ request \in [Request -> Call]
    /\ watch \in Seen
    /\ edited \in SUBSET Trip
    /\ changes \in 0..MaxChanges

Init ==
    /\ onSale = Trip
    /\ date \in [Trip -> Date]
    /\ row \in [Trip -> [Seat -> {"AVAILABLE", "BOOKED"}]]
    /\ held = [t \in Trip |-> {}]
    /\ cache = [c \in Criteria |-> NoEntry]
    /\ request = [r \in Request |-> NoCall]
    /\ watch = Unwatched
    /\ edited = {}
    /\ changes = 0

------------------------------------------------------------------------------
(* Trips and seats change, and the witness of a call in flight takes note. *)

At(r, step) == request[r].step = step

\* The call that is watched, and its answer.
answer == request[watch.call]

Watching(step) == watch.call # None /\ At(watch.call, step)

InFlight == watch.call # None /\ ~Watching("answered")

Counted == changes < MaxChanges /\ changes' = changes + 1

\* UpdateTripStatus, CreateTrip and DeleteTrip, as far as a search can tell.
EditStatus(t) ==
    /\ Counted
    /\ onSale' = (onSale \ {t}) \cup ({t} \ onSale)
    /\ edited' = edited \cup {t}
    /\ watch' = IF InFlight
                THEN [watch EXCEPT !.onSale = @ \cup onSale',
                                   !.dates = @ \cup {date[u] : u \in onSale'}]
                ELSE watch
    /\ UNCHANGED <<date, row, held, cache, request>>

\* Entries and lists that have t among their trips keep it: nobody invalidates them.
Moved(t) ==
    /\ cache' = [c \in Criteria |->
          [cache[c] EXCEPT !.moved = @ \cup ({t} \cap cache[c].trips)]]
    /\ request' = [r \in Request |->
          [request[r] EXCEPT !.moved = @ \cup ({t} \cap request[r].candidates)]]

Reschedule(t, d) ==
    /\ Counted
    /\ date[t] # d
    /\ date' = [date EXCEPT ![t] = d]
    /\ edited' = edited \cup {t}
    /\ Moved(t)
    /\ watch' = IF InFlight
                THEN [watch EXCEPT !.dates = @ \cup {date'[u] : u \in onSale},
                                   !.onDay = @ \cup
                                      {u \in Trip : date'[u] = answer.for.date}]
                ELSE watch
    /\ UNCHANGED <<onSale, row, held>>

HoldSeat(t, s) ==
    /\ Counted
    /\ s \in Free(t)
    /\ held' = [held EXCEPT ![t] = @ \cup {s}]
    /\ UNCHANGED <<onSale, date, row, edited, cache, request, watch>>

HoldGone(t, s) ==
    /\ s \in held[t]
    /\ held' = [held EXCEPT ![t] = @ \ {s}]
    /\ UNCHANGED <<onSale, date, row, edited, cache, request, watch, changes>>

\* ConfirmSeats: the row, then the key, which Redis may fail to delete.
ConfirmSeat(t, s) ==
    /\ Counted
    /\ s \in Available(t) \cap held[t]
    /\ row' = [row EXCEPT ![t][s] = "BOOKED"]
    /\ held' \in {held, [held EXCEPT ![t] = @ \ {s}]}
    /\ watch' = IF Watching("scan") THEN [watch EXCEPT !.sold[t] = @ + 1] ELSE watch
    /\ UNCHANGED <<onSale, date, edited, cache, request>>

ReleaseSeat(t, s) ==
    /\ Counted
    /\ s \notin Available(t)
    /\ row' = [row EXCEPT ![t][s] = "AVAILABLE"]
    /\ watch' = IF Watching("scan") THEN [watch EXCEPT !.freed[t] = @ + 1] ELSE watch
    /\ UNCHANGED <<onSale, date, held, edited, cache, request>>

------------------------------------------------------------------------------
(* The calls *)

\* A call begins, and is perhaps the one that is watched.
Begin(r, step, c) ==
    /\ At(r, "idle")
    /\ request' = [request EXCEPT ![r] = Asked(step, c)]
    /\ \/ /\ watch.call = None
          /\ watch' = [Unwatched EXCEPT !.call = r, !.onSale = onSale, !.onDay = OnDay(c),
                                 !.dates = DatesOnSale, !.details = step = "details"]
       \/ UNCHANGED watch
    /\ UNCHANGED <<catalogVars, cache, changes>>

SearchTrips(r, c) == Begin(r, "cache", c)

\* GetTripDetail and GetTripsByIds write nothing: followed when watched.
TripDetails(r) == Begin(r, "details", NoCall.for) /\ watch'.call = r

\* Where the call goes on.  One that is not watched is followed as long as it may
\* write the cache.
Continue(r, call) ==
    request' = [request EXCEPT ![r] =
        IF watch.call # r /\ (call.hit \/ call.step = "answered") THEN NoCall ELSE call]

\* getCachedSearch, which answers null when the entry has expired or Redis fails.
CacheGet(r) ==
    /\ At(r, "cache")
    /\ \/ LET entry == cache[request[r].for]
          IN  /\ entry # NoEntry
              /\ Continue(r, [request[r] EXCEPT !.step = "refresh", !.hit = TRUE,
                                 !.candidates = entry.trips, !.dates = entry.dates,
                                 !.moved = entry.moved])
       \/ Continue(r, [request[r] EXCEPT !.step = "query"])
    /\ UNCHANGED <<catalogVars, cache, watch, changes>>

Rows(T) == [t \in Trip |-> IF t \in T THEN Cardinality(Available(t)) ELSE 0]

\* refreshCachedTrips: status and rows are read again, the date is not.
Refresh(r) ==
    /\ At(r, "refresh")
    /\ LET T == request[r].candidates \cap onSale
       IN  Continue(r, [request[r] EXCEPT !.step = "scan", !.rows = Rows(T),
                          !.trips = T, !.candidates = {}])
    /\ UNCHANGED <<catalogVars, cache, watch, changes>>

Query(r) ==
    /\ At(r, "query")
    /\ LET T == onSale \cap OnDay(request[r].for)
       IN  Continue(r, [request[r] EXCEPT !.step = "scan", !.rows = Rows(T),
                          !.trips = T, !.candidates = T])
    /\ UNCHANGED <<catalogVars, cache, watch, changes>>

\* Trips of any status; there is nothing to cache.
ReadDetails(r) ==
    /\ At(r, "details")
    /\ \E T \in SUBSET Trip \ {{}} :
          Continue(r, [request[r] EXCEPT !.step = "scan", !.rows = Rows(T),
                         !.trips = T, !.hit = TRUE])
    /\ UNCHANGED <<catalogVars, cache, watch, changes>>

Minus(m, n) == IF m > n THEN m - n ELSE 0

\* filterByMinimumAvailability
Enough(T, seats, least) == IF least > 0 THEN {t \in T : seats[t] >= least} ELSE T

AfterCount(r, T) ==
    IF T = {} THEN "nearby" ELSE IF request[r].hit THEN "answered" ELSE "store"

Count(r, holds, blind) ==
    LET seats == [t \in Trip |-> Minus(request[r].rows[t], holds[t])]
        T == Enough(request[r].trips, seats, request[r].for.least)
    IN  /\ Continue(r, [request[r] EXCEPT !.trips = T,
                           !.rows = IF watch.call = r THEN seats ELSE Nothing,
                           !.step = AfterCount(r, T)])
        /\ watch' = IF watch.call # r THEN watch ELSE
              [watch EXCEPT !.free = [t \in Trip |-> Cardinality(Free(t))],
                            !.stale = [t \in Trip |-> Cardinality(held[t] \ Available(t))],
                            !.blind = blind]

\* Mutant form: the rows alone count.
ScanHoldsIgnored(r) ==
    /\ At(r, "scan")
    /\ Count(r, Nothing, FALSE)
    /\ UNCHANGED <<catalogVars, cache, changes>>

\* correctedAvailableSeats with getHeldSeatCount, and the filter.
ScanHolds(r) ==
    /\ At(r, "scan")
    /\ Count(r, [t \in Trip |-> Cardinality(held[t])], FALSE)
    /\ UNCHANGED <<catalogVars, cache, changes>>

\* Redis does not answer: no seat counts as held.
ScanFails(r) ==
    /\ At(r, "scan")
    /\ Count(r, Nothing, TRUE)
    /\ UNCHANGED <<catalogVars, cache, changes>>

AfterDates(r) == IF request[r].hit THEN "answered" ELSE "store"

\* findNearbyDates
NearbyDates(r) ==
    /\ At(r, "nearby")
    /\ Continue(r, [request[r] EXCEPT !.step = AfterDates(r),
          !.dates = DatesOnSale \ {request[r].for.date}])
    /\ UNCHANGED <<catalogVars, cache, watch, changes>>

Stored(r, T) ==
    /\ At(r, "store")
    /\ \/ cache' = [cache EXCEPT ![request[r].for] =
                       [trips |-> T, dates |-> request[r].dates, moved |-> request[r].moved]]
       \/ UNCHANGED cache
    /\ Continue(r, [request[r] EXCEPT !.step = "answered", !.candidates = {}, !.moved = {}])
    /\ UNCHANGED <<catalogVars, watch, changes>>

\* Mutant form: what passed the filter is cached, not the candidates.
StoreFiltered(r) == Stored(r, request[r].trips)

\* setCachedSearch, which swallows a failure of Redis.
Store(r) == Stored(r, request[r].candidates)

\* PostgreSQL fails, and with it the call.
Failed(r) ==
    /\ request[r].step \in {"refresh", "query", "details", "nearby"}
    /\ request' = [request EXCEPT ![r] = NoCall]
    /\ watch' = IF watch.call = r THEN Unwatched ELSE watch
    /\ UNCHANGED <<catalogVars, cache, changes>>

Reply(r) ==
    /\ At(r, "answered")
    /\ request' = [request EXCEPT ![r] = NoCall]
    /\ watch' = Unwatched
    /\ UNCHANGED <<catalogVars, cache, changes>>

------------------------------------------------------------------------------
Environment ==
    \/ \E t \in Trip : EditStatus(t) \/ \E d \in Date : Reschedule(t, d)
    \/ \E t \in Trip, s \in Seat :
          HoldSeat(t, s) \/ HoldGone(t, s) \/ ConfirmSeat(t, s) \/ ReleaseSeat(t, s)

CallStep(r) ==
    \/ CacheGet(r) \/ Refresh(r) \/ Query(r) \/ ReadDetails(r)
    \/ ScanHolds(r) \/ ScanFails(r) \/ NearbyDates(r) \/ Store(r)
    \/ Failed(r) \/ Reply(r)

Next ==
    \/ Environment
    \/ \E r \in Request :
          \/ \E c \in Criteria : SearchTrips(r, c)
          \/ TripDetails(r)
          \/ CallStep(r)

Spec == Init /\ [][Next]_vars

------------------------------------------------------------------------------
(* Properties *)

Answered == Watching("answered")

Searched == Answered /\ ~watch.details

\* Whatever the cache holds, an answer lists only trips that were on sale at
\* some moment of the call: the refresh of a hit drops what was closed.
OnSaleOnly == Searched => answer.trips \subseteq watch.onSale

\* The count of free seats is put together from two stores at two moments.  It
\* is too high by at most the seats sold between the two, and too low by at most
\* those given back between them and the holds that outlived their sale.
SeatCountExplained ==
    Answered /\ ~watch.blind =>
        \A t \in answer.trips :
            /\ answer.rows[t] <= watch.free[t] + watch.sold[t]
            /\ watch.free[t] <= answer.rows[t] + watch.freed[t] + watch.stale[t]

\* An empty answer suggests days on which there was something to buy while the
\* call ran, not days that were right when its entry was cached.
SuggestionsCurrent ==
    Searched /\ answer.trips = {} => answer.dates \subseteq watch.dates

\* A trip in the answer departed on the day that was asked for at some moment of
\* the call.  The refresh of a hit does not look at the day: a trip that was
\* rescheduled since its entry was read may be listed under its old one.
RightDay ==
    Searched => answer.trips \subseteq watch.onDay
                                       \cup (IF answer.hit THEN answer.moved ELSE {})

\* The status, the day, the seats and the suggestions of an answer were true
\* during its call, wherever its parts come from, but for the exceptions
\* named above.
AnswersSound ==
    /\ TypeOK
    /\ OnSaleOnly
    /\ RightDay
    /\ SeatCountExplained
    /\ SuggestionsCurrent

\* A trip nobody edits is found by every search for its date as long as it has
\* the seats, whatever earlier searches left in the cache.
NothingWithheld ==
    Searched /\ ~watch.blind =>
        \A t \in Trip \ edited :
            /\ date[t] = answer.for.date
            /\ watch.free[t] >= answer.for.least + watch.freed[t] + watch.stale[t]
            => t \in answer.trips
==============================================================================
