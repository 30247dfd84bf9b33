# Verification of the bus booking system

TLA+ models of the services of this repository, the TLC runs that check them
on small instances, and theorems about them that TLAPS proves for every
instance. All paths below are relative to the root of the repository.

- [1. The system](#1-the-system)
- [2. Modules and their correspondence to the code](#2-modules-and-their-correspondence-to-the-code)
- [3. Runs](#3-runs)
- [4. Fairness](#4-fairness)
- [5. Theorems](#5-theorems)
- [6. What the code does differently from its documentation](#6-what-the-code-does-differently-from-its-documentation)
- [7. Not modelled](#7-not-modelled)
- [8. Plan](#8-plan)

Check a run with `tlc -config X.cfg M`, a module with theorems with
`tlapm M.tla`. `PROJECT.json` lists the runs, for every property a mutation of
the code that violates it, the lines behind every definition, the hazards, and
the theorems.

## 1. The system

Customers search trips, hold seats, create a booking, pay, receive tickets and
board; administrators edit trips, vehicles and seats. Node.js services talk
gRPC to each other, share one PostgreSQL server (each owns its tables), and
pass events through a transactional outbox to RabbitMQ (workflow) and Kafka
(analytics). Seat holds live in Redis. Browsers reach the services through a
GraphQL gateway, which also pushes changes of seats and bookings to them.

| component | state | operations | hard behaviour |
|---|---|---|---|
| Seat Inventory (`services/seat-inventory-service`) | `trip_seats` rows; Redis hold keys and per-token index, both with a TTL | GetSeatMap, HoldSeats, ReleaseHold, ValidateHold, ConfirmSeats, ReleaseBookedSeats, BlockSeats; consumer of booking.expired and booking.cancelled | every operation is several Redis commands and SQL statements; holds expire between any two; Redis fails in the middle |
| Booking Service (`services/booking-service`) | `bookings`, `booking_passengers`, `event_logs`, its outbox rows | createBooking, simulatePayment, cancelBooking, checkIn, expirePendingBookings (timer, 15 s), completeCheckedInBookings (trip.completed) | row locks and advisory locks held over remote calls; compensation after a failed transaction; deadlines |
| Payment Service | none | simulatePayment | an answer |
| Trip Service (`services/trip-service`) | `routes`, `stops`, `vehicles`, `trips`, the layout of a vehicle and the seat rows copied from it; search cache and maintenance lease in Redis | createTrip, updateTrip, updateTripStatus, deleteTrip, createVehicle, updateVehicle, deleteVehicle, configureVehicleSeats; searchTrips, getTripDetail | rows of three services without a constraint between them; cache, rows and holds read at different moments |
| Ticket Worker, Email Worker (`workers`) | `workflow_processed_events`, tickets | issueTickets; processEmailEvent | redelivery, crashes between commit and acknowledgement |
| Shared outbox, events, pools (`packages/shared`) | `outbox_events`; the closure of a consumer; the pool of connections | writeOutboxEvent, dispatchOutboxEvents (timer, 3 s), createWorkflowConsumer, withTransaction | at-least-once, reordering, dead letters; reconnection decided in callbacks; waits for connections and locks |
| Analytics Service | `analytics_daily`, `processed_events`, Kafka offsets | search and booking events | repeated and reordered records, two clocks, numeric columns |
| GraphQL Gateway | circuit breakers, iterators of subscriptions | callGrpc, resolvers and their broadcasts, workflow bridge | calls that end in another state of the breaker than they began in; broadcasts that overtake each other |
| Web application (`apps/web`) | state of the pages; cookies of session, checkout and booking | seat map, checkout, payment, booking, lookup; search; the administrators' catalogue, bookings, dashboard and log | answers in any order, handlers that outlive their page, requests executed after their deadline, other tabs, other administrators |
| MCP server | none | forwards to the gateway | |

What makes them correct:

- *seats*: a seat is sold to at most one paid booking; a confirmation takes all
  seats or none; a blocked seat is not handed out; sold seats become available
  only by the release of their booking;
- *bookings*: the row follows the state machine of `docs/ARCHITECTURE.md`
  section 6; a paid booking owns its seats; one request settles a booking;
  an unpaid one ends, and gives its seats back;
- *workflow*: tickets are issued once; nobody boards a trip that is not open,
  nobody is left boarded by its completion; work is never lost between an
  outbox, a queue and a dead letter queue, and it is done in the end;
- *catalogue*: the seat rows of a trip are the layout of its vehicle; a booking
  keeps its trip and its seats whatever administrators edit; no lock leaks;
- *search*: the status, the seats and the suggested days of an answer are true
  of its call, whatever the cache holds, and the day unless a cached trip was
  rescheduled (section 6); a trip that has the seats is found;
- *analytics*: the daily counts are those of the bookings, the rate is that of
  the counts, and every record is applied unless one whose rate its column
  cannot hold blocks the partition for ever (section 6);
- *gateway and connections*: a service that is down is spared, and tried again;
  a consumer that lost its link connects again, once; viewers are told of every
  change; no connection is lost and no call waits for ever;
- *web application*: seats that are held lead to their payment; a page shows
  what was asked last, a list what is stored but for what changed elsewhere; a
  save from an old form leaves trip statuses, the seat counts of configured
  layouts and deletions as they are; who has a valid session is not signed out
  by what fails or is asked during it; no page waits for ever.

The hazards behind these, each at its line, are in `PROJECT.json`.

## 2. Modules and their correspondence to the code

| module | role |
|---|---|
| `SeatStore` | the state of a trip's seats and the elementary changes of it; shared by the two next ones |
| `SeatInventory` | every handler of Seat Inventory that changes seats, one action per command |
| `SeatInventoryHistory` | `SeatInventory` with two history variables: the holds that were written over a seat sold or blocked by then, and the booking whose seats the last step released |
| `SeatInventoryProofs` | theorems about both |
| `BookingLifecycle` | abstract specification: the booking state machine, and the sale of every seat to one booking at a time |
| `BookingSettlement` | payment and what races it; implements `BookingLifecycle` |
| `BookingSettlementProofs` | its theorems, the refinement included |
| `BookingWorkflow` | outbox, queues, workers, check-in, cancellation and creation against trip edits; implements `BookingLifecycle` |
| `BookingWorkflowProofs` | its theorems, the refinement included |
| `TripTopology`, `TripTopologyProofs` | the administrators' edits of trips, vehicles and layouts against the customers of a trip |
| `TripSearch`, `TripSearchProofs` | searches and trip details: cache, rows, holds |
| `Analytics`, `AnalyticsProofs` | from the settlement of a booking to the daily aggregate |
| `CircuitBreaker` | `callGrpc` of the gateway |
| `WorkflowConsumer` | the reconnecting consumer of RabbitMQ |
| `Realtime` | from a change of a seat to the browsers that show it; built on `WorkflowConsumer` |
| `ConnectionPools` | the connections and the lock that Booking Service and Trip Service wait for |
| `ConnectionProofs` | theorems about the consumer, the seat map's viewers, the breaker, the pools, and the union in which they are checked |
| `CheckoutFlow`, `SearchPage`, `LocationInput` | the customers' pages |
| `CatalogPage`, `ReportPages`, `AdminSession` | the administrators' pages |
| `MCConnections`, `MCWebApp` | parts that share no state, checked in one run each |
| `WebAppProofs` | theorems about the web application, stated of `MCWebApp` |
| other `MC*` | instances for TLC (history variables, symmetry) |

**SeatStore.** `seatStatus` and `seatBooking` are the columns of `trip_seats`.
A booking has one hold token, and a token is bound to one booking, so a token
names both and `seatBooking` holds a token. `hold[s]` is the token in the
payload of the Redis key of seat `s`; `tokenIndex[t]` the seats in the index
key of `t`. The script sets the keys of a hold one after another, each with the
same TTL, and the index last: the keys disappear one by one and the index after
them (`DropExpired`). A release or a block may delete any of them before.

**SeatInventory.** A slot `call[c]` is a running handler with its local
variables (operation, seats, token, what it read). Each SQL statement that
locks, and each Redis command, is an action; the two Lua scripts are atomic.
`ReleaseStart ... ReleaseReport` follow `releaseIndexedHold`,
`releaseHoldByToken` and its fallback scan; `ConfirmLock`, `ConfirmValidate`,
`ConfirmUpdate` the transaction of `confirmTripSeats`, whose hold validation
is a callback between lock and update. An action that fails leaves through the
same path as the code's catch (`ReleaseFail`, `BlockCleanupFail`).

**BookingSettlement.** `pay[p]` is a request of `simulatePayment` with, in
`rpc`, the ConfirmSeats handler it started on the other side of gRPC: the two
move separately, and the handler survives its caller (`"gone"`). `bookingLock`
is the `FOR NO KEY UPDATE` lock. The steps before `PayCommit` run inside the
transaction; `CompensateFetch` and `CompensateRelease` run after it ended,
without a lock. Failures are the members of the constant `Faults`, so that a
run says which of them it admits.

**BookingWorkflow.** Payments are one step here. A request of the other three
operations is at `lock` (before the advisory lock), `snapshot` (before the call
to Trip Service) or `commit`. The trip has its status and one bit of its
departure time, whether cancellation is still allowed. `outbox`, `queue`,
`deadLetters` and `claimed` hold events; an event is published as often as the
dispatcher dies before stamping it. The row locks of Ticket Worker and
cancellation make their transactions single steps. `Complete(B)` is one
message of trip.completed handled by `completeCheckedInBookings`: all the
checked-in bookings of the trip change in one statement, so in
`BookingLifecycle` too the abstract step takes a set of bookings.

**TripTopology.** `admin[a]` is a running RPC of `adminCatalog.js`. A
transaction is split where it takes its next lock (lifecycle, then layout, then
rows; the lease before all of them), and its writes appear at its COMMIT:
`UpdateTripStart`, `AcquireLease`, `ScanHolds`, `UpdateTripBegin`,
`LockLayout`, `LockRows`, `RenewLease`, `CommitVehicle`, `ReleaseLease` are one
updateTrip with a new vehicle. `client[k]` is a customer with hold token `k`,
from HoldSeats to the cancellation of the booking; here HoldSeats has its three
reads of the row and the trip, and the script that looks at the maintenance
key. A trip's status is `ACTIVE` or `OTHER` (DRAFT and LOCKED are entered and
left alike). `Orphan` is a lease that nobody will release: its SET or DEL went
unanswered, or its owner died. One assumption on time is in `LeaseExpire`: the
COMMIT that follows the renewal of a lease ends within the renewed 120 s.

**TripSearch.** `request[r]` is a call of `searchTrips` or `getTripDetail`,
which reads the cache, the rows and the hold keys one after another; a hit is
refreshed from the rows, a miss stored, each in a step of its own. An entry
keeps its candidates before the filter on free seats, as in the code. `watch`
is a history variable: what was on sale, on the day, free, sold and given back
while one call ran; the field `moved` of entries and calls is another: their
trips that were rescheduled since the rows were read. No edit invalidates an
entry, in the code as here.

**WorkflowConsumer, Realtime.** `timer`, `attempt` and the flag `active` of a
link are what `scheduleReconnect` and `ensureConnected` decide on; `overlooked`
records the one moment in which the loss of a link schedules nothing
(section 6). In `Realtime` a task is a resolver's mutation or the bridge's
message on its way through Seat Inventory to the broadcast. A hold is written
(`CreateHold`) and stands only after its re-check, else it is discarded without
a broadcast; a block takes the row of a held seat too, and deletes the hold's
key afterwards (`BlockSeats`, `ReleaseSeatHolds`). The handler of a mutation
goes on when the gateway has given up or died: then its task awaits no status. `stream[v]` is the
iterator of `pubsub.js` with its queue, the outstanding `next()` and the
message on the websocket. `due` and `silent` are histories: whom a change is
owed to, and changes nobody announces.

**ConnectionPools.** `step[c]` is how far a call of Booking Service, of Trip
Service's edits or of the outbox dispatcher is, `detail[b]` the GetTripDetail
that a booking has asked for and that takes one connection per query, `free`
the two pools, `lock` the advisory lock of the trip. updateTrip and
updateTripStatus read the trip for their reply on another connection, after
they gave theirs back (`ReadBack`).

**CircuitBreaker.** The breaker of one service, its variables as in the code,
and the calls in flight, each with the time it was sent; a call ends by its
deadline. `failures` is not counted beyond the threshold because nothing
distinguishes larger counts.

**Analytics.** A day is a number. `began` is the day of the transaction's
start (`event_logs.created_at`), `occurred` the day of `new Date()` when
booking.paid is written. The rate is computed in hundredths with the rounding
of PostgreSQL's `round`, and `FitsColumn` is `numeric(5, 2)`.
`paid_booking_count` stands for revenue and tickets, which take their deltas in
the same statement. Searches come in a topic of their own: `CountSearch` goes on
while a record that does not fit blocks the partition of bookings (`Blocked`).

**The web application.** A module is one browser with what the servers keep of
it. A click starts a handler in a slot; the handler goes on when the page is
left, as React's does, and its answer is an action that may come in any order,
fail, or miss its deadline after the server has done the work.

- `CheckoutFlow`: tabs that share the two encrypted cookies of
  `lib/server/flow-context.js`, which the answers of `api/flow-context` set and
  clear; `job[j]` is the handler of Hold, of the checkout form, of Pay or of a
  search for a booking, one action per await. A booking bears the name of its
  hold (`hold_token` is unique).
- `SearchPage`: requests with the page they were sent from; `loading`, the
  form, the address and the results are the `useState`s of `_SearchClient.jsx`.
- `LocationInput`: debounce and lookups of `LocationInput.jsx`.
- `CatalogPage`: one of the four catalogue pages (`kind`), whose handlers put
  their result into the list they saw at their click; the resolvers and
  procedures behind them are `Serve`, and other administrators `OtherEdits`. A
  vehicle has a number of seats, typed in its form or, once it is in `laid`,
  that of its layout.
- `ReportPages`: bookings with the boarding desk, dashboard, event log. What is
  listed changes while pages show it (`Later`: a booking is checked in or
  cancelled, and completed with its trip).
- `AdminSession`: the layout of the console, its login, and the routes that set
  and delete the cookie in their answers.

**Unions.** `MCConnections` and `MCWebApp` check several independent modules in
one run: `part` names the one a behaviour is of, the variables of the others
stay as they are. `MCConnections` extends its modules, whose initial states and
steps have names of their own for that (`BreakerNext`, `PoolsNext`), so that
`ConnectionProofs` proves the very properties it checks; in `MCWebApp`, which
instantiates its modules, the variables `v1` to `v10` are those of the part, and
`WebAppProofs` proves of these instances, for any constants. Nothing is composed in them; each behaviour is one of a single module,
under the fairness of that module.

## 3. Runs

| run | instance | checks |
|---|---|---|
| `seat_inventory` | 2 seats, 2 tokens, 2 calls | `AllOrNone`, `TakenSeatNeverGranted`, `SoldSeatsStay`, `ReleaseIsComplete` |
| `settlement` | 3 bookings over 2 seats (`{s1}`, `{s2}`, `{s1, s2}`), 3 requests; crash, timeout, redis | `PaidOwnsSeats`, `OneSettlement`, `ImplementsLifecycle` |
| `settlement_live` | 2 bookings, 2 requests; commit, redis | `SeatsComeBack`, `PendingIsTransient` |
| `workflow` | 1 booking, 2 requests, 4 consumers; ack, handler, commit | `NobodyLeftBehind`, `WorkKept`, `BoardsOpenTripOnly`, `ImplementsLifecycle` |
| `workflow_live` | 1 booking, 1 request, 4 consumers; stamp, ack | `OnceOnly`, `WorkGetsDone` |
| `analytics` | 2 bookings, 2 days, 4 records, 9 earlier payments and 1 search on day 1; stamp, stuck, offset | `Books`, `RecordsApplied` |
| `trip_topology` | 1 trip, 2 vehicles, 2 seats, 2 administrators, 1 customer | `LayoutAgrees`, `BookingsStand`, `GrantedHoldStands`, `LocksOwned`, `BlockedSurvivesVehicleChange` |
| `trip_search` | 1 trip with 1 seat, 2 days, 2 criteria, 2 calls, 2 changes | `AnswersSound`, `NothingWithheld` |
| `connections` | 4 calls, 16 ticks, deadline 2, cooldown 3, threshold 2; 1 seat, 1 viewer, 1 resolver, 3 events; 2 bookings, 2 edits, 1 dispatcher over pools of 2 | `PartsSound`, `TrialsOrderly`, `NoPileUp`; `KeepsOneLink`, `ViewersTold`, `TornOnlyWhenTaken`, `EventsHandled`; `PoolsCallsEnd` |
| `web_app` | 2 tabs, holds, places and items, 2 requests at a time, 3 to 5 clicks by the part | `WithinReach`, `BookingIsShown`, `PagesTrue`, `ValidSessionKept`, `EditsUndoNothing`, `SpinnersStop` |

Each module's type invariant is checked by one of these runs, by itself or as a
part of `WorkKept`, `Books`, `LayoutAgrees`, `AnswersSound`, `PartsSound` or
`PagesTrue`. The two runs that end in a violation are in section 6.

Why the bounds are enough. The seat properties relate one seat, two seats of
one call, or two calls; two calls, seats and tokens give every pair of
handlers, one of them twice, on overlapping and disjoint seats. Three bookings
and three requests in `settlement` let two requests work on one booking while
a third one pays for a booking that wants the same seats. The workflow
properties speak of one booking, and bookings of a trip meet only in the trip
and its lock; two requests are two creations, a check-in racing a cancellation,
or two of one kind. `workflow` repeats a message when its consumer dies;
`workflow_live` also when the dispatcher does, long after it was first handled.
In `analytics` four records are two payments and two cancellations, or fewer
with one repeated; day 1 begins at a rate of 900.00, so that the next payment
on it does not fit `numeric(5, 2)` unless a search comes before.

In `trip_topology` two administrators are any two RPCs at once, of which one
may hold the lease the other one lost; two vehicles and two seats are a change
of layout that takes seats away, adds some or both. One customer is enough
for what is checked there: customers meet each other in the rows and holds, which
is what `seat_inventory` checks. Nothing is counted in it, so holds, bookings
and edits follow each other as often as they can. In `trip_search` the two
criteria differ in the seats they want, the one filtered by its count; two changes
are a sale, or an edit and its opposite, between two reads of one call or between the
calls that fill and use an entry.

In `connections` four calls and sixteen ticks open the breaker, try and reopen it
three times; three events are a hold, its loss and a crash, or a crash
while connecting; two bookings that hold one lock and wait for two connections
that wait for that lock are the jam, and with the dispatcher the pool of
Booking Service is exhausted. In `web_app` two slots are two answers in either
order, two tabs a handler in one and a navigation in the other; three to five
clicks fill both slots and start another handler after them.

`MaxTime`, `MaxSent`, `MaxSearches`, `MaxLog`, `LastDay`, `MaxChanges`,
`MaxEvents` and `MaxClicks` (in `MCWebApp` one for each part, `CheckoutClicks`
and so on) bound counters that only grow.

Deadlock is not checked where the instance may come to its end: every booking
settled and gone, the clock, the clicks or the events at their bound, the log
full. `seat_inventory` and `trip_topology` check it: a customer, an
administrator or a running call can always go on.

## 4. Fairness

`BookingSettlement!FairSpec`: a running handler goes on (Node's event loop,
PostgreSQL's and Redis' replies or errors), the TTL and the sweep's timer tick,
and an unacknowledged booking.cancelled is delivered again. No fairness on
customers: holding, paying, cancelling may never happen. The deadline of
ConfirmSeats is a fault, never forced.

`BookingWorkflow!FairSpec`: the dispatcher's timer publishes and stamps each
row in the end, and each message is acknowledged in the end; both may fail any
finite number of times. A handler that throws is not retried by the code
(its message is dead-lettered), so `WorkGetsDone` is checked without that
fault, and `WorkKept` with it. The finite number is what weak fairness of
the successful outcome says.

`Analytics!FairSpec`: KafkaJS delivers the record at the committed offset until
the offset moves. Publishing is not fair.

`Realtime!Fairness`: the reconnection timer fires and an attempt goes on, the
broker delivers what is queued to a consumer that is connected, the bridge's
reads and broadcasts end, and a process with an uncaught error exits and is
started again. Nothing fair is asked of browsers, of resolvers or of the broker staying up:
its failures are finitely many as they are counted.

`ConnectionPools!PoolsFairness`: not everything stands still while something could
go on. Statements, replies, the pool's connection timeout and the deadline of
GetTripDetail are among it; the statement timeout of an edit that waits for the
lock is not, since updateTripStatus has none.

The web modules: a request ends, by its answer or by the deadline that
`fetchWithTimeout` (`packages/shared/src/http.js`) puts on it, in the browser and in the routes. Users do what they like.

## 5. Theorems

Every theorem is checked by `tlapm` for every value of the constants that
satisfies the named assumptions of the modules.

**Seat Inventory** (`SeatInventoryProofs`). The inductive invariant adds to
`TypeOK`: a row lock belongs to a call that is at a step where the code holds
it and covers the call's seats; a confirmation past its checks still finds its
rows as checked, since whoever changes a row needs its lock; a sold row names a
booking. `AllOrNone` follows: without the second part a confirmation could book
some of its seats only, as the update's predicate drops rows. So does
`SoldStays`: a sold seat stays sold to its booking until ReleaseBookedSeats is
called for that very booking. It is stated of `HistorySpec`, whose `releaser`
is the booking a step releases the seats of; that the specification with its
histories has no other behaviours than `SeatInventory` is `HistoryOfSpec`.

A second invariant, `HoldInv`, is about Redis. `TokenInv`: until HoldSeats has
answered, its token is known to that call alone, so only customers with a granted hold
confirm or book. `RedisInv`: an index that is there lists all the keys of its
token, and the keys a release has read (or, without index, scanned) still cover what its token
holds, since keys are added only by the script that draws the token. So whatever
expires or is taken over meanwhile, `ReleaseIsComplete`. `HistoryInv`
says that a hold written over a seat that was sold or blocked by then, and
still is, belongs to a call that will find it out in its re-check, which
follows the writing, and that it is not granted before: `TakenNeverGranted`.
Blocking is final in this service: only Trip Service replaces a row
(`TripTopology`).

**Settlement** (`BookingSettlementProofs`). `SettlesAlone` needs only that a
request between its first read and its commit has the booking's lock, which
holds under every fault. `PaidOwns`, `SoldOnce` and `Refinement` have the
assumption that settlement transactions do not fail after ConfirmSeats
(`"commit" \notin Faults`), because with it they are false (section 6). Their
invariant says what a request knows: at `commit`, all seats are BOOKED for its
booking, and they stay so as only a compensation of the same booking or a
cancellation releases them, the one being impossible and the other needing the
lock; a handler at `book` has its rows locked; cancelled bookings alone are in
`toRelease`; a booking whose row does not exist yet owns nothing.
`Refinement` shows that every step is one of `BookingLifecycle` or a stutter, its guard
that no seat of a paid booking is paid for again coming from `PaidOwns`.
`SoldOnce` proves `NoDoubleSale`, the property that `settlement_race` refutes
with that fault.

**The catalogue** (`TripTopologyProofs`), for any number of trips, vehicles,
seats, administrators and customers. None of the five properties is inductive,
as every RPC checks under one lock what it writes under another, after
statements of other calls. The invariant `IInv` says of each running RPC
(`RpcSound`) that it has the locks of its step and that what it checked is still
so, naming the lock that it owes this to:

| what stays true | owed to |
|---|---|
| the vehicle being configured has no trip | its layout lock, which createTrip and updateTrip take before they assign it |
| the layout about to be copied into the rows | the same lock |
| the trip still exists, and (deleteTrip) no booking refers to it | the lifecycle lock, under which createBooking reads the trip and writes its row |
| the seat rows to be replaced are all AVAILABLE | the row locks, which confirmations and BlockSeats wait for |
| nobody has a hold of the trip | the lease, which holdSeatsScript looks at; only as long as the key still carries the call's token |

So an RPC that lost its lease may find holds; it learns of it at
`refreshMaintenance` and rolls back. The model assumes of time that the COMMIT
behind it takes less than the renewed TTL of 120 s (`LeaseExpire` does not touch a
call at its commit), and `HoldsKept` uses that once. For the customers `ClientSound` says
where trip, rows and lock of each step are. Each step of an administrator
keeps `IInv` by one of two lemmas: `RpcStepKeeps` for the steps that write no
table, which may take free locks and give their own back, and `CommitKeeps` for
the four commits, which must show that what they write is out of the other RPCs' reach
(`Touches`). Customers' steps need only `SparesRpcs`: they write no row an RPC has
locked, take none of its locks, and draw no hold under a lease.

**The reconnecting consumer** (`ConnectionProofs`). `ConsumerInv` says that a
consumer without a link has an attempt under way or a timer set, except for the
one overlooked moment of section 6, that a timer and an attempt exclude each
other, and that an attempt never opens a second link.
`ConsumerReconnects` states it for `WorkflowConsumer` alone. `GatewayConsumes`
shows that the gateway, with its bridge, resolvers and viewers, implements
that consumer: each of its steps is a step of the consumer or leaves it alone.
`BridgeReconnects` follows from the two.

**The seat map and its viewers** (`ConnectionProofs` too), for any seats,
viewers and resolvers. The invariant `RealtimeInv` follows a change to the browser: what a
subscribed viewer is due is either to come (`ToCome`: in the queue, part of a
sale that is still running, or read by a task whose answer is what the seat is
now) or carried (`Carried`: a message with the current status is in the
viewer's iterator or on its websocket), unless nobody announces the change
(`silent`). `EverybodyTold` is this invariant at rest. `TornWhenTakenOnly` comes
from `ReadSound`, about a GetSeatMap between its two reads: whatever the holds
say next, the answer is a status the seat had during the call; or the seat was
sold or blocked meanwhile, and is called available that was held before, or
held that was available, by a key written over the taken row. The last case
takes two mutations at once: the run, with one resolver, does not reach it, the
theorem does.

**The workflow** (`BookingWorkflowProofs`), for any number of bookings,
requests and consumers, and any faults. A check-in or a creation that has seen
the trip has the advisory lock, so what it saw is so at its commit
(`RequestInv`): `BoardsOpenTrip`. An event that exists anywhere is true: its
booking was paid, the trip is over (`EventInv`). A claim proves that the work was done,
being of the same transaction (`ClaimInv`), hence a redelivery that is skipped
loses nothing (`WorkIsKept`), and nothing is done twice (`NothingTwice`, with
`SentInv`). `NoneLeftBehind`: after the trip is completed no request can board,
and while somebody is aboard, the message that completes the bookings has not been handled.
`Refinement` shows that the workflow implements `BookingLifecycle`, as the
settlement does.

**Analytics** (`AnalyticsProofs`), for any bookings, days and records. The
consumer group has processed what lies before its offset, and beyond it at most
the next record (`OffsetInv`); an event is written only if its booking came that
far (`WrittenInv`). A count is then that of the payments processed less the reversals
that found a payment. `RateHolds` has no hypothesis, nor has
`RegularDaysBalance`, which is about the days that no settlement straddles and
on which no reversal overtook its payment. `BooksBalance` concludes `Books` if no settlement goes over
midnight (`"midnight" \notin Faults`); with that fault `Books` is false, as
section 6 says, and the run excludes it too.

**Search** (`TripSearchProofs`), assuming that there are criteria and that
`MaxChanges` is a number. An entry of the cache, and a list that may become one, has every trip of
its day that nobody edited (`CacheInv`, `CallsInv`); with it, what a refreshed
hit returns is complete (`Completeness`); and it has no trip of another day but
those in `moved`. What a call keeps was on sale while it ran, and its
counts differ from the seats that were free only by the sales, releases and
lost holds between its two reads (`WatchInv`): `Soundness`.

**Breaker and pools** (also `ConnectionProofs`). The breaker, for every threshold and
number of calls, assuming a deadline shorter than the cooldown (5 s and 10 s by
default, `services/graphql-gateway/src/grpc/call.js`): every call in flight is younger
than its deadline, and ordinary calls in flight while the breaker is not closed
were sent before it opened; so they are all over when the cooldown is, and
nothing disturbs the trial: `OneTrial` and `DownServiceSpared`. The pools, for
any sizes and any set of calls: `ConnectionsAccounted` counts the free
connections and those of running calls, through errors, timeouts and deadlines that leave a
GetTripDetail running; it needs that a booking has asked for nothing before it
has the lock. The one assumption, `CallersDiffer`, is that a call is of one kind.
`AllPartsSound` puts the parts of `MCConnections` together.

**The web application** (`WebAppProofs`), for any tabs, holds, places, rows and
requests in flight, and any number of clicks. `WebInv` is an invariant for
each part, stated in its module:

| part | what its invariant adds to the types | why the property needs it |
|---|---|---|
| `CheckoutInv` | a live hold is in a cookie, was replaced there (`shadowed`), or its Hold handler is still to store it (`Anchored`); the handler that clears the checkout cookie works for a hold whose booking cookie is stored, or was replaced; a handler has its own hold (`JobSound`) | `WithinReach` alone survives neither the clearing, which trusts that the booking cookie is there, nor the end of a handler |
| | a payment page that is sure, and the handler it started, have the booking of the cookie (`SureSound`); an answer is for the page that asked (`ReadingSound`) | `BookingIsShown`, through the handler of Pay that reads the cookie's booking again |
| `SearchInv`, `SuggestInv` | the one request that is listened to asks for what the page was asked, or for the text in the field | an answer is shown without looking at its question |
| `CatalogInv` | at most one handler runs, on the list it was clicked with (`HandlerSound`); that list with its result is the table but for others' edits (`ListSound`); of a row not yet created nobody else knows (`BirthSound`) | the handlers set a list computed from the one at the click |
| `ReportInv` | an answer that is on its way is true but for what changed since it was served, and the booking of a check-in that succeeded is CHECKED_IN unless something became of it since (`late`) | queries and check-ins overtake each other, and a passenger checked in may be COMPLETED before the desk hears of it |
| `SessionInv` | while a session is to last, every question in flight carries a valid token, or none and comes from the login page | an answer may come long after its question |

`HoldsStayInReach`, `PaidBookingIsShown`, `PagesStayTrue` and `SessionsLast`
are read off `WebInv`. `EditsAreSafe` is an action property, which `WebInv` makes
true of every step of `CatalogPage`: a save changes neither the status of a trip
nor the number of seats of a vehicle with a layout, and nothing brings a deleted
row back. It does not say that a save takes nothing back (section 6). Assumed are only that `None` and the other
markers differ from proper values (`PartsTyped`), and that bounds are numbers.
`HandlerSound` is what the buttons disabled by `loading` are for: without it two
handlers would each put their result into the old list, and the first would be undone.

**Only model-checked.**

- Liveness: `SeatsComeBack`, `PendingIsTransient`, `WorkGetsDone`,
  `RecordsApplied`, `EventsHandled`, `PoolsCallsEnd`, `SpinnersStop`. Fairness and
  `ENABLED` are out of the prover's reach.

Every other property of the passing runs is the conclusion of a theorem, with the
hypotheses on faults named above.

## 6. What the code does differently from its documentation

Two runs expect a violation:

| run | what happens |
|---|---|
| `settlement_race` | A settlement fails after ConfirmSeats; it reads the booking, not settled; a retry settles it; the first request releases the seats of the now paid booking, and they are sold again. |
| `settlement_stranded` | The ConfirmSeats deadline passes, the handler commits later: seats stay BOOKED for a booking that expires, as `confirmedSeats` was never set. |

Both need a failure at an unlucky moment (a lost connection at COMMIT; a slow
Seat Inventory); `settlement` shows that without the first one no seat is sold
twice.

Writing the models showed more that the code does and a reader may not
expect. No run is about these; where a property had to except one, its
comment says so.

Services:

- A release reads the hold keys of a token and deletes them by name: a key that
  changed hands in between is deleted with the others
  (`services/seat-inventory-service/src/redis/holdStore.js:197`).
- When the answer of HoldSeats is lost, or the browser cannot store it, nobody has the
  token, and the seats are unavailable for the TTL.
- A cancellation compares the departure it read without the lifecycle lock
  (`services/booking-service/src/repository.js:440`); the trip may be moved
  within the cutoff before the cancellation commits.
- A settlement over midnight is credited to the day on which it ended and
  reversed on the day on which its transaction began (`repository.js:393`).
- The Email Worker sends inside its transaction
  (`workers/email-worker/src/processor.js:62`): dying before COMMIT sends
  twice. `OnceOnly` excepts that fault.
- `recordSuccess` (`services/graphql-gateway/src/grpc/call.js:42`) closes an
  open breaker when a call from before its opening succeeds late, without
  cooldown or trial.
- `search_to_paid_rate` is `numeric(5, 2)` (`database/schema.sql`): a route
  with ten paid bookings for one counted search has a rate of 1000.00, its
  record fails each time it is delivered and blocks its partition, until the
  record of a search, in its own partition, lowers the rate. `RecordsApplied`
  excepts a partition that stays blocked so, and a day of `analytics` begins
  one payment below that limit.
- A hit of the search cache reads status and free rows again and nothing else
  (`services/trip-service/src/service/searchCatalog.js:185`), and no edit
  invalidates an entry: for its TTL a rescheduled trip is listed under its old
  day, with its old hours and price. `AnswersSound` excepts such a trip.
- A link that closes while `ensureConnected` is finishing finds
  `connectingPromise` still set, and `scheduleReconnect` returns
  (`packages/shared/src/events.js:214`): the consumer stays disconnected until
  it is restarted. `KeepsOneLink` excepts that state.
- Bookings that hold a lifecycle lock and a connection wait for Trip Service,
  whose connections may all wait for that lock: nothing but deadlines resolves this.
- Broadcasts of resolvers and of the bridge overtake each other, and a
  websocket that reconnects does not read again what it missed.

Web application:

- Submitting the search form without changing the address sets the spinner and
  starts nothing (`apps/web/app/search/_SearchClient.jsx:121`). A filter by a
  vehicle type that the next results do not have cannot be taken back in the
  form.
- The checkout cookie is cleared without waiting for it, and by a name that
  tabs share: the context of another tab's seats may go with it.
- Queries of the bookings page overtake each other, and an older one may undo the
  check-in shown on it; the dialog that blocks seats shows the map of the trip
  before until its own arrives.
- The answer to a check-in sets CHECKED_IN in the list that is shown
  (`apps/web/app/admin/bookings/page.js:170`): when it comes after the answer to
  a query that found the booking COMPLETED already, the page shows the older of
  the two. `ReportTrue` excepts what changed while answers overtook each other.
- A save overwrites all the fields of its form, whoever changed them since it was
  opened: also the number of seats of a vehicle without a layout, which the
  form sends along (`apps/web/app/admin/vehicles/page.js:100`) and updateVehicle
  compares with a layout only
  (`services/trip-service/src/service/adminCatalog.js:286`).
- A STAFF user who logs out and is followed by an ADMIN in the same page session is
  treated as STAFF by the redirect; the console's layout logs out the customer's
  session of another tab; after a failure to verify the session, the pages
  render without a user.

## 7. Not modelled

- Names, addresses, fares, wording, layout, PDF and QR rendering, logging.
- Passenger profiles, listings, summaries and the event log of the services:
  they read, or write rows nothing else depends on. (The pages that show them
  are in `ReportPages`.)
- Popular routes and the list of locations: read from Analytics and from the
  routes, and only shown.
- The MCP server, the chatbot and the home page: they forward, and keep nothing.
- Passwords and tokens: a session is valid or not. What each role may call is
  a table in the code.
- The publisher's reconnection: it has no state but the connection, and a failed
  publication leaves its outbox row.
- In `Analytics`, the fallback label when the route lookup fails twice, and
  relabelled routes: credit and reversal may then go to different rows, as the
  comment above `getRouteLabelForTrip` says. `Books` excepts days on which a
  reversal overtook its payment, which the clamp at zero may lose.
- Time, beyond TTLs and deadlines that may pass at any moment: nothing is said of
  how long anything takes, except in the breaker and of the lease (section 5).

## 8. Plan

Every safety property that a run checks is proved. What is left to state and
prove are stronger specifications of what the services promise: an abstract
seat, sold and given back in one step, that `SeatInventory` implements with its
locks, scripts and expiring keys, and an abstract mailbox for the outbox, the queues
and the claims of `BookingWorkflow`.
