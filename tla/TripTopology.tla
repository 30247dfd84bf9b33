---------------------------- MODULE TripTopology -----------------------------
(***************************************************************************)
(* The administrator's catalog RPCs that change what a trip sells          *)
(* (trip-service/src/service/adminCatalog.js), against the customers that  *)
(* hold, book and confirm seats of that trip meanwhile.                    *)
(*                                                                         *)
(* Three services keep the pieces apart: Trip Service owns trips, vehicles *)
(* and the layout a trip's seat rows are copied from, Seat Inventory the   *)
(* rows and the Redis holds, Booking Service the bookings, and no foreign  *)
(* key joins them.  What keeps them consistent is a protocol of locks:     *)
(*   lifecycle   advisory lock 'trip-lifecycle' of a trip                  *)
(*   layoutLock  advisory lock 'vehicle-layout' of a vehicle               *)
(*   rowLock     the seat rows a transaction selected FOR UPDATE           *)
(*   lease       the Redis key seat-maintenance:{trip}, PX 120000          *)
(* A transaction that holds a lock is split where it takes the next one;   *)
(* its writes are visible from its COMMIT.                                 *)
(*                                                                         *)
(* Of a trip's status only whether it is ACTIVE is kept; OTHER is left and *)
(* entered the way DRAFT and LOCKED are.  Times, price and route are not   *)
(* kept: no check of this protocol reads them.                             *)
(***************************************************************************)
EXTENDS Naturals, FiniteSets

CONSTANTS
    Trip, Vehicle, Seat,
    Counts,    \* seat counts an administrator declares (bound)
    Admin,     \* slots for concurrently running admin RPCs
    Token,     \* hold tokens, each with the customer that drew it
    Orphan,    \* a lease whose owner will not release it
    None

ASSUME NamesDistinct ==
    /\ Admin \cap Token = {}
    /\ None \notin Admin \cup Token \cup Vehicle \cup {Orphan}
    /\ Orphan \notin Admin \cup Token

ASSUME SeatsFinite == IsFiniteSet(Seat)

ASSUME CountsPositive == Counts \subseteq Nat \ {0}

VARIABLES
    vehicles,     \* rows of vehicles
    seatCount,    \* vehicles.seat_count
    layout,       \* vehicle_seats of a vehicle
    tripStatus,   \* trips.status, NEW before the row and DELETED after it
    tripVehicle,  \* trips.vehicle_id
    row,          \* trip_seats.status, "none" where the trip has no such row
    lifecycle, layoutLock, rowLock, lease,
    admin,        \* the RPC running in each slot
    hold,         \* seats whose Redis hold key carries the token
    client        \* how far the customer with this token is

catalogVars == <<vehicles, seatCount, layout>>
tripVars == <<tripStatus, tripVehicle>>
lockVars == <<lifecycle, layoutLock, rowLock>>
vars == <<catalogVars, tripVars, row, lockVars, lease, admin, hold, client>>

Statuses == {"ACTIVE", "OTHER"}
RowStates == {"none", "AVAILABLE", "BOOKED", "BLOCKED"}

AdminSteps == {"idle", "configure", "create", "lease", "scan", "begin",
               "layout", "rows", "renew", "commit", "release"}
Ops == {"none", "configure", "create", "schedule", "vehicle", "delete"}

\* The request of a running RPC: what it does to which trip and vehicle.
Rpc == [op : Ops, step : AdminSteps, trip : Trip \cup {None},
        vehicle : Vehicle \cup {None}, seats : SUBSET Seat, status : Statuses]

NoRpc == [op |-> "none", step |-> "idle", trip |-> None, vehicle |-> None,
          seats |-> {}, status |-> "OTHER"]

ClientSteps == {"new", "create", "recheck", "reply", "granted", "validated",
                "booking", "booked", "confirm", "confirmed", "cancelled", "failed"}

TypeOK ==
    /\ vehicles \in SUBSET Vehicle
    /\ seatCount \in [Vehicle -> Nat]
    /\ layout \in [Vehicle -> SUBSET Seat]
    /\ tripStatus \in [Trip -> Statuses \cup {"NEW", "DELETED"}]
    /\ tripVehicle \in [Trip -> Vehicle \cup {None}]
    /\ row \in [Trip -> [Seat -> RowStates]]
    /\ lifecycle \in [Trip -> Admin \cup Token \cup {None}]
    /\ layoutLock \in [Vehicle -> Admin \cup {None}]
    /\ rowLock \in [Trip -> [Seat -> Admin \cup Token \cup {None}]]
    /\ lease \in [Trip -> Admin \cup {Orphan, None}]
    /\ admin \in [Admin -> Rpc]
    /\ hold \in [Token -> SUBSET Seat]
    /\ client \in [Token -> [step : ClientSteps, trip : Trip \cup {None},
                             seats : SUBSET Seat]]

Init ==
    /\ vehicles = {}
    /\ seatCount = [v \in Vehicle |-> 0]
    /\ layout = [v \in Vehicle |-> {}]
    /\ tripStatus = [t \in Trip |-> "NEW"]
    /\ tripVehicle = [t \in Trip |-> None]
    /\ row = [t \in Trip |-> [s \in Seat |-> "none"]]
    /\ lifecycle = [t \in Trip |-> None]
    /\ layoutLock = [v \in Vehicle |-> None]
    /\ rowLock = [t \in Trip |-> [s \in Seat |-> None]]
    /\ lease = [t \in Trip |-> None]
    /\ admin = [a \in Admin |-> NoRpc]
    /\ hold = [k \in Token |-> {}]
    /\ client = [k \in Token |-> [step |-> "new", trip |-> None, seats |-> {}]]

------------------------------------------------------------------------------
(* The rows, and who may touch them. *)

Exists(t) == tripStatus[t] \in Statuses

Rows(t) == {s \in Seat : row[t][s] # "none"}

\* The reads of Seat Inventory: every seat has a row, and it can be sold.
Sellable(t, S) == \A s \in S : row[t][s] = "AVAILABLE"

RowsFree(t, S) == \A s \in S : rowLock[t][s] = None

\* Bookings of Booking Service are never deleted.
Booked(k) == client[k].step \in {"booked", "confirm", "confirmed", "cancelled"}

Referenced(t) == \E k \in Token : Booked(k) /\ client[k].trip = t

\* trips.vehicle_id, the row an open transaction has already written included.
Assigned(v) ==
    \/ \E t \in Trip : tripVehicle[t] = v
    \/ \E a \in Admin : admin[a].step = "commit" /\ admin[a].vehicle = v

\* requireConfiguredVehicleLayout
Configured(v) ==
    v \in vehicles /\ layout[v] # {} /\ seatCount[v] = Cardinality(layout[v])

------------------------------------------------------------------------------
(* How an admin RPC moves and ends. *)

At(a, step) == admin[a].step = step

Goto(a, step) == admin' = [admin EXCEPT ![a].step = step]

Start(a, op, step, t, v, S, st) ==
    /\ At(a, "idle")
    /\ admin' = [admin EXCEPT ![a] =
          [op |-> op, step |-> step, trip |-> t, vehicle |-> v, seats |-> S, status |-> st]]

Without(f, p) == [x \in DOMAIN f |-> IF f[x] = p THEN None ELSE f[x]]

\* COMMIT, ROLLBACK or the end of the connection: every database lock of p goes.
UnlockAll(p) ==
    /\ lifecycle' = Without(lifecycle, p)
    /\ layoutLock' = Without(layoutLock, p)
    /\ rowLock' = [t \in Trip |-> Without(rowLock[t], p)]

\* After the transaction: the finally block of withTripSeatMaintenanceClient
\* for the calls that run inside it, the reply for the others.
End(a) ==
    IF admin[a].op \in {"vehicle", "delete"}
    THEN Goto(a, "release")
    ELSE admin' = [admin EXCEPT ![a] = NoRpc]

\* Mutant form: the connection goes back to the pool with the transaction open.
RollbackForgotten(a) == UNCHANGED lockVars /\ End(a)

Rollback(a) == UnlockAll(a) /\ End(a)

------------------------------------------------------------------------------
(* Vehicles *)

CreateVehicle(v, n) ==
    /\ v \notin vehicles /\ ~Assigned(v)
    /\ vehicles' = vehicles \cup {v}
    /\ seatCount' = [seatCount EXCEPT ![v] = n]
    /\ layout' = [layout EXCEPT ![v] = {}]
    /\ UNCHANGED <<tripVars, row, lockVars, lease, admin, hold, client>>

UpdateVehicle(v, n) ==
    /\ v \in vehicles
    /\ layoutLock[v] = None
    /\ layout[v] # {} => n = Cardinality(layout[v])
    /\ seatCount' = [seatCount EXCEPT ![v] = n]
    /\ UNCHANGED <<vehicles, layout, tripVars, row, lockVars, lease, admin, hold, client>>

\* trips.vehicle_id restricts, vehicle_seats.vehicle_id cascades.
DeleteVehicle(v) ==
    /\ v \in vehicles /\ ~Assigned(v)
    /\ vehicles' = vehicles \ {v}
    /\ layout' = [layout EXCEPT ![v] = {}]
    /\ seatCount' = [seatCount EXCEPT ![v] = 0]
    /\ UNCHANGED <<tripVars, row, lockVars, lease, admin, hold, client>>

\* Mutant form: the check without the advisory lock.
ConfigureBeginNoLock(a, v, S) ==
    /\ S # {} /\ v \in vehicles /\ ~Assigned(v)
    /\ Start(a, "configure", "configure", None, v, S, "OTHER")
    /\ UNCHANGED <<catalogVars, tripVars, row, lockVars, lease, hold, client>>

ConfigureBegin(a, v, S) ==
    /\ layoutLock[v] = None
    /\ S # {} /\ v \in vehicles /\ ~Assigned(v)
    /\ layoutLock' = [layoutLock EXCEPT ![v] = a]
    /\ Start(a, "configure", "configure", None, v, S, "OTHER")
    /\ UNCHANGED <<catalogVars, tripVars, row, lifecycle, rowLock, lease, hold, client>>

\* DELETE and INSERT of vehicle_seats and the UPDATE of seat_count; the inserts
\* break the foreign key when the vehicle is gone.
ConfigureCommit(a) ==
    /\ At(a, "configure")
    /\ LET v == admin[a].vehicle
           S == admin[a].seats
       IN  IF v \in vehicles
           THEN /\ layout' = [layout EXCEPT ![v] = S]
                /\ seatCount' = [seatCount EXCEPT ![v] = Cardinality(S)]
           ELSE UNCHANGED <<layout, seatCount>>
    /\ UnlockAll(a)
    /\ End(a)
    /\ UNCHANGED <<vehicles, tripVars, row, lease, hold, client>>

------------------------------------------------------------------------------
(* Trips *)

Snapshot(t, v) ==
    row' = [row EXCEPT ![t] = [s \in Seat |-> IF s \in layout[v] THEN "AVAILABLE" ELSE "none"]]

CreateTripBegin(a, t, v, st) ==
    /\ tripStatus[t] = "NEW"
    /\ \A b \in Admin : admin[b].op = "create" => admin[b].trip # t
    /\ st \in Statuses
    /\ layoutLock[v] = None
    /\ Configured(v)
    /\ layoutLock' = [layoutLock EXCEPT ![v] = a]
    /\ Start(a, "create", "create", t, v, {}, st)
    /\ UNCHANGED <<catalogVars, tripVars, row, lifecycle, rowLock, lease, hold, client>>

CreateTripCommit(a) ==
    /\ At(a, "create")
    /\ LET t == admin[a].trip
           v == admin[a].vehicle
       IN  IF v \in vehicles
           THEN /\ tripStatus' = [tripStatus EXCEPT ![t] = admin[a].status]
                /\ tripVehicle' = [tripVehicle EXCEPT ![t] = v]
                /\ Snapshot(t, v)
           ELSE UNCHANGED <<tripVars, row>>
    /\ UnlockAll(a)
    /\ End(a)
    /\ UNCHANGED <<catalogVars, lease, hold, client>>

\* fetchTripVehicleId decides, before any lock, whether a lease is needed.
UpdateTripStart(a, t, v) ==
    /\ Exists(t)
    /\ IF v # tripVehicle[t]
       THEN Start(a, "vehicle", "lease", t, v, {}, "OTHER")
       ELSE Start(a, "schedule", "begin", t, v, {}, "OTHER")
    /\ UNCHANGED <<catalogVars, tripVars, row, lockVars, lease, hold, client>>

DeleteTripStart(a, t) ==
    /\ tripStatus[t] # "NEW"
    /\ Start(a, "delete", "lease", t, None, {}, "OTHER")
    /\ UNCHANGED <<catalogVars, tripVars, row, lockVars, lease, hold, client>>

\* SET key NX PX.  When the answer is lost the key is there and nobody owns it.
AcquireLease(a) ==
    /\ At(a, "lease")
    /\ LET t == admin[a].trip
       IN  IF lease[t] = None
           THEN \/ /\ lease' = [lease EXCEPT ![t] = a]
                   /\ Goto(a, "scan")
                \/ /\ lease' = [lease EXCEPT ![t] = Orphan]
                   /\ admin' = [admin EXCEPT ![a] = NoRpc]
           ELSE admin' = [admin EXCEPT ![a] = NoRpc] /\ UNCHANGED lease
    /\ UNCHANGED <<catalogVars, tripVars, row, lockVars, hold, client>>

\* hasActiveTripHolds
ScanHolds(a) ==
    /\ At(a, "scan")
    /\ IF \E k \in Token : client[k].trip = admin[a].trip /\ hold[k] # {}
       THEN End(a)
       ELSE Goto(a, "begin")
    /\ UNCHANGED <<catalogVars, tripVars, row, lockVars, lease, hold, client>>

\* The row is read again under the lifecycle lock: a change of vehicle goes on,
\* if the call came prepared for one; a change of schedule is written here.
UpdateTripBegin(a) ==
    /\ At(a, "begin") /\ admin[a].op \in {"vehicle", "schedule"}
    /\ LET t == admin[a].trip
       IN  /\ lifecycle[t] = None
           /\ IF Exists(t) /\ tripVehicle[t] # admin[a].vehicle /\ admin[a].op = "vehicle"
              THEN lifecycle' = [lifecycle EXCEPT ![t] = a] /\ Goto(a, "layout")
              ELSE End(a) /\ UNCHANGED lifecycle
    /\ UNCHANGED <<catalogVars, tripVars, row, layoutLock, rowLock, lease, hold, client>>

LockLayout(a) ==
    /\ At(a, "layout")
    /\ LET v == admin[a].vehicle
       IN  /\ layoutLock[v] = None
           /\ IF Configured(v)
              THEN /\ layoutLock' = [layoutLock EXCEPT ![v] = a]
                   /\ Goto(a, "rows")
                   /\ UNCHANGED <<lifecycle, rowLock>>
              ELSE Rollback(a)
    /\ UNCHANGED <<catalogVars, tripVars, row, lease, hold, client>>

\* Mutant form: rows are locked, their statuses are not looked at.
LockRowsAnyStatus(a) ==
    /\ At(a, "rows") /\ admin[a].op = "vehicle"
    /\ LET t == admin[a].trip
       IN  /\ RowsFree(t, Rows(t))
           /\ rowLock' = [rowLock EXCEPT ![t] =
                            [s \in Seat |-> IF s \in Rows(t) THEN a ELSE @[s]]]
    /\ Goto(a, "renew")
    /\ UNCHANGED <<catalogVars, tripVars, row, lifecycle, layoutLock, lease, hold, client>>

\* SELECT ... FOR UPDATE waits for a confirmation in progress and sees its result.
LockRows(a) ==
    /\ At(a, "rows") /\ admin[a].op = "vehicle"
    /\ LET t == admin[a].trip
       IN  /\ RowsFree(t, Rows(t))
           /\ IF Sellable(t, Rows(t))
              THEN /\ rowLock' = [rowLock EXCEPT ![t] =
                                    [s \in Seat |-> IF s \in Rows(t) THEN a ELSE @[s]]]
                   /\ Goto(a, "renew")
                   /\ UNCHANGED <<lifecycle, layoutLock>>
              ELSE Rollback(a)
    /\ UNCHANGED <<catalogVars, tripVars, row, lease, hold, client>>

\* The reference check of deleteTrip, under the lock createBooking takes too.
DeleteTripBegin(a) ==
    /\ At(a, "begin") /\ admin[a].op = "delete"
    /\ LET t == admin[a].trip
       IN  /\ lifecycle[t] = None
           /\ IF Referenced(t)
              THEN End(a) /\ UNCHANGED lifecycle
              ELSE lifecycle' = [lifecycle EXCEPT ![t] = a] /\ Goto(a, "rows")
    /\ UNCHANGED <<catalogVars, tripVars, row, layoutLock, rowLock, lease, hold, client>>

\* DELETE of the seat rows waits for row locks like any other writer.
DeleteTripRows(a) ==
    /\ At(a, "rows") /\ admin[a].op = "delete"
    /\ LET t == admin[a].trip
       IN  /\ RowsFree(t, Rows(t))
           /\ rowLock' = [rowLock EXCEPT ![t] =
                            [s \in Seat |-> IF s \in Rows(t) THEN a ELSE @[s]]]
    /\ Goto(a, "renew")
    /\ UNCHANGED <<catalogVars, tripVars, row, lifecycle, layoutLock, lease, hold, client>>

\* Mutant form: the lease is taken for granted.
RenewLeaseUnchecked(a) ==
    /\ At(a, "renew")
    /\ IF admin[a].op = "vehicle" => admin[a].vehicle \in vehicles
       THEN Goto(a, "commit") /\ UNCHANGED lockVars
       ELSE Rollback(a)
    /\ UNCHANGED <<catalogVars, tripVars, row, lease, hold, client>>

\* The writes of the transaction, which break the foreign key when the vehicle
\* is gone, and refreshMaintenance, which fails unless the key carries our token.
RenewLease(a) ==
    /\ At(a, "renew")
    /\ IF /\ admin[a].op = "vehicle" => admin[a].vehicle \in vehicles
          /\ lease[admin[a].trip] = a
       THEN Goto(a, "commit") /\ UNCHANGED lockVars
       ELSE Rollback(a)
    /\ UNCHANGED <<catalogVars, tripVars, row, lease, hold, client>>

CommitVehicle(a) ==
    /\ At(a, "commit") /\ admin[a].op = "vehicle"
    /\ tripVehicle' = [tripVehicle EXCEPT ![admin[a].trip] = admin[a].vehicle]
    /\ Snapshot(admin[a].trip, admin[a].vehicle)
    /\ Rollback(a)
    /\ UNCHANGED <<catalogVars, tripStatus, lease, hold, client>>

CommitDelete(a) ==
    /\ At(a, "commit") /\ admin[a].op = "delete"
    /\ LET t == admin[a].trip
       IN  /\ tripStatus' = [tripStatus EXCEPT ![t] = "DELETED"]
           /\ tripVehicle' = [tripVehicle EXCEPT ![t] = None]
           /\ row' = [row EXCEPT ![t] = [s \in Seat |-> "none"]]
    /\ Rollback(a)
    /\ UNCHANGED <<catalogVars, lease, hold, client>>

\* DEL if the key still carries our token; when Redis fails the key stays.
ReleaseLease(a) ==
    /\ At(a, "release")
    /\ LET t == admin[a].trip
       IN  IF lease[t] = a
           THEN \E left \in {None, Orphan} : lease' = [lease EXCEPT ![t] = left]
           ELSE UNCHANGED lease
    /\ admin' = [admin EXCEPT ![a] = NoRpc]
    /\ UNCHANGED <<catalogVars, tripVars, row, lockVars, hold, client>>

\* A statement fails or times out, or Redis does.
Abort(a) ==
    /\ admin[a].step \in {"configure", "create", "scan", "begin", "layout", "rows", "renew"}
    /\ Rollback(a)
    /\ UNCHANGED <<catalogVars, tripVars, row, lease, hold, client>>

\* TRIP_STATUS_TRANSITIONS
Allowed == {<<"ACTIVE", "OTHER">>, <<"OTHER", "ACTIVE">>}

\* One transaction under the lifecycle lock; nothing it reads can change.
UpdateTripStatus(t, st) ==
    /\ lifecycle[t] = None
    /\ <<tripStatus[t], st>> \in Allowed
    /\ tripStatus' = [tripStatus EXCEPT ![t] = st]
    /\ UNCHANGED <<catalogVars, tripVehicle, row, lockVars, lease, admin, hold, client>>

\* Trip Service dies: PostgreSQL drops its locks, Redis keeps its leases.
Crash ==
    /\ \E a \in Admin : ~At(a, "idle")
    /\ admin' = [a \in Admin |-> NoRpc]
    /\ lifecycle' = [t \in Trip |-> IF lifecycle[t] \in Admin THEN None ELSE lifecycle[t]]
    /\ layoutLock' = [v \in Vehicle |-> None]
    /\ rowLock' = [t \in Trip |-> [s \in Seat |->
                      IF rowLock[t][s] \in Admin THEN None ELSE rowLock[t][s]]]
    /\ lease' = [t \in Trip |-> IF lease[t] \in Admin THEN Orphan ELSE lease[t]]
    /\ UNCHANGED <<catalogVars, tripVars, row, hold, client>>

\* The TTL of 120 s.  The one bet on time: the COMMIT that follows the renewal
\* is over before the renewed TTL is.
LeaseExpire(t) ==
    /\ lease[t] # None
    /\ lease[t] \in Admin => ~At(lease[t], "commit")
    /\ lease' = [lease EXCEPT ![t] = None]
    /\ UNCHANGED <<catalogVars, tripVars, row, lockVars, admin, hold, client>>

------------------------------------------------------------------------------
(* The customer: Seat Inventory and Booking Service. *)

Step(k, step) == client' = [client EXCEPT ![k].step = step]

In(k, step) == client[k].step = step

\* The checks of HoldSeats before the script.
HoldStart(k, t, S) ==
    /\ In(k, "new") /\ S # {}
    /\ tripStatus[t] = "ACTIVE"
    /\ Sellable(t, S)
    /\ client' = [client EXCEPT ![k] = [step |-> "create", trip |-> t, seats |-> S]]
    /\ UNCHANGED <<catalogVars, tripVars, row, lockVars, lease, admin, hold>>

\* holdSeatsScript
HoldCreate(k) ==
    /\ In(k, "create")
    /\ IF /\ lease[client[k].trip] = None
          /\ \A j \in Token : client[j].trip = client[k].trip =>
                hold[j] \cap client[k].seats = {}
       THEN hold' = [hold EXCEPT ![k] = client[k].seats] /\ Step(k, "recheck")
       ELSE Step(k, "failed") /\ UNCHANGED hold
    /\ UNCHANGED <<catalogVars, tripVars, row, lockVars, lease, admin>>

\* discardHold; when Redis fails the keys stay for their TTL.
Discard(k) ==
    /\ Step(k, "failed")
    /\ \E left \in {{}, hold[k]} : hold' = [hold EXCEPT ![k] = left]

HoldRecheck(k) ==
    /\ In(k, "recheck")
    /\ IF Sellable(client[k].trip, client[k].seats)
       THEN Step(k, "reply") /\ UNCHANGED hold
       ELSE Discard(k)
    /\ UNCHANGED <<catalogVars, tripVars, row, lockVars, lease, admin>>

HoldReply(k) ==
    /\ In(k, "reply")
    /\ IF tripStatus[client[k].trip] = "ACTIVE"
       THEN Step(k, "granted") /\ UNCHANGED hold
       ELSE Discard(k)
    /\ UNCHANGED <<catalogVars, tripVars, row, lockVars, lease, admin>>

HoldExpire(k) ==
    /\ hold[k] # {}
    /\ hold' = [hold EXCEPT ![k] = {}]
    /\ UNCHANGED <<catalogVars, tripVars, row, lockVars, lease, admin, client>>

\* ValidateHold, which the gateway calls before CreateBooking.
ValidateHold(k) ==
    /\ In(k, "granted")
    /\ hold[k] = client[k].seats
    /\ Sellable(client[k].trip, client[k].seats)
    /\ Step(k, "validated")
    /\ UNCHANGED <<catalogVars, tripVars, row, lockVars, lease, admin, hold>>

\* Mutant form: the trip is looked up outside the lifecycle lock.
BookingBeginNoLock(k) ==
    /\ In(k, "validated")
    /\ Step(k, IF tripStatus[client[k].trip] = "ACTIVE" THEN "booking" ELSE "granted")
    /\ UNCHANGED <<catalogVars, tripVars, row, lockVars, lease, admin, hold>>

\* createBooking: the lock, and only then the snapshot of the trip.
BookingBegin(k) ==
    /\ In(k, "validated")
    /\ LET t == client[k].trip
       IN  /\ lifecycle[t] = None
           /\ IF tripStatus[t] = "ACTIVE"
              THEN lifecycle' = [lifecycle EXCEPT ![t] = k] /\ Step(k, "booking")
              ELSE Step(k, "granted") /\ UNCHANGED lifecycle
    /\ UNCHANGED <<catalogVars, tripVars, row, layoutLock, rowLock, lease, admin, hold>>

BookingCommit(k) ==
    /\ In(k, "booking")
    /\ \E outcome \in {"booked", "granted"} : Step(k, outcome)
    /\ UnlockAll(k)
    /\ UNCHANGED <<catalogVars, tripVars, row, lease, admin, hold>>

\* confirmTripSeats: rows locked and checked, then the hold, then the UPDATE.
ConfirmBegin(k) ==
    /\ In(k, "booked")
    /\ LET t == client[k].trip
           S == client[k].seats
       IN  /\ RowsFree(t, S)
           /\ Sellable(t, S)
           /\ hold[k] = S
           /\ rowLock' = [rowLock EXCEPT ![t] = [s \in Seat |-> IF s \in S THEN k ELSE @[s]]]
    /\ Step(k, "confirm")
    /\ UNCHANGED <<catalogVars, tripVars, row, lifecycle, layoutLock, lease, admin, hold>>

\* COMMIT, then the hold is released, unless Redis fails; or ROLLBACK.
ConfirmEnd(k) ==
    /\ In(k, "confirm")
    /\ \/ /\ Step(k, "confirmed")
          /\ row' = [row EXCEPT ![client[k].trip] =
                       [s \in Seat |-> IF s \in client[k].seats THEN "BOOKED" ELSE @[s]]]
          /\ \E left \in {{}, hold[k]} : hold' = [hold EXCEPT ![k] = left]
       \/ Step(k, "booked") /\ UNCHANGED <<row, hold>>
    /\ UnlockAll(k)
    /\ UNCHANGED <<catalogVars, tripVars, lease, admin>>

\* The booking is cancelled: its seats are sold again.
ReleaseBookedSeats(k) ==
    /\ In(k, "confirmed")
    /\ RowsFree(client[k].trip, client[k].seats)
    /\ row' = [row EXCEPT ![client[k].trip] =
                 [s \in Seat |-> IF s \in client[k].seats THEN "AVAILABLE" ELSE @[s]]]
    /\ Step(k, "cancelled")
    /\ UNCHANGED <<catalogVars, tripVars, lockVars, lease, admin, hold>>

\* BlockSeats, and the removal of the hold keys of those seats, which may fail.
BlockSeats(t, S) ==
    /\ S # {} /\ RowsFree(t, S)
    /\ \A s \in S : row[t][s] \in {"AVAILABLE", "BLOCKED"}
    /\ row' = [row EXCEPT ![t] = [s \in Seat |-> IF s \in S THEN "BLOCKED" ELSE @[s]]]
    /\ \/ hold' = [k \in Token |-> IF client[k].trip = t THEN hold[k] \ S ELSE hold[k]]
       \/ UNCHANGED hold
    /\ UNCHANGED <<catalogVars, tripVars, lockVars, lease, admin, client>>

------------------------------------------------------------------------------
AdminStep(a) ==
    \/ ConfigureCommit(a) \/ CreateTripCommit(a)
    \/ AcquireLease(a) \/ ScanHolds(a)
    \/ UpdateTripBegin(a) \/ LockLayout(a) \/ LockRows(a)
    \/ DeleteTripBegin(a) \/ DeleteTripRows(a)
    \/ RenewLease(a) \/ CommitVehicle(a) \/ CommitDelete(a)
    \/ ReleaseLease(a)

AdminCall(a) ==
    \/ \E v \in Vehicle, S \in SUBSET Seat : ConfigureBegin(a, v, S)
    \/ \E t \in Trip, v \in Vehicle, st \in Statuses : CreateTripBegin(a, t, v, st)
    \/ \E t \in Trip, v \in Vehicle : UpdateTripStart(a, t, v)
    \/ \E t \in Trip : DeleteTripStart(a, t)

VehicleCall(v) ==
    \/ \E n \in Counts : CreateVehicle(v, n) \/ UpdateVehicle(v, n)
    \/ DeleteVehicle(v)

CustomerStep(k) ==
    \/ \E t \in Trip, S \in SUBSET Seat : HoldStart(k, t, S)
    \/ HoldCreate(k) \/ HoldRecheck(k) \/ HoldReply(k) \/ HoldExpire(k)
    \/ ValidateHold(k) \/ BookingBegin(k) \/ BookingCommit(k)
    \/ ConfirmBegin(k) \/ ConfirmEnd(k) \/ ReleaseBookedSeats(k)

TripCall(t) ==
    \/ \E st \in Statuses : UpdateTripStatus(t, st)
    \/ \E S \in SUBSET Seat : BlockSeats(t, S)
    \/ LeaseExpire(t)

Next ==
    \/ \E a \in Admin : AdminStep(a) \/ AdminCall(a) \/ Abort(a)
    \/ \E v \in Vehicle : VehicleCall(v)
    \/ \E k \in Token : CustomerStep(k)
    \/ \E t \in Trip : TripCall(t)
    \/ Crash

Spec == Init /\ [][Next]_vars

------------------------------------------------------------------------------
(* Properties *)

\* What a trip sells is what its vehicle has: the seat rows of a trip are the
\* layout of the vehicle it is assigned to, although rows, assignment and layout
\* are written by three RPCs in tables without a constraint between them.
RowsMatchLayout ==
    \A t \in Trip : Exists(t) => Rows(t) = layout[tripVehicle[t]]

\* The declared seat count of a vehicle with a layout is the layout's.
SeatCountDerived ==
    \A v \in vehicles : layout[v] # {} => seatCount[v] = Cardinality(layout[v])

\* So a seat map, a hold and a seat count speak of the same seats.
LayoutAgrees == TypeOK /\ RowsMatchLayout /\ SeatCountDerived

\* A booking keeps its trip, whichever transaction began first, and once it is
\* confirmed its seats: no replacement of the vehicle and no deletion takes a
\* confirmed row away.
BookingsStand ==
    \A k \in Token :
        /\ Booked(k) => Exists(client[k].trip)
        /\ In(k, "confirmed") =>
               \A s \in client[k].seats : row[client[k].trip][s] = "BOOKED"

\* While Redis keeps a hold the customer was granted, the seats it names are
\* rows of the trip: a change of vehicle or a deletion never slips under it.
GrantedHoldStands ==
    \A k \in Token :
        In(k, "granted") \/ In(k, "validated") =>
            hold[k] \subseteq Rows(client[k].trip)

\* A seat an administrator blocked is not put on sale by a change of vehicle.
BlockedSurvivesVehicleChange ==
    [][\A t \in Trip : tripVehicle'[t] # tripVehicle[t] /\ tripStatus'[t] # "DELETED" =>
          \A s \in Seat : row[t][s] \in {"none", "AVAILABLE"}]_vars

\* Nothing leaks.  A database lock belongs to a call inside its transaction, and
\* a lease to a call that has yet to release it, on every path: commit, rollback,
\* refusal, lost lease, crash.  What nobody will release is an Orphan, and its
\* TTL runs.  With lifecycle before layout before rows, no call waits for ever.
LocksOwned ==
    /\ \A t \in Trip :
        /\ lifecycle[t] \in Admin =>
              /\ admin[lifecycle[t]].trip = t
              /\ admin[lifecycle[t]].step \in {"layout", "rows", "renew", "commit"}
        /\ lifecycle[t] \in Token => In(lifecycle[t], "booking")
        /\ \A s \in Seat :
              /\ rowLock[t][s] \in Admin => lifecycle[t] = rowLock[t][s]
              /\ rowLock[t][s] \in Token => In(rowLock[t][s], "confirm")
        /\ lease[t] \in Admin =>
              /\ admin[lease[t]].trip = t
              /\ admin[lease[t]].op \in {"vehicle", "delete"}
              /\ admin[lease[t]].step \notin {"idle", "lease"}
    /\ \A v \in Vehicle : layoutLock[v] # None =>
        /\ admin[layoutLock[v]].vehicle = v
        /\ admin[layoutLock[v]].step \in {"configure", "create", "rows", "renew", "commit"}
==============================================================================
