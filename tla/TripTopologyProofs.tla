------------------------ MODULE TripTopologyProofs ------------------------
(***************************************************************************)
(* For any trips, vehicles, seats, administrators and customers: no lock   *)
(* leaks, the seat rows of a trip are the layout of its vehicle, bookings  *)
(* keep their trips and seats, and holds fit the rows that are there.      *)
(*                                                                         *)
(* None of these is inductive: the RPCs check under one lock what they     *)
(* write under another.  RpcSound says what a running RPC may rely on, and *)
(* which lock or lease it owes that to.                                    *)
(***************************************************************************)
EXTENDS TripTopology, FiniteSetTheorems, TLAPS

USE NamesDistinct

\* The steps in which the lifecycle lock, and in which the rows, are held
InTransaction == {"layout", "rows", "renew", "commit"}
RowsInHand == {"renew", "commit"}

\* A running RPC has what its operation needs,
RequestFits(r) ==
    /\ r.step = "idle" <=> r.op = "none"
    /\ r.step = "configure" <=> r.op = "configure"
    /\ r.step = "create" <=> r.op = "create"
    /\ r.op = "schedule" => r.step = "begin"
    /\ r.step = "layout" => r.op = "vehicle"
    /\ r.op \in {"create", "schedule", "vehicle", "delete"} => r.trip \in Trip
    /\ r.op \in {"create", "configure", "vehicle"} => r.vehicle \in Vehicle

\* the locks its step is to have,
LocksHeld(a) ==
    LET r == admin[a] IN
    /\ r.step \in InTransaction => lifecycle[r.trip] = a
    /\ r.step \in {"configure", "create"} => layoutLock[r.vehicle] = a
    /\ r.op = "vehicle" /\ r.step \in {"rows", "renew", "commit"} => layoutLock[r.vehicle] = a
    /\ r.step \in RowsInHand => \A s \in Rows(r.trip) : rowLock[r.trip][s] = a
    /\ r.step = "commit" => lease[r.trip] = a

\* and finds as it was what these locks protect: the vehicle it configures has no
\* trip, the trip it edits its row, the rows it replaces no buyer, the trip it
\* deletes no booking, and under a lease that is still there nobody has a hold.
Protected(a) ==
    LET r == admin[a] IN
    /\ r.op = "configure" => \A t \in Trip : tripVehicle[t] # r.vehicle
    /\ r.op = "create" => tripStatus[r.trip] = "NEW"
    /\ r.op = "delete" => tripStatus[r.trip] # "NEW"
    /\ r.op = "vehicle" /\ r.step \in InTransaction => Exists(r.trip)
    /\ r.op = "vehicle" /\ r.step \in RowsInHand => Sellable(r.trip, Rows(r.trip))
    /\ r.op = "delete" /\ r.step \in InTransaction => ~Referenced(r.trip)
    /\ r.step \in {"begin"} \cup InTransaction /\ r.trip \in Trip /\ lease[r.trip] = a =>
           \A k \in Token : client[k].trip = r.trip => hold[k] = {}

RpcSound(a) == RequestFits(admin[a]) /\ LocksHeld(a) /\ Protected(a)

TripSound(t) ==
    IF Exists(t)
    THEN tripVehicle[t] \in Vehicle /\ Rows(t) = layout[tripVehicle[t]]
    ELSE tripVehicle[t] = None /\ Rows(t) = {}

\* Where a customer is, the trip and the rows are, and the hold fits.
ClientSound(k) ==
    LET c == client[k] IN
    /\ c.step = "new" => hold[k] = {} /\ c.trip = None
    /\ c.step # "new" => c.trip \in Trip /\ tripStatus[c.trip] # "NEW"
    /\ hold[k] \subseteq c.seats
    /\ c.step \in {"reply", "granted", "validated", "booking"} => hold[k] \subseteq Rows(c.trip)
    /\ c.step = "booking" => lifecycle[c.trip] = k /\ Exists(c.trip)
    /\ Booked(k) => Exists(c.trip)
    /\ c.step = "confirm" => \A s \in c.seats :
           rowLock[c.trip][s] = k /\ row[c.trip][s] = "AVAILABLE"
    /\ c.step = "confirmed" => \A s \in c.seats : row[c.trip][s] = "BOOKED"

\* No two RPCs create the same trip, and no two customers confirmed the same seat.
Apart ==
    /\ \A a, b \in Admin :
        admin[a].op = "create" /\ admin[b].op = "create" /\ admin[a].trip = admin[b].trip
        => a = b
    /\ \A j, k \in Token :
        j # k /\ In(j, "confirmed") /\ In(k, "confirmed") /\ client[j].trip = client[k].trip
        => client[j].seats \cap client[k].seats = {}

IInv ==
    /\ TypeOK /\ LocksOwned /\ SeatCountDerived /\ Apart
    /\ \A a \in Admin : RpcSound(a)
    /\ \A t \in Trip : TripSound(t)
    /\ \A k \in Token : ClientSound(k)

LEMMA InitInv == Init => IInv
<1> SUFFICES ASSUME Init PROVE IInv
    OBVIOUS
<1> USE DEF Init, NoRpc
<1>1. TypeOK
    BY DEF TypeOK, Rpc, Ops, AdminSteps, Statuses, RowStates, ClientSteps
<1>2. LocksOwned /\ SeatCountDerived /\ Apart
    BY DEF LocksOwned, SeatCountDerived, Apart, In
<1>3. \A a \in Admin : RpcSound(a)
    BY DEF RpcSound, RequestFits, LocksHeld, Protected, InTransaction, RowsInHand
<1>4. \A t \in Trip : TripSound(t)
    BY DEF TripSound, Exists, Statuses, Rows
<1>5. \A k \in Token : ClientSound(k)
    BY DEF ClientSound, Booked
<1> QED BY <1>1, <1>2, <1>3, <1>4, <1>5 DEF IInv

LEMMA InvImplies ==
    IInv => TypeOK /\ LayoutAgrees /\ BookingsStand /\ GrantedHoldStands /\ LocksOwned
<1> SUFFICES ASSUME IInv PROVE LayoutAgrees /\ BookingsStand /\ GrantedHoldStands
    BY DEF IInv
<1>1. LayoutAgrees
    BY DEF IInv, LayoutAgrees, RowsMatchLayout, TripSound
<1>2. BookingsStand
    BY DEF IInv, BookingsStand, ClientSound, In
<1>3. GrantedHoldStands
    BY DEF IInv, GrantedHoldStands, ClientSound, In
<1> QED BY <1>1, <1>2, <1>3

------------------------------------------------------------------------------
(* Steps of administrators that leave the tables and the holds alone *)

StoresStay == UNCHANGED <<catalogVars, tripVars, row, hold, client>>

OthersStay(a) == \A b \in Admin \ {a} : admin'[b] = admin[b]

\* A step of a takes no lock from another, and puts its own where none was.
LocksKept(a) ==
    /\ \A t \in Trip : lifecycle'[t] # lifecycle[t] =>
           lifecycle[t] \in {a, None} /\ lifecycle'[t] \in {a, None}
    /\ \A v \in Vehicle : layoutLock'[v] # layoutLock[v] =>
           layoutLock[v] \in {a, None} /\ layoutLock'[v] \in {a, None}
    /\ \A t \in Trip, s \in Seat : rowLock'[t][s] # rowLock[t][s] =>
           rowLock[t][s] \in {a, None} /\ rowLock'[t][s] \in {a, None}
    /\ \A t \in Trip : lease'[t] # lease[t] =>
           lease[t] \in {a, None} /\ lease'[t] \in {a, None, Orphan}

LEMMA StoresStayKeep ==
    ASSUME IInv, StoresStay, NEW a \in Admin, LocksKept(a)
    PROVE  /\ SeatCountDerived'
           /\ \A t \in Trip : TripSound(t)'
           /\ \A k \in Token : ClientSound(k)'
<1> USE DEF StoresStay, catalogVars, tripVars
<1>1. SeatCountDerived' /\ \A t \in Trip : TripSound(t)'
    BY DEF IInv, SeatCountDerived, TripSound, Exists, Rows
<1>2. ASSUME NEW k \in Token
      PROVE  ClientSound(k)'
    <2>1. \A t \in Trip : lifecycle[t] = k => lifecycle'[t] = k
        BY DEF LocksKept
    <2>2. \A t \in Trip, s \in Seat : rowLock[t][s] = k => rowLock'[t][s] = k
        BY DEF LocksKept
    <2>3. ClientSound(k) /\ client[k].seats \subseteq Seat
        BY DEF IInv, TypeOK
    <2> QED BY <2>1, <2>2, <2>3 DEF ClientSound, Booked, Exists, Rows
<1> QED BY <1>1, <1>2

LEMMA OperationInTransaction ==
    ASSUME IInv, NEW b \in Admin, admin[b].step \in {"rows", "renew", "commit"}
    PROVE  admin[b].op \in {"vehicle", "delete"}
BY DEF IInv, TypeOK, Rpc, Ops, RpcSound, RequestFits

LEMMA OthersSound ==
    ASSUME IInv, StoresStay, NEW a \in Admin, LocksKept(a),
           NEW b \in Admin \ {a}, admin'[b] = admin[b]
    PROVE  RpcSound(b)'
<1> USE DEF StoresStay, catalogVars, tripVars
<1>0. RpcSound(b)
    BY DEF IInv
<1>1. RequestFits(admin[b])'
    BY <1>0 DEF RpcSound, RequestFits
<1>2. LocksHeld(b)'
    <2>1. /\ \A t \in Trip : lifecycle[t] = b => lifecycle'[t] = b
          /\ \A v \in Vehicle : layoutLock[v] = b => layoutLock'[v] = b
          /\ \A t \in Trip, s \in Seat : rowLock[t][s] = b => rowLock'[t][s] = b
          /\ \A t \in Trip : lease[t] = b => lease'[t] = b
        BY DEF LocksKept
    <2>2. /\ admin[b].step \in InTransaction => admin[b].trip \in Trip
          /\ admin[b].step \in {"configure", "create"} => admin[b].vehicle \in Vehicle
        BY <1>0, OperationInTransaction DEF RpcSound, RequestFits, InTransaction
    <2>3. Rows(admin[b].trip) \subseteq Seat
        BY DEF Rows
    <2>4. LocksHeld(b) /\ RequestFits(admin[b])
        BY <1>0 DEF RpcSound
    <2> QED BY <2>1, <2>2, <2>3, <2>4 DEF LocksHeld, RequestFits, Rows, InTransaction, RowsInHand
<1>3. Protected(b)'
    BY <1>0 DEF RpcSound, RequestFits, Protected, LocksKept, Rows, Exists, Sellable, Referenced, Booked
<1> QED BY <1>1, <1>2, <1>3 DEF RpcSound

\* The locks a has are those its step is to have: LocksOwned for one RPC.
Justified(a) ==
    LET r == admin[a] IN
    /\ \A t \in Trip : lifecycle[t] = a => r.trip = t /\ r.step \in InTransaction
    /\ \A t \in Trip, s \in Seat : rowLock[t][s] = a => lifecycle[t] = a
    /\ \A t \in Trip : lease[t] = a =>
           r.trip = t /\ r.op \in {"vehicle", "delete"} /\ r.step \notin {"idle", "lease"}
    /\ \A v \in Vehicle : layoutLock[v] = a =>
           r.vehicle = v /\ r.step \in {"configure", "create", "rows", "renew", "commit"}

\* No other RPC creates the trip that a creates.
CreatesAlone(a) ==
    admin[a].op = "create" => \A b \in Admin \ {a} :
        admin[b].op = "create" => admin[b].trip # admin[a].trip

LEMMA JustifiedNow == ASSUME IInv, NEW a \in Admin PROVE Justified(a)
BY DEF IInv, TypeOK, LocksOwned, Justified, InTransaction

LEMMA OwnedStill ==
    ASSUME IInv, NEW a \in Admin, LocksKept(a), OthersStay(a), Justified(a)', TypeOK',
           client' = client
    PROVE  LocksOwned'
<1>1. ASSUME NEW t \in Trip, lifecycle'[t] \in Admin
      PROVE  /\ admin'[lifecycle'[t]].trip = t
             /\ admin'[lifecycle'[t]].step \in InTransaction
    BY <1>1 DEF IInv, LocksOwned, Justified, LocksKept, OthersStay, InTransaction
<1>2. ASSUME NEW t \in Trip, lifecycle'[t] \in Token
      PROVE  client'[lifecycle'[t]].step = "booking"
    <2>1. lifecycle'[t] = lifecycle[t]
        BY <1>2 DEF LocksKept
    <2> QED BY <1>2, <2>1 DEF IInv, LocksOwned, In
<1>3. ASSUME NEW t \in Trip, NEW s \in Seat, rowLock'[t][s] \in Admin
      PROVE  lifecycle'[t] = rowLock'[t][s]
    BY <1>3 DEF IInv, LocksOwned, Justified, LocksKept
<1>4. ASSUME NEW t \in Trip, NEW s \in Seat, rowLock'[t][s] \in Token
      PROVE  client'[rowLock'[t][s]].step = "confirm"
    <2>1. rowLock'[t][s] = rowLock[t][s]
        BY <1>4 DEF LocksKept
    <2> QED BY <1>4, <2>1 DEF IInv, LocksOwned, In
<1>5. ASSUME NEW t \in Trip, lease'[t] \in Admin
      PROVE  /\ admin'[lease'[t]].trip = t
             /\ admin'[lease'[t]].op \in {"vehicle", "delete"}
             /\ admin'[lease'[t]].step \notin {"idle", "lease"}
    BY <1>5 DEF IInv, LocksOwned, Justified, LocksKept, OthersStay
<1>6. ASSUME NEW v \in Vehicle, layoutLock'[v] # None
      PROVE  /\ admin'[layoutLock'[v]].vehicle = v
             /\ admin'[layoutLock'[v]].step \in {"configure", "create", "rows", "renew", "commit"}
    <2>1. layoutLock'[v] \in Admin
        BY <1>6 DEF TypeOK
    <2>2. CASE layoutLock'[v] = a
        BY <2>2 DEF Justified
    <2>3. CASE layoutLock'[v] # a
        <3>1. layoutLock'[v] = layoutLock[v]
            BY <1>6, <2>3 DEF LocksKept
        <3> QED BY <1>6, <2>1, <2>3, <3>1 DEF IInv, LocksOwned, OthersStay
    <2> QED BY <2>2, <2>3
<1> QED BY <1>1, <1>2, <1>3, <1>4, <1>5, <1>6 DEF LocksOwned, InTransaction, In

LEMMA ApartStill ==
    ASSUME IInv, NEW a \in Admin, OthersStay(a), CreatesAlone(a)', client' = client
    PROVE  Apart'
BY DEF IInv, Apart, OthersStay, CreatesAlone, In

\* What is left to show of such a step: the types, and that a is sound after it.
LEMMA RpcStepKeeps ==
    ASSUME IInv, StoresStay, NEW a \in Admin, LocksKept(a), OthersStay(a), TypeOK',
           RpcSound(a)', Justified(a)', CreatesAlone(a)'
    PROVE  IInv'
<1>1. client' = client
    BY DEF StoresStay
<1>2. LocksOwned' /\ Apart'
    BY <1>1, OwnedStill, ApartStill
<1>3. \A b \in Admin : RpcSound(b)'
    BY OthersSound DEF OthersStay
<1> QED BY <1>2, <1>3, StoresStayKeep DEF IInv

------------------------------------------------------------------------------
(* How a step moves its call and the locks *)

LEMMA GotoShape ==
    ASSUME TypeOK, NEW a \in Admin, NEW step \in AdminSteps, Goto(a, step)
    PROVE  /\ admin' \in [Admin -> Rpc]
           /\ OthersStay(a)
           /\ admin'[a].step = step
           /\ admin'[a].op = admin[a].op
           /\ admin'[a].trip = admin[a].trip
           /\ admin'[a].vehicle = admin[a].vehicle
<1> DEFINE r == [admin[a] EXCEPT !.step = step]
<1>1. r \in Rpc /\ r.step = step
    <2>1. admin[a] \in Rpc
        BY DEF TypeOK
    <2> QED BY <2>1 DEF Rpc
<1>2. r.op = admin[a].op /\ r.trip = admin[a].trip /\ r.vehicle = admin[a].vehicle
    BY DEF TypeOK, Rpc
<1>3. admin' = [admin EXCEPT ![a] = r]
    BY DEF Goto
<1> HIDE DEF r
<1> QED BY <1>1, <1>2, <1>3 DEF TypeOK, OthersStay

LEMMA NoRpcType == NoRpc \in Rpc
BY DEF NoRpc, Rpc, Ops, AdminSteps, Statuses

LEMMA ResetShape ==
    ASSUME TypeOK, NEW a \in Admin, admin' = [admin EXCEPT ![a] = NoRpc]
    PROVE  /\ admin' \in [Admin -> Rpc]
           /\ OthersStay(a)
           /\ admin'[a] = NoRpc
BY NoRpcType DEF TypeOK, OthersStay

LEMMA EndShape ==
    ASSUME TypeOK, NEW a \in Admin, End(a)
    PROVE  /\ admin' \in [Admin -> Rpc]
           /\ OthersStay(a)
           /\ \/ admin'[a] = NoRpc /\ admin[a].op \notin {"vehicle", "delete"}
              \/ /\ admin'[a].step = "release"
                 /\ admin'[a].op = admin[a].op
                 /\ admin'[a].op \in {"vehicle", "delete"}
                 /\ admin'[a].trip = admin[a].trip
                 /\ admin'[a].vehicle = admin[a].vehicle
<1>1. CASE admin[a].op \in {"vehicle", "delete"}
    <2>1. Goto(a, "release") /\ "release" \in AdminSteps
        BY <1>1 DEF End, AdminSteps
    <2> QED BY <1>1, <2>1, GotoShape
<1>2. CASE admin[a].op \notin {"vehicle", "delete"}
    <2>1. admin' = [admin EXCEPT ![a] = NoRpc]
        BY <1>2 DEF End
    <2> QED BY <1>2, <2>1, ResetShape
<1> QED BY <1>1, <1>2

LEMMA UnlockShape ==
    ASSUME TypeOK, NEW p \in Admin \cup Token, UnlockAll(p)
    PROVE  /\ lifecycle' \in [Trip -> Admin \cup Token \cup {None}]
           /\ layoutLock' \in [Vehicle -> Admin \cup {None}]
           /\ rowLock' \in [Trip -> [Seat -> Admin \cup Token \cup {None}]]
           /\ \A t \in Trip :
                  lifecycle'[t] = IF lifecycle[t] = p THEN None ELSE lifecycle[t]
           /\ \A v \in Vehicle :
                  layoutLock'[v] = IF layoutLock[v] = p THEN None ELSE layoutLock[v]
           /\ \A t \in Trip, s \in Seat :
                  rowLock'[t][s] = IF rowLock[t][s] = p THEN None ELSE rowLock[t][s]
BY DEF TypeOK, UnlockAll, Without

\* After the end of its transaction a call has no lock, but perhaps its lease.
Unlocked(a) ==
    /\ \A t \in Trip : lifecycle'[t] # a
    /\ \A v \in Vehicle : layoutLock'[v] # a
    /\ \A t \in Trip, s \in Seat : rowLock'[t][s] # a

LEMMA UnlockAllUnlocks == ASSUME TypeOK, NEW a \in Admin, UnlockAll(a) PROVE Unlocked(a)
BY UnlockShape DEF Unlocked

\* A call that ends, in whatever way, with the lease where it was.
LEMMA EndKeeps ==
    ASSUME IInv, StoresStay, NEW a \in Admin, End(a), UNCHANGED lease, LocksKept(a),
           Unlocked(a), TypeOK'
    PROVE  IInv'
<1>1. RpcSound(a) /\ Justified(a)
    BY JustifiedNow DEF IInv
<1>2. TypeOK /\ OthersStay(a)
    BY EndShape DEF IInv
<1>3. CASE admin'[a] = NoRpc /\ admin[a].op \notin {"vehicle", "delete"}
    <2>1. RpcSound(a)'
        BY <1>3 DEF RpcSound, RequestFits, LocksHeld, Protected, NoRpc, InTransaction, RowsInHand
    <2>2. Justified(a)' /\ CreatesAlone(a)'
        BY <1>1, <1>3 DEF Justified, CreatesAlone, NoRpc, Unlocked
    <2> QED BY <1>2, <2>1, <2>2, RpcStepKeeps
<1>4. CASE /\ admin'[a].step = "release"
           /\ admin'[a].op = admin[a].op
           /\ admin'[a].op \in {"vehicle", "delete"}
           /\ admin'[a].trip = admin[a].trip
           /\ admin'[a].vehicle = admin[a].vehicle
    <2>1. RpcSound(a)'
        BY <1>1, <1>4 DEF RpcSound, RequestFits, LocksHeld, Protected, InTransaction,
                          RowsInHand, StoresStay, tripVars
    <2>2. Justified(a)' /\ CreatesAlone(a)'
        BY <1>1, <1>4 DEF Justified, CreatesAlone, Unlocked
    <2> QED BY <1>2, <2>1, <2>2, RpcStepKeeps
<1> QED BY <1>2, <1>3, <1>4, EndShape

LEMMA RollbackKeeps ==
    ASSUME IInv, StoresStay, NEW a \in Admin, Rollback(a), UNCHANGED lease
    PROVE  IInv'
<1>1. End(a) /\ UnlockAll(a) /\ TypeOK
    BY DEF Rollback, IInv
<1>2. TypeOK'
    BY <1>1, EndShape, UnlockShape DEF TypeOK, StoresStay, catalogVars, tripVars
<1>3. LocksKept(a) /\ Unlocked(a)
    BY <1>1, UnlockShape, UnlockAllUnlocks DEF LocksKept
<1> QED BY <1>1, <1>2, <1>3, EndKeeps

\* Before its transaction a call has no locks to give back.
LEMMA RefusalKeeps ==
    ASSUME IInv, StoresStay, NEW a \in Admin, End(a), UNCHANGED <<lockVars, lease>>,
           admin[a].step \in {"scan", "begin"}
    PROVE  IInv'
<1>1. TypeOK'
    BY EndShape DEF IInv, TypeOK, StoresStay, catalogVars, tripVars, lockVars
<1>2. LocksKept(a) /\ Unlocked(a)
    BY JustifiedNow DEF LocksKept, Unlocked, Justified, InTransaction, lockVars
<1> QED BY <1>1, <1>2, EndKeeps

LEMMA OperationOf ==
    ASSUME IInv, NEW a \in Admin
    PROVE  /\ admin[a].step \in {"lease", "scan", "rows", "renew", "commit", "release"} =>
                  admin[a].op \in {"vehicle", "delete"} /\ admin[a].trip \in Trip
           /\ admin[a].step = "begin" =>
                  admin[a].op \in {"schedule", "vehicle", "delete"} /\ admin[a].trip \in Trip
           /\ admin[a].step = "layout" => admin[a].op = "vehicle" /\ admin[a].trip \in Trip
           /\ admin[a].op = "vehicle" => admin[a].vehicle \in Vehicle
BY DEF IInv, TypeOK, Rpc, Ops, RpcSound, RequestFits

\* A call that goes on
LEMMA GotoKeeps ==
    ASSUME IInv, StoresStay, NEW a \in Admin, NEW step \in AdminSteps, Goto(a, step),
           LocksKept(a), TypeOK', RpcSound(a)', Justified(a)'
    PROVE  IInv'
<1>1. OthersStay(a) /\ admin'[a].op = admin[a].op /\ admin'[a].trip = admin[a].trip
    BY GotoShape DEF IInv
<1>2. CreatesAlone(a)'
    BY <1>1 DEF CreatesAlone, OthersStay, IInv, Apart
<1> QED BY <1>1, <1>2, RpcStepKeeps

LEMMA AcquireLeaseKeeps == ASSUME IInv, NEW a \in Admin, AcquireLease(a) PROVE IInv'
<1> DEFINE t == admin[a].trip
<1>1. StoresStay /\ UNCHANGED lockVars /\ admin[a].step = "lease" /\ t \in Trip
    BY OperationOf DEF AcquireLease, StoresStay, At
<1>2. RpcSound(a) /\ Justified(a) /\ TypeOK
    BY JustifiedNow DEF IInv
<1>3. CASE lease[t] = None /\ lease' = [lease EXCEPT ![t] = a] /\ Goto(a, "scan")
    <2>1. "scan" \in AdminSteps
        BY DEF AdminSteps
    <2>2. TypeOK'
        BY <1>1, <1>2, <1>3, <2>1, GotoShape DEF TypeOK, StoresStay, catalogVars, tripVars, lockVars
    <2>3. LocksKept(a)
        BY <1>1, <1>2, <1>3 DEF LocksKept, lockVars, TypeOK
    <2>4. RpcSound(a)'
        BY <1>1, <1>2, <1>3, <2>1, GotoShape, OperationOf
           DEF RpcSound, RequestFits, LocksHeld, Protected, InTransaction, RowsInHand,
               StoresStay, tripVars
    <2>5. Justified(a)'
        BY <1>1, <1>2, <1>3, <2>1, GotoShape, OperationOf
           DEF Justified, InTransaction, lockVars, TypeOK
    <2> QED BY <1>1, <1>3, <2>1, <2>2, <2>3, <2>4, <2>5, GotoKeeps
<1>4. ASSUME admin' = [admin EXCEPT ![a] = NoRpc],
             \/ lease[t] = None /\ lease' = [lease EXCEPT ![t] = Orphan]
             \/ UNCHANGED lease
      PROVE  IInv'
    <2>1. TypeOK' /\ OthersStay(a) /\ admin'[a] = NoRpc
        BY <1>1, <1>2, <1>4, ResetShape
           DEF TypeOK, StoresStay, catalogVars, tripVars, lockVars
    <2>2. LocksKept(a)
        BY <1>1, <1>2, <1>4 DEF LocksKept, lockVars, TypeOK
    <2>3. RpcSound(a)'
        BY <2>1 DEF RpcSound, RequestFits, LocksHeld, Protected, InTransaction, RowsInHand, NoRpc
    <2>4. Justified(a)' /\ CreatesAlone(a)'
        BY <1>1, <1>2, <1>4, <2>1 DEF Justified, CreatesAlone, NoRpc, InTransaction, lockVars, TypeOK
    <2> QED BY <1>1, <2>1, <2>2, <2>3, <2>4, RpcStepKeeps
<1> QED BY <1>3, <1>4 DEF AcquireLease

LEMMA ScanHoldsKeeps == ASSUME IInv, NEW a \in Admin, ScanHolds(a) PROVE IInv'
<1>1. /\ StoresStay /\ UNCHANGED <<lockVars, lease>>
      /\ admin[a].step = "scan" /\ admin[a].trip \in Trip
    BY OperationOf DEF ScanHolds, StoresStay, At
<1>2. RpcSound(a) /\ Justified(a) /\ TypeOK
    BY JustifiedNow DEF IInv
<1>3. CASE End(a)
    BY <1>1, <1>3, RefusalKeeps
<1>4. CASE /\ \A k \in Token : client[k].trip = admin[a].trip => hold[k] = {}
           /\ Goto(a, "begin")
    <2>1. "begin" \in AdminSteps
        BY DEF AdminSteps
    <2>2. TypeOK' /\ LocksKept(a)
        BY <1>1, <1>2, <1>4, <2>1, GotoShape
           DEF TypeOK, LocksKept, StoresStay, catalogVars, tripVars, lockVars
    <2>3. RpcSound(a)'
        BY <1>1, <1>2, <1>4, <2>1, GotoShape, OperationOf
           DEF RpcSound, RequestFits, LocksHeld, Protected, InTransaction, RowsInHand,
               StoresStay, tripVars
    <2>4. Justified(a)'
        BY <1>1, <1>2, <1>4, <2>1, GotoShape, OperationOf
           DEF Justified, InTransaction, lockVars
    <2> QED BY <1>1, <1>4, <2>1, <2>2, <2>3, <2>4, GotoKeeps
<1> QED BY <1>3, <1>4 DEF ScanHolds

LEMMA UpdateTripBeginKeeps == ASSUME IInv, NEW a \in Admin, UpdateTripBegin(a) PROVE IInv'
<1> DEFINE t == admin[a].trip
<1>1. /\ StoresStay /\ UNCHANGED <<layoutLock, rowLock, lease>>
      /\ admin[a].step = "begin" /\ t \in Trip /\ lifecycle[t] = None
    BY OperationOf DEF UpdateTripBegin, StoresStay, At
<1>2. RpcSound(a) /\ Justified(a) /\ TypeOK
    BY JustifiedNow DEF IInv
<1>3. CASE End(a) /\ UNCHANGED lifecycle
    BY <1>1, <1>3, RefusalKeeps DEF lockVars
<1>4. CASE /\ Exists(t) /\ admin[a].op = "vehicle"
           /\ lifecycle' = [lifecycle EXCEPT ![t] = a] /\ Goto(a, "layout")
    <2>1. "layout" \in AdminSteps
        BY DEF AdminSteps
    <2>2. TypeOK'
        BY <1>1, <1>2, <1>4, <2>1, GotoShape DEF TypeOK, StoresStay, catalogVars, tripVars
    <2>3. LocksKept(a)
        BY <1>1, <1>2, <1>4 DEF LocksKept, TypeOK
    <2>4. RpcSound(a)'
        BY <1>1, <1>2, <1>4, <2>1, GotoShape
           DEF RpcSound, RequestFits, LocksHeld, Protected, InTransaction, RowsInHand,
               StoresStay, tripVars, Exists, TypeOK
    <2>5. Justified(a)'
        BY <1>1, <1>2, <1>4, <2>1, GotoShape DEF Justified, InTransaction, TypeOK
    <2> QED BY <1>1, <1>4, <2>1, <2>2, <2>3, <2>4, <2>5, GotoKeeps
<1> QED BY <1>3, <1>4 DEF UpdateTripBegin

LEMMA LockLayoutKeeps == ASSUME IInv, NEW a \in Admin, LockLayout(a) PROVE IInv'
<1> DEFINE v == admin[a].vehicle
<1>1. /\ StoresStay /\ UNCHANGED lease
      /\ admin[a].step = "layout" /\ admin[a].op = "vehicle"
      /\ v \in Vehicle /\ layoutLock[v] = None
    BY OperationOf DEF LockLayout, StoresStay, At
<1>2. RpcSound(a) /\ Justified(a) /\ TypeOK
    BY JustifiedNow DEF IInv
<1>3. CASE Rollback(a)
    BY <1>1, <1>3, RollbackKeeps
<1>4. CASE /\ layoutLock' = [layoutLock EXCEPT ![v] = a] /\ Goto(a, "rows")
           /\ UNCHANGED <<lifecycle, rowLock>>
    <2>1. "rows" \in AdminSteps
        BY DEF AdminSteps
    <2>2. TypeOK'
        BY <1>1, <1>2, <1>4, <2>1, GotoShape DEF TypeOK, StoresStay, catalogVars, tripVars
    <2>3. LocksKept(a)
        BY <1>1, <1>2, <1>4 DEF LocksKept, TypeOK
    <2>4. RpcSound(a)'
        BY <1>1, <1>2, <1>4, <2>1, GotoShape
           DEF RpcSound, RequestFits, LocksHeld, Protected, InTransaction, RowsInHand,
               StoresStay, tripVars, Exists, TypeOK
    <2>5. Justified(a)'
        <3>1. \A u \in Vehicle : layoutLock'[u] = a => u = v
            BY <1>1, <1>2, <1>4 DEF Justified, TypeOK
        <3> QED BY <1>1, <1>2, <1>4, <2>1, <3>1, GotoShape DEF Justified, InTransaction
    <2> QED BY <1>1, <1>4, <2>1, <2>2, <2>3, <2>4, <2>5, GotoKeeps
<1> QED BY <1>3, <1>4 DEF LockLayout

\* A transaction locks the rows of its trip, which are free.
RowsTaken(a) ==
    LET t == admin[a].trip IN
    /\ RowsFree(t, Rows(t))
    /\ rowLock' = [rowLock EXCEPT ![t] = [s \in Seat |-> IF s \in Rows(t) THEN a ELSE @[s]]]

LEMMA RowsTakenKeep ==
    ASSUME IInv, StoresStay, NEW a \in Admin, admin[a].step = "rows", RowsTaken(a),
           Goto(a, "renew"), UNCHANGED <<lifecycle, layoutLock, lease>>,
           admin[a].op = "vehicle" => Sellable(admin[a].trip, Rows(admin[a].trip))
    PROVE  IInv'
<1> DEFINE t == admin[a].trip
<1>1. "renew" \in AdminSteps /\ t \in Trip /\ admin[a].op \in {"vehicle", "delete"}
    BY OperationOf DEF AdminSteps
<1>2. RpcSound(a) /\ Justified(a) /\ TypeOK
    BY JustifiedNow DEF IInv
<1>3. /\ rowLock' \in [Trip -> [Seat -> Admin \cup Token \cup {None}]]
      /\ \A s \in Rows(t) : rowLock[t][s] = None /\ rowLock'[t][s] = a
      /\ \A s \in Seat \ Rows(t) : rowLock'[t][s] = rowLock[t][s]
      /\ \A u \in Trip \ {t} : rowLock'[u] = rowLock[u]
    BY <1>1, <1>2 DEF RowsTaken, RowsFree, Rows, TypeOK
<1>4. TypeOK'
    BY <1>1, <1>2, <1>3, GotoShape DEF TypeOK, StoresStay, catalogVars, tripVars
<1>5. LocksKept(a)
    BY <1>3 DEF LocksKept
<1>6. RpcSound(a)'
    <2>1. Rows(t)' = Rows(t)
        BY <1>1, <1>2, GotoShape DEF Rows, StoresStay
    <2>2. RequestFits(admin[a])' /\ LocksHeld(a)'
        BY <1>1, <1>2, <1>3, <2>1, GotoShape
           DEF RpcSound, RequestFits, LocksHeld, InTransaction, RowsInHand
    <2>3. Protected(a)'
        BY <1>1, <1>2, <2>1, GotoShape
           DEF RpcSound, Protected, InTransaction, RowsInHand, Sellable, Exists, Referenced,
               Booked, StoresStay, tripVars
    <2> QED BY <2>2, <2>3 DEF RpcSound
<1>7. Justified(a)'
    <2>1. lifecycle[t] = a
        BY <1>2 DEF RpcSound, LocksHeld, InTransaction
    <2> QED BY <1>1, <1>2, <1>3, <2>1, GotoShape DEF Justified, InTransaction
<1> QED BY <1>1, <1>4, <1>5, <1>6, <1>7, GotoKeeps

LEMMA LockRowsKeeps ==
    ASSUME IInv, NEW a \in Admin, LockRows(a) \/ DeleteTripRows(a) PROVE IInv'
<1>1. StoresStay /\ UNCHANGED lease /\ admin[a].step = "rows"
    BY DEF LockRows, DeleteTripRows, StoresStay, At
<1>2. CASE Rollback(a)
    BY <1>1, <1>2, RollbackKeeps
<1>3. CASE LockRows(a) /\ ~Rollback(a)
    BY <1>1, <1>3, RowsTakenKeep DEF LockRows, RowsTaken
<1>4. CASE DeleteTripRows(a)
    BY <1>1, <1>4, RowsTakenKeep DEF DeleteTripRows, RowsTaken
<1> QED BY <1>2, <1>3, <1>4

LEMMA DeleteTripBeginKeeps == ASSUME IInv, NEW a \in Admin, DeleteTripBegin(a) PROVE IInv'
<1> DEFINE t == admin[a].trip
<1>1. /\ StoresStay /\ UNCHANGED <<layoutLock, rowLock, lease>>
      /\ admin[a].step = "begin" /\ admin[a].op = "delete"
      /\ t \in Trip /\ lifecycle[t] = None
    BY OperationOf DEF DeleteTripBegin, StoresStay, At
<1>2. RpcSound(a) /\ Justified(a) /\ TypeOK
    BY JustifiedNow DEF IInv
<1>3. CASE End(a) /\ UNCHANGED lifecycle
    BY <1>1, <1>3, RefusalKeeps DEF lockVars
<1>4. CASE ~Referenced(t) /\ lifecycle' = [lifecycle EXCEPT ![t] = a] /\ Goto(a, "rows")
    <2>1. "rows" \in AdminSteps
        BY DEF AdminSteps
    <2>2. TypeOK'
        BY <1>1, <1>2, <1>4, <2>1, GotoShape DEF TypeOK, StoresStay, catalogVars, tripVars
    <2>3. LocksKept(a)
        BY <1>1, <1>2, <1>4 DEF LocksKept, TypeOK
    <2>4. RpcSound(a)'
        BY <1>1, <1>2, <1>4, <2>1, GotoShape
           DEF RpcSound, RequestFits, LocksHeld, Protected, InTransaction, RowsInHand,
               StoresStay, tripVars, Referenced, Booked, TypeOK
    <2>5. Justified(a)'
        BY <1>1, <1>2, <1>4, <2>1, GotoShape DEF Justified, InTransaction, TypeOK
    <2> QED BY <1>1, <1>4, <2>1, <2>2, <2>3, <2>4, <2>5, GotoKeeps
<1> QED BY <1>3, <1>4 DEF DeleteTripBegin

LEMMA RenewLeaseKeeps == ASSUME IInv, NEW a \in Admin, RenewLease(a) PROVE IInv'
<1>1. /\ StoresStay /\ UNCHANGED lease /\ admin[a].step = "renew"
      /\ admin[a].op \in {"vehicle", "delete"} /\ admin[a].trip \in Trip
    BY OperationOf DEF RenewLease, StoresStay, At
<1>2. RpcSound(a) /\ Justified(a) /\ TypeOK
    BY JustifiedNow DEF IInv
<1>3. CASE Rollback(a)
    BY <1>1, <1>3, RollbackKeeps
<1>4. CASE lease[admin[a].trip] = a /\ Goto(a, "commit") /\ UNCHANGED lockVars
    <2>1. "commit" \in AdminSteps
        BY DEF AdminSteps
    <2>2. TypeOK' /\ LocksKept(a)
        BY <1>1, <1>2, <1>4, <2>1, GotoShape
           DEF TypeOK, LocksKept, StoresStay, catalogVars, tripVars, lockVars
    <2>3. RpcSound(a)'
        BY <1>1, <1>2, <1>4, <2>1, GotoShape
           DEF RpcSound, RequestFits, LocksHeld, Protected, InTransaction, RowsInHand, Rows,
               Sellable, Exists, Referenced, Booked, StoresStay, tripVars, lockVars
    <2>4. Justified(a)'
        BY <1>1, <1>2, <1>4, <2>1, GotoShape DEF Justified, InTransaction, lockVars
    <2> QED BY <1>1, <1>4, <2>1, <2>2, <2>3, <2>4, GotoKeeps
<1> QED BY <1>3, <1>4 DEF RenewLease

LEMMA ReleaseLeaseKeeps == ASSUME IInv, NEW a \in Admin, ReleaseLease(a) PROVE IInv'
<1> DEFINE t == admin[a].trip
<1>1. /\ StoresStay /\ UNCHANGED lockVars
      /\ admin[a].step = "release" /\ t \in Trip
      /\ admin' = [admin EXCEPT ![a] = NoRpc]
    BY OperationOf DEF ReleaseLease, StoresStay, At
<1>2. Justified(a) /\ TypeOK
    BY JustifiedNow DEF IInv
<1>3. /\ lease' \in [Trip -> Admin \cup {Orphan, None}]
      /\ \A u \in Trip : lease'[u] # a
      /\ \A u \in Trip : lease'[u] # lease[u] => lease[u] = a /\ lease'[u] \in {None, Orphan}
    <2>1. CASE lease[t] = a
        <3>1. PICK left \in {None, Orphan} : lease' = [lease EXCEPT ![t] = left]
            BY <2>1 DEF ReleaseLease
        <3> QED BY <1>1, <1>2, <2>1, <3>1 DEF TypeOK, Justified
    <2>2. CASE lease[t] # a
        BY <1>1, <1>2, <2>2 DEF ReleaseLease, TypeOK, Justified
    <2> QED BY <2>1, <2>2
<1>4. TypeOK' /\ OthersStay(a) /\ admin'[a] = NoRpc
    BY <1>1, <1>2, <1>3, ResetShape DEF TypeOK, StoresStay, catalogVars, tripVars, lockVars
<1>5. LocksKept(a)
    BY <1>1, <1>3 DEF LocksKept, lockVars
<1>6. RpcSound(a)'
    BY <1>4 DEF RpcSound, RequestFits, LocksHeld, Protected, InTransaction, RowsInHand, NoRpc
<1>7. Justified(a)' /\ CreatesAlone(a)'
    BY <1>1, <1>2, <1>3, <1>4 DEF Justified, CreatesAlone, NoRpc, InTransaction, lockVars
<1> QED BY <1>1, <1>4, <1>5, <1>6, <1>7, RpcStepKeeps

LEMMA AbortKeeps == ASSUME IInv, NEW a \in Admin, Abort(a) PROVE IInv'
BY RollbackKeeps DEF Abort, StoresStay

\* A call that begins, with the layout lock of its vehicle or with no lock
LEMMA StartKeeps ==
    ASSUME IInv, StoresStay, NEW a \in Admin, NEW r \in Rpc, At(a, "idle"),
           admin' = [admin EXCEPT ![a] = r], RequestFits(r), Protected(a)', CreatesAlone(a)',
           UNCHANGED <<lifecycle, rowLock, lease>>,
           \/ r.step \in {"lease", "begin"} /\ UNCHANGED layoutLock
           \/ /\ r.step \in {"configure", "create"} /\ r.vehicle \in Vehicle
              /\ layoutLock[r.vehicle] = None
              /\ layoutLock' = [layoutLock EXCEPT ![r.vehicle] = a]
    PROVE  IInv'
<1>1. Justified(a) /\ TypeOK /\ admin[a].step = "idle"
    BY JustifiedNow DEF IInv, At
<1>2. /\ admin' \in [Admin -> Rpc] /\ admin'[a] = r /\ OthersStay(a)
      /\ layoutLock' \in [Vehicle -> Admin \cup {None}]
    BY <1>1 DEF TypeOK, OthersStay
<1>3. TypeOK'
    BY <1>1, <1>2 DEF TypeOK, StoresStay, catalogVars, tripVars
<1>4. LocksKept(a)
    BY <1>1 DEF LocksKept, TypeOK
<1>5. RpcSound(a)'
    <2>1. LocksHeld(a)'
        BY <1>1, <1>2 DEF LocksHeld, InTransaction, RowsInHand, TypeOK
    <2> QED BY <1>2, <2>1 DEF RpcSound
<1>6. Justified(a)'
    <2>1. \A v \in Vehicle : layoutLock'[v] = a =>
              v = r.vehicle /\ r.step \in {"configure", "create"}
        BY <1>1 DEF Justified, TypeOK
    <2> QED BY <1>1, <1>2, <2>1 DEF Justified, InTransaction
<1> QED BY <1>2, <1>3, <1>4, <1>5, <1>6, RpcStepKeeps

LEMMA ConfigureBeginKeeps ==
    ASSUME IInv, NEW a \in Admin, NEW v \in Vehicle, NEW S \in SUBSET Seat,
           ConfigureBegin(a, v, S)
    PROVE  IInv'
<1> DEFINE r == [op |-> "configure", step |-> "configure", trip |-> None, vehicle |-> v,
                 seats |-> S, status |-> "OTHER"]
<1>1. r \in Rpc /\ RequestFits(r)
    BY DEF Rpc, Ops, AdminSteps, Statuses, RequestFits
<1>2. /\ StoresStay /\ UNCHANGED <<lifecycle, rowLock, lease>> /\ At(a, "idle")
      /\ admin' = [admin EXCEPT ![a] = r] /\ admin'[a] = r
      /\ layoutLock[v] = None /\ layoutLock' = [layoutLock EXCEPT ![v] = a]
    BY DEF ConfigureBegin, Start, StoresStay, IInv, TypeOK
<1>3. Protected(a)' /\ CreatesAlone(a)'
    BY <1>2 DEF ConfigureBegin, Protected, CreatesAlone, Assigned, InTransaction, RowsInHand,
                StoresStay, tripVars
<1> QED BY <1>1, <1>2, <1>3, StartKeeps

LEMMA CreateTripBeginKeeps ==
    ASSUME IInv, NEW a \in Admin, NEW t \in Trip, NEW v \in Vehicle, NEW st \in Statuses,
           CreateTripBegin(a, t, v, st)
    PROVE  IInv'
<1> DEFINE r == [op |-> "create", step |-> "create", trip |-> t, vehicle |-> v,
                 seats |-> {}, status |-> st]
<1>1. r \in Rpc /\ RequestFits(r)
    BY DEF Rpc, Ops, AdminSteps, RequestFits
<1>2. /\ StoresStay /\ UNCHANGED <<lifecycle, rowLock, lease>> /\ At(a, "idle")
      /\ admin' = [admin EXCEPT ![a] = r] /\ admin'[a] = r
      /\ layoutLock[v] = None /\ layoutLock' = [layoutLock EXCEPT ![v] = a]
      /\ \A b \in Admin \ {a} : admin'[b] = admin[b]
    BY DEF CreateTripBegin, Start, StoresStay, IInv, TypeOK
<1>3. Protected(a)' /\ CreatesAlone(a)'
    BY <1>2 DEF CreateTripBegin, Protected, CreatesAlone, InTransaction, RowsInHand,
                StoresStay, tripVars
<1> QED BY <1>1, <1>2, <1>3, StartKeeps

LEMMA UpdateTripStartKeeps ==
    ASSUME IInv, NEW a \in Admin, NEW t \in Trip, NEW v \in Vehicle, UpdateTripStart(a, t, v)
    PROVE  IInv'
<1>1. PICK r \in Rpc :
          /\ r = [op |-> "vehicle", step |-> "lease", trip |-> t, vehicle |-> v,
                  seats |-> {}, status |-> "OTHER"] \/
             r = [op |-> "schedule", step |-> "begin", trip |-> t, vehicle |-> v,
                  seats |-> {}, status |-> "OTHER"]
          /\ admin' = [admin EXCEPT ![a] = r]
    BY DEF UpdateTripStart, Start, Rpc, Ops, AdminSteps, Statuses
<1>2. RequestFits(r)
    BY <1>1 DEF RequestFits
<1>3. StoresStay /\ UNCHANGED <<lockVars, lease>> /\ At(a, "idle") /\ admin'[a] = r
    BY <1>1 DEF UpdateTripStart, Start, StoresStay, IInv, TypeOK
<1>4. Protected(a)' /\ CreatesAlone(a)'
    BY <1>1, <1>3, JustifiedNow
       DEF Justified, At, Protected, CreatesAlone, InTransaction, RowsInHand
<1> QED BY <1>1, <1>2, <1>3, <1>4, StartKeeps DEF lockVars

LEMMA DeleteTripStartKeeps ==
    ASSUME IInv, NEW a \in Admin, NEW t \in Trip, DeleteTripStart(a, t)
    PROVE  IInv'
<1> DEFINE r == [op |-> "delete", step |-> "lease", trip |-> t, vehicle |-> None,
                 seats |-> {}, status |-> "OTHER"]
<1>1. r \in Rpc /\ RequestFits(r)
    BY DEF Rpc, Ops, AdminSteps, Statuses, RequestFits
<1>2. /\ StoresStay /\ UNCHANGED <<lockVars, lease>> /\ At(a, "idle")
      /\ admin' = [admin EXCEPT ![a] = r] /\ admin'[a] = r
    BY DEF DeleteTripStart, Start, StoresStay, IInv, TypeOK
<1>3. Protected(a)' /\ CreatesAlone(a)'
    BY <1>2 DEF DeleteTripStart, Protected, CreatesAlone, InTransaction, RowsInHand,
                StoresStay, tripVars
<1> QED BY <1>1, <1>2, <1>3, StartKeeps DEF lockVars

------------------------------------------------------------------------------
(* Commits: what changes is what the transaction has locked *)

Touches(a) ==
    /\ \A t \in Trip :
        \/ tripStatus'[t] = tripStatus[t] /\ tripVehicle'[t] = tripVehicle[t] /\ row'[t] = row[t]
        \/ lifecycle[t] = a
        \/ admin[a].op = "create" /\ admin[a].trip = t
    /\ \A t \in Trip : tripStatus'[t] = "NEW" => tripStatus[t] = "NEW"
    /\ \A t \in Trip, v \in Vehicle :
        tripVehicle'[t] = v => tripVehicle[t] = v \/ layoutLock[v] = a

\* The transactions of the others notice nothing.
LEMMA CommitSparesOthers ==
    ASSUME IInv, NEW a \in Admin, LocksKept(a), Touches(a), UNCHANGED <<lease, hold, client>>,
           NEW b \in Admin \ {a}, admin'[b] = admin[b]
    PROVE  RpcSound(b)'
<1> DEFINE t == admin[b].trip
<1>1. RequestFits(admin[b]) /\ LocksHeld(b) /\ Protected(b)
    BY DEF IInv, RpcSound
<1>2. /\ \A u \in Trip : lifecycle[u] = b => lifecycle'[u] = b
      /\ \A v \in Vehicle : layoutLock[v] = b => layoutLock'[v] = b
      /\ \A u \in Trip, s \in Seat : rowLock[u][s] = b => rowLock'[u][s] = b
    BY DEF LocksKept
<1>3. ASSUME admin[b].step \in InTransaction
      PROVE  /\ t \in Trip /\ lifecycle[t] = b
             /\ tripStatus'[t] = tripStatus[t] /\ row'[t] = row[t]
    <2>1. t \in Trip /\ lifecycle[t] = b
        BY <1>1, <1>3, OperationOf DEF LocksHeld, InTransaction
    <2>2. ~(admin[a].op = "create" /\ admin[a].trip = t)
        BY <1>1, <1>3, OperationOf DEF IInv, RpcSound, Protected, InTransaction, Exists, Statuses
    <2> QED BY <2>1, <2>2 DEF Touches
<1>4. RequestFits(admin[b])'
    BY <1>1 DEF RequestFits
<1>5. LocksHeld(b)'
    <2>1. admin[b].step \in {"configure", "create"} => admin[b].vehicle \in Vehicle
        BY <1>1 DEF RequestFits
    <2>2. admin[b].op = "vehicle" => admin[b].vehicle \in Vehicle
        BY <1>1 DEF RequestFits
    <2>3. admin[b].step \in RowsInHand => Rows(t)' = Rows(t)
        BY <1>3 DEF Rows, RowsInHand, InTransaction
    <2>4. Rows(t) \subseteq Seat
        BY DEF Rows
    <2> QED BY <1>1, <1>2, <1>3, <2>1, <2>2, <2>3, <2>4
            DEF LocksHeld, InTransaction, RowsInHand
<1>6. Protected(b)'
    <2>1. admin[b].op = "configure" => \A u \in Trip : tripVehicle'[u] # admin[b].vehicle
        <3>1. admin[b].op = "configure" =>
                  admin[b].vehicle \in Vehicle /\ layoutLock[admin[b].vehicle] = b
            BY <1>1 DEF RequestFits, LocksHeld
        <3> QED BY <1>1, <3>1 DEF Protected, Touches
    <2>2. admin[b].op = "create" => tripStatus'[t] = "NEW"
        <3>1. admin[b].op = "create" =>
                  t \in Trip /\ tripStatus[t] = "NEW" /\ (admin[a].op = "create" => admin[a].trip # t)
            BY <1>1 DEF RequestFits, Protected, IInv, Apart
        <3>2. ASSUME admin[b].op = "create" PROVE lifecycle[t] # a
            BY <3>1, <3>2, JustifiedNow, OperationOf
               DEF Justified, IInv, RpcSound, Protected, Exists, Statuses, InTransaction
        <3> QED BY <3>1, <3>2 DEF Touches
    <2>3. admin[b].op = "delete" => tripStatus'[t] # "NEW"
        BY <1>1 DEF RequestFits, Protected, Touches
    <2>4. admin[b].step \in InTransaction =>
              (Exists(t)' <=> Exists(t)) /\ (Referenced(t)' <=> Referenced(t))
        BY <1>3 DEF Exists, Referenced, Booked
    <2>5. admin[b].step \in RowsInHand => (Sellable(t, Rows(t))' <=> Sellable(t, Rows(t)))
        BY <1>3 DEF Sellable, Rows, RowsInHand, InTransaction
    <2> QED BY <1>1, <2>1, <2>2, <2>3, <2>4, <2>5 DEF Protected
<1> QED BY <1>4, <1>5, <1>6 DEF RpcSound

LEMMA SnapshotShape ==
    ASSUME TypeOK, NEW t \in Trip, NEW v \in Vehicle, Snapshot(t, v)
    PROVE  /\ row' \in [Trip -> [Seat -> RowStates]]
           /\ Rows(t)' = layout[v]
           /\ \A u \in Trip \ {t} : row'[u] = row[u]
BY DEF TypeOK, Snapshot, Rows, RowStates

\* What a customer relies on: the trip and its rows, unless it has just come.
LEMMA TokenKept ==
    ASSUME IInv, NEW a \in Admin, UnlockAll(a), UNCHANGED <<hold, client>>, NEW k \in Token,
           client[k].step # "new" =>
               /\ client[k].trip \in Trip
               /\ tripStatus'[client[k].trip] = tripStatus[client[k].trip]
               /\ row'[client[k].trip] = row[client[k].trip]
    PROVE  ClientSound(k)'
<1>1. TypeOK /\ ClientSound(k) /\ client[k].seats \subseteq Seat
    BY DEF IInv, TypeOK
<1>2. /\ \A t \in Trip : lifecycle[t] = k => lifecycle'[t] = k
      /\ \A t \in Trip, s \in Seat : rowLock[t][s] = k => rowLock'[t][s] = k
    BY <1>1, UnlockShape
<1> QED BY <1>1, <1>2 DEF ClientSound, Booked, Exists, Rows

LEMMA CommitKeeps ==
    ASSUME IInv, NEW a \in Admin, Rollback(a), Touches(a), UNCHANGED <<lease, hold, client>>,
           vehicles' \in SUBSET Vehicle /\ seatCount' \in [Vehicle -> Nat] /\
           layout' \in [Vehicle -> SUBSET Seat],
           tripStatus' \in [Trip -> Statuses \cup {"NEW", "DELETED"}] /\
           tripVehicle' \in [Trip -> Vehicle \cup {None}] /\ row' \in [Trip -> [Seat -> RowStates]],
           SeatCountDerived', \A t \in Trip : TripSound(t)', \A k \in Token : ClientSound(k)'
    PROVE  IInv'
<1>1. RpcSound(a) /\ Justified(a) /\ TypeOK /\ End(a) /\ UnlockAll(a)
    BY JustifiedNow DEF IInv, Rollback
<1>2. TypeOK' /\ OthersStay(a)
    BY <1>1, EndShape, UnlockShape DEF TypeOK
<1>3. LocksKept(a) /\ Unlocked(a)
    <2>1. Unlocked(a)
        BY <1>1, UnlockAllUnlocks
    <2>2. LocksKept(a)
        BY <1>1, UnlockShape DEF LocksKept
    <2> QED BY <2>1, <2>2
<1>4. Justified(a)' /\ CreatesAlone(a)' /\ RpcSound(a)'
    <2>1. CASE admin'[a] = NoRpc /\ admin[a].op \notin {"vehicle", "delete"}
        BY <1>1, <1>3, <2>1
           DEF Justified, CreatesAlone, NoRpc, Unlocked, RpcSound, RequestFits, LocksHeld,
               Protected, InTransaction, RowsInHand
    <2>2. CASE /\ admin'[a].step = "release"
               /\ admin'[a].op = admin[a].op
               /\ admin'[a].op \in {"vehicle", "delete"}
               /\ admin'[a].trip = admin[a].trip
               /\ admin'[a].vehicle = admin[a].vehicle
        BY <1>1, <1>3, <2>2
           DEF Justified, CreatesAlone, Unlocked, RpcSound, RequestFits, LocksHeld, Protected,
               InTransaction, RowsInHand, Touches
    <2> QED BY <1>1, <2>1, <2>2, EndShape
<1>5. LocksOwned' /\ Apart'
    BY <1>2, <1>3, <1>4, OwnedStill, ApartStill
<1>6. \A b \in Admin : RpcSound(b)'
    BY <1>2, <1>3, <1>4, CommitSparesOthers DEF OthersStay
<1> QED BY <1>2, <1>5, <1>6 DEF IInv

LEMMA ConfigureCommitKeeps == ASSUME IInv, NEW a \in Admin, ConfigureCommit(a) PROVE IInv'
<1> DEFINE v == admin[a].vehicle
<1> DEFINE S == admin[a].seats
<1>1. /\ admin[a].op = "configure" /\ v \in Vehicle /\ S \in SUBSET Seat
      /\ \A t \in Trip : tripVehicle[t] # v
      /\ TypeOK
    BY DEF ConfigureCommit, At, IInv, TypeOK, Rpc, RpcSound, RequestFits, Protected
<1>2. /\ Rollback(a)
      /\ UNCHANGED <<vehicles, tripVars, row, lease, hold, client>>
    BY DEF ConfigureCommit, Rollback
<1>3. Cardinality(S) \in Nat
    <2>1. IsFiniteSet(S)
        BY <1>1, SeatsFinite, FS_Subset
    <2> QED BY <2>1, FS_CardinalityType
<1>4. /\ layout' \in [Vehicle -> SUBSET Seat] /\ seatCount' \in [Vehicle -> Nat]
      /\ \A w \in Vehicle \ {v} : layout'[w] = layout[w] /\ seatCount'[w] = seatCount[w]
      /\ v \in vehicles => layout'[v] = S /\ seatCount'[v] = Cardinality(S)
      /\ v \notin vehicles => UNCHANGED <<layout, seatCount>>
    BY <1>1, <1>3 DEF ConfigureCommit, TypeOK
<1>5. SeatCountDerived'
    BY <1>1, <1>2, <1>4 DEF SeatCountDerived, IInv, TypeOK
<1>6. \A t \in Trip : TripSound(t)'
    BY <1>1, <1>2, <1>4 DEF IInv, TripSound, Exists, Rows, tripVars
<1>7. \A k \in Token : ClientSound(k)'
    BY <1>2, TokenKept DEF Rollback, tripVars, IInv, ClientSound
<1>8. Touches(a)
    BY <1>2 DEF Touches, tripVars
<1> QED BY <1>1, <1>2, <1>4, <1>5, <1>6, <1>7, <1>8, CommitKeeps DEF TypeOK, tripVars

LEMMA CreateTripCommitKeeps == ASSUME IInv, NEW a \in Admin, CreateTripCommit(a) PROVE IInv'
<1>1. PICK t \in Trip, v \in Vehicle :
          /\ t = admin[a].trip /\ v = admin[a].vehicle /\ TypeOK
          /\ admin[a].op = "create" /\ admin[a].status \in Statuses
          /\ tripStatus[t] = "NEW" /\ layoutLock[v] = a
    BY DEF CreateTripCommit, At, IInv, TypeOK, Rpc, RpcSound, RequestFits, Protected, LocksHeld
<1>2. Rollback(a) /\ UNCHANGED <<catalogVars, lease, hold, client>>
    BY DEF CreateTripCommit, Rollback
<1>3. CASE v \notin vehicles
    <2>1. StoresStay
        BY <1>1, <1>2, <1>3 DEF CreateTripCommit, StoresStay
    <2> QED BY <1>2, <2>1, RollbackKeeps
<1>4. CASE v \in vehicles
    <2>1. /\ tripStatus' = [tripStatus EXCEPT ![t] = admin[a].status]
          /\ tripVehicle' = [tripVehicle EXCEPT ![t] = v]
          /\ Snapshot(t, v)
        BY <1>1, <1>4 DEF CreateTripCommit
    <2>2. /\ row' \in [Trip -> [Seat -> RowStates]] /\ Rows(t)' = layout[v]
          /\ \A u \in Trip \ {t} : row'[u] = row[u]
        BY <1>1, <2>1, SnapshotShape
    <2>3. SeatCountDerived'
        BY <1>2 DEF SeatCountDerived, IInv, catalogVars
    <2>4. ASSUME NEW u \in Trip PROVE TripSound(u)'
        <3>1. CASE u = t
            BY <1>1, <1>2, <2>1, <2>2, <3>1 DEF TripSound, Exists, TypeOK, catalogVars
        <3>2. CASE u # t
            BY <1>1, <1>2, <2>1, <2>2, <3>2 DEF IInv, TripSound, Exists, Rows, TypeOK, catalogVars
        <3> QED BY <3>1, <3>2
    <2>5. ASSUME NEW k \in Token PROVE ClientSound(k)'
        <3>1. client[k].step # "new" =>
                  /\ client[k].trip \in Trip
                  /\ tripStatus'[client[k].trip] = tripStatus[client[k].trip]
                  /\ row'[client[k].trip] = row[client[k].trip]
            BY <1>1, <2>1, <2>2 DEF IInv, ClientSound, TypeOK
        <3> QED BY <1>2, <3>1, TokenKept DEF Rollback
    <2>6. Touches(a)
        BY <1>1, <2>1, <2>2 DEF Touches, TypeOK, Statuses
    <2>7. /\ tripStatus' \in [Trip -> Statuses \cup {"NEW", "DELETED"}]
          /\ tripVehicle' \in [Trip -> Vehicle \cup {None}]
        BY <1>1, <2>1 DEF TypeOK
    <2> QED BY <1>1, <1>2, <2>2, <2>3, <2>4, <2>5, <2>6, <2>7, CommitKeeps
            DEF TypeOK, catalogVars
<1> QED BY <1>3, <1>4

\* What a transaction that replaces or deletes the rows of its trip has found
LEMMA CommitKnows ==
    ASSUME IInv, NEW a \in Admin, admin[a].step = "commit", NEW t \in Trip, t = admin[a].trip
    PROVE  /\ lifecycle[t] = a
           /\ \A s \in Rows(t) : rowLock[t][s] = a
           /\ \A k \in Token : client[k].trip = t => hold[k] = {} /\ client[k].step # "booking"
<1>1. lifecycle[t] = a /\ \A s \in Rows(t) : rowLock[t][s] = a
    BY DEF IInv, RpcSound, LocksHeld, InTransaction, RowsInHand
<1>2. \A k \in Token : client[k].trip = t => hold[k] = {}
    BY DEF IInv, RpcSound, LocksHeld, Protected, InTransaction
<1>3. \A k \in Token : client[k].trip = t => client[k].step # "booking"
    BY <1>1 DEF IInv, ClientSound
<1> QED BY <1>1, <1>2, <1>3

LEMMA CommitVehicleKeeps == ASSUME IInv, NEW a \in Admin, CommitVehicle(a) PROVE IInv'
<1>1. PICK t \in Trip, v \in Vehicle :
          /\ t = admin[a].trip /\ v = admin[a].vehicle /\ TypeOK
          /\ admin[a].op = "vehicle" /\ admin[a].step = "commit"
          /\ layoutLock[v] = a /\ Exists(t) /\ Sellable(t, Rows(t))
    BY OperationOf
       DEF CommitVehicle, At, IInv, RpcSound, LocksHeld, Protected, InTransaction, RowsInHand
<1>2. /\ Rollback(a) /\ UNCHANGED <<catalogVars, tripStatus, lease, hold, client>>
      /\ tripVehicle' = [tripVehicle EXCEPT ![t] = v]
      /\ Snapshot(t, v)
    BY <1>1 DEF CommitVehicle
<1>3. /\ row' \in [Trip -> [Seat -> RowStates]] /\ Rows(t)' = layout[v]
      /\ \A u \in Trip \ {t} : row'[u] = row[u]
    BY <1>1, <1>2, SnapshotShape
<1>4. /\ lifecycle[t] = a /\ \A s \in Rows(t) : rowLock[t][s] = a
      /\ \A k \in Token : client[k].trip = t => hold[k] = {} /\ client[k].step # "booking"
    BY <1>1, CommitKnows
<1>5. SeatCountDerived'
    BY <1>2 DEF SeatCountDerived, IInv, catalogVars
<1>6. ASSUME NEW u \in Trip PROVE TripSound(u)'
    <2>1. CASE u = t
        BY <1>1, <1>2, <1>3, <2>1 DEF TripSound, Exists, TypeOK, catalogVars
    <2>2. CASE u # t
        BY <1>1, <1>2, <1>3, <2>2 DEF IInv, TripSound, Exists, Rows, TypeOK, catalogVars
    <2> QED BY <2>1, <2>2
<1>7. ASSUME NEW k \in Token PROVE ClientSound(k)'
    <2>1. CASE client[k].trip = t
        <3>1. client[k].step \in {"confirm", "confirmed"} => client[k].seats = {}
            BY <1>1, <1>4, <2>1 DEF IInv, ClientSound, TypeOK, Rows, Sellable
        <3> QED BY <1>1, <1>2, <1>4, <2>1, <3>1 DEF IInv, ClientSound, Booked, Exists
    <2>2. CASE client[k].trip # t
        BY <1>2, <1>3, <2>2, TokenKept DEF Rollback, IInv, ClientSound
    <2> QED BY <2>1, <2>2
<1>8. Touches(a)
    BY <1>1, <1>2, <1>3, <1>4 DEF Touches, TypeOK
<1>9. tripVehicle' \in [Trip -> Vehicle \cup {None}]
    BY <1>1, <1>2 DEF TypeOK
<1> QED BY <1>1, <1>2, <1>3, <1>5, <1>6, <1>7, <1>8, <1>9, CommitKeeps DEF TypeOK, catalogVars

LEMMA CommitDeleteKeeps == ASSUME IInv, NEW a \in Admin, CommitDelete(a) PROVE IInv'
<1>1. PICK t \in Trip :
          /\ t = admin[a].trip /\ TypeOK
          /\ admin[a].op = "delete" /\ admin[a].step = "commit"
          /\ tripStatus[t] # "NEW" /\ ~Referenced(t)
    BY OperationOf
       DEF CommitDelete, At, IInv, RpcSound, Protected, InTransaction
<1>2. /\ Rollback(a) /\ UNCHANGED <<catalogVars, lease, hold, client>>
      /\ tripStatus' = [tripStatus EXCEPT ![t] = "DELETED"]
      /\ tripVehicle' = [tripVehicle EXCEPT ![t] = None]
      /\ row' = [row EXCEPT ![t] = [s \in Seat |-> "none"]]
    BY <1>1 DEF CommitDelete
<1>3. /\ lifecycle[t] = a
      /\ \A k \in Token : client[k].trip = t => hold[k] = {} /\ client[k].step # "booking"
    BY <1>1, CommitKnows
<1>4. SeatCountDerived'
    BY <1>2 DEF SeatCountDerived, IInv, catalogVars
<1>5. /\ tripStatus' \in [Trip -> Statuses \cup {"NEW", "DELETED"}]
      /\ tripVehicle' \in [Trip -> Vehicle \cup {None}]
      /\ row' \in [Trip -> [Seat -> RowStates]]
    BY <1>1, <1>2 DEF TypeOK, RowStates
<1>6. ASSUME NEW u \in Trip PROVE TripSound(u)'
    <2>1. CASE u = t
        BY <1>1, <1>2, <2>1 DEF TripSound, Exists, Rows, Statuses, TypeOK
    <2>2. CASE u # t
        BY <1>1, <1>2, <2>2 DEF IInv, TripSound, Exists, Rows, TypeOK, catalogVars
    <2> QED BY <2>1, <2>2
<1>7. ASSUME NEW k \in Token PROVE ClientSound(k)'
    <2>1. CASE client[k].trip = t
        <3>1. ~Booked(k)
            BY <1>1, <2>1 DEF Referenced
        <3>2. tripStatus'[t] # "NEW"
            BY <1>1, <1>2 DEF TypeOK
        <3> QED BY <1>1, <1>2, <1>3, <2>1, <3>1, <3>2 DEF IInv, ClientSound, Booked
    <2>2. CASE client[k].trip # t
        <3>1. \A u \in Trip \ {t} : row'[u] = row[u] /\ tripStatus'[u] = tripStatus[u]
            BY <1>1, <1>2 DEF TypeOK
        <3> QED BY <1>2, <2>2, <3>1, TokenKept DEF Rollback, IInv, ClientSound
    <2> QED BY <2>1, <2>2
<1>8. Touches(a)
    BY <1>1, <1>2, <1>3 DEF Touches, TypeOK, Statuses
<1> QED BY <1>1, <1>2, <1>4, <1>5, <1>6, <1>7, <1>8, CommitKeeps DEF TypeOK, catalogVars

------------------------------------------------------------------------------
(* Vehicles *)

\* Vehicles come, go and are counted while no trip and no running call has them.
LEMMA VehicleCallKeeps ==
    ASSUME IInv, NEW v \in Vehicle, VehicleCall(v)
    PROVE  IInv'
<1>1. UNCHANGED <<tripVars, row, lockVars, lease, admin, hold, client>>
    BY DEF VehicleCall, CreateVehicle, UpdateVehicle, DeleteVehicle
<1>2. TypeOK /\ Counts \subseteq Nat
    BY CountsPositive DEF IInv
<1>3. /\ vehicles' \in SUBSET Vehicle /\ seatCount' \in [Vehicle -> Nat]
      /\ layout' \in [Vehicle -> SUBSET Seat]
      /\ \A t \in Trip : tripVehicle[t] \in Vehicle => layout'[tripVehicle[t]] = layout[tripVehicle[t]]
      /\ SeatCountDerived'
    <2>1. CASE \E n \in Counts : CreateVehicle(v, n)
        BY <1>2, <2>1 DEF CreateVehicle, Assigned, TypeOK, SeatCountDerived, IInv
    <2>2. CASE \E n \in Counts : UpdateVehicle(v, n)
        BY <1>2, <2>2 DEF UpdateVehicle, TypeOK, SeatCountDerived, IInv
    <2>3. CASE DeleteVehicle(v)
        BY <1>2, <2>3 DEF DeleteVehicle, Assigned, TypeOK, SeatCountDerived, IInv
    <2> QED BY <2>1, <2>2, <2>3 DEF VehicleCall
<1>4. TypeOK' /\ LocksOwned' /\ Apart'
    BY <1>1, <1>2, <1>3 DEF TypeOK, LocksOwned, Apart, In, IInv, tripVars, lockVars
<1>5. \A a \in Admin : RpcSound(a)'
    BY <1>1 DEF IInv, RpcSound, RequestFits, LocksHeld, Protected, Rows, Exists, Sellable,
                Referenced, Booked, tripVars, lockVars
<1>6. \A t \in Trip : TripSound(t)'
    BY <1>1, <1>3 DEF IInv, TripSound, Exists, Rows, tripVars
<1>7. \A k \in Token : ClientSound(k)'
    BY <1>1 DEF IInv, ClientSound, Rows, Exists, Booked, tripVars, lockVars
<1> QED BY <1>3, <1>4, <1>5, <1>6, <1>7 DEF IInv

------------------------------------------------------------------------------
(* Customers *)

\* What no step of a customer does: it writes no row an RPC has locked, takes no
\* lock from an RPC, draws no hold under a lease, and books no trip without its lock.
SparesRpcs ==
    /\ UNCHANGED <<catalogVars, tripVars, layoutLock, lease, admin>>
    /\ \A t \in Trip : Rows(t)' = Rows(t)
    /\ \A t \in Trip, s \in Seat : row'[t][s] # row[t][s] => rowLock[t][s] \notin Admin
    /\ \A t \in Trip : lifecycle'[t] # lifecycle[t] =>
           lifecycle[t] \notin Admin /\ lifecycle'[t] \notin Admin
    /\ \A t \in Trip, s \in Seat : rowLock'[t][s] # rowLock[t][s] =>
           rowLock[t][s] \notin Admin /\ rowLock'[t][s] \notin Admin
    /\ \A k \in Token : hold'[k] # {} /\ client'[k].trip \in Trip =>
           \/ hold[k] # {} /\ client[k].trip = client'[k].trip
           \/ lease[client'[k].trip] = None
    /\ \A k \in Token : Booked(k)' =>
           /\ client'[k].trip = client[k].trip
           /\ Booked(k) \/ lifecycle[client[k].trip] = k

\* The locks of customers are those of their transactions: LocksOwned for them.
TokensOwn ==
    /\ \A t \in Trip : lifecycle[t] \in Token => client[lifecycle[t]].step = "booking"
    /\ \A t \in Trip, s \in Seat :
           rowLock[t][s] \in Token => client[rowLock[t][s]].step = "confirm"

LEMMA TokensOwnNow == IInv => TokensOwn
BY DEF IInv, LocksOwned, TokensOwn, In

LEMMA SparedRpc ==
    ASSUME IInv, SparesRpcs, NEW a \in Admin
    PROVE  RpcSound(a)'
<1> DEFINE t == admin[a].trip
<1>1. RequestFits(admin[a]) /\ LocksHeld(a) /\ Protected(a)
    BY DEF IInv, RpcSound
<1>2. /\ UNCHANGED <<admin, layoutLock, lease, tripStatus, tripVehicle>>
      /\ \A u \in Trip : lifecycle[u] = a => lifecycle'[u] = a
      /\ \A u \in Trip, s \in Seat : rowLock[u][s] = a => rowLock'[u][s] = a
    BY DEF SparesRpcs, tripVars
<1>3. admin[a].step \in InTransaction => t \in Trip /\ lifecycle[t] = a /\ Rows(t)' = Rows(t)
    BY <1>1, <1>2, OperationOf DEF LocksHeld, InTransaction, SparesRpcs
<1>4. RequestFits(admin[a])'
    BY <1>1, <1>2 DEF RequestFits
<1>5. LocksHeld(a)'
    <2>1. Rows(t) \subseteq Seat
        BY DEF Rows
    <2> QED BY <1>1, <1>2, <1>3, <2>1 DEF LocksHeld, InTransaction, RowsInHand
<1>6. Protected(a)'
    <2>1. admin[a].step \in InTransaction => (Referenced(t)' => Referenced(t))
        BY <1>2, <1>3 DEF Referenced, SparesRpcs
    <2>2. admin[a].step \in RowsInHand => (Sellable(t, Rows(t)) => Sellable(t, Rows(t))')
        BY <1>1, <1>2, <1>3 DEF SparesRpcs, Sellable, LocksHeld, RowsInHand, InTransaction, Rows
    <2>3. Exists(t)' <=> Exists(t)
        BY <1>2 DEF Exists
    <2>4. \A k \in Token : client'[k].trip = t /\ t \in Trip /\ lease[t] = a /\ hold'[k] # {} =>
              client[k].trip = t /\ hold[k] # {}
        BY DEF SparesRpcs
    <2> QED BY <1>1, <1>2, <2>1, <2>2, <2>3, <2>4 DEF Protected
<1> QED BY <1>4, <1>5, <1>6 DEF RpcSound

LEMMA CustomerKeeps ==
    ASSUME IInv, SparesRpcs, TypeOK', TokensOwn', Apart', \A k \in Token : ClientSound(k)'
    PROVE  IInv'
<1>1. UNCHANGED <<catalogVars, tripVars, layoutLock, lease, admin>>
    BY DEF SparesRpcs
<1>2. LocksOwned'
    <2>1. \A t \in Trip : lifecycle'[t] \in Admin => lifecycle'[t] = lifecycle[t]
        BY DEF SparesRpcs
    <2>2. \A t \in Trip, s \in Seat : rowLock'[t][s] \in Admin =>
              rowLock'[t][s] = rowLock[t][s] /\ lifecycle'[t] = lifecycle[t]
        BY DEF SparesRpcs, IInv, LocksOwned
    <2> QED BY <1>1, <2>1, <2>2 DEF LocksOwned, TokensOwn, In, IInv
<1>3. SeatCountDerived' /\ \A t \in Trip : TripSound(t)'
    BY <1>1 DEF SparesRpcs, IInv, SeatCountDerived, TripSound, Exists, catalogVars, tripVars
<1> QED BY <1>2, <1>3, SparedRpc DEF IInv

\* A step of one customer that writes no row
OneClient(k) ==
    /\ UNCHANGED <<catalogVars, tripVars, row, layoutLock, lease, admin>>
    /\ \A j \in Token \ {k} : client'[j] = client[j] /\ hold'[j] = hold[j]
    /\ \A t \in Trip : lifecycle'[t] # lifecycle[t] =>
           lifecycle[t] \in {k, None} /\ lifecycle'[t] \in {k, None}
    /\ \A t \in Trip, s \in Seat : rowLock'[t][s] # rowLock[t][s] =>
           rowLock[t][s] \in {k, None} /\ rowLock'[t][s] \in {k, None}
    /\ \A t \in Trip : lifecycle'[t] = k => client'[k].step = "booking"
    /\ \A t \in Trip, s \in Seat : rowLock'[t][s] = k => client'[k].step = "confirm"

LEMMA ClientStepKeeps ==
    ASSUME IInv, NEW k \in Token, OneClient(k), TypeOK', ClientSound(k)',
           client'[k].step = "confirmed" => client'[k] = client[k],
           client'[k].trip = client[k].trip \/ (client'[k].step = "create" /\ hold'[k] = {}),
           hold'[k] \subseteq hold[k] \/ lease[client'[k].trip] = None,
           Booked(k)' => Booked(k) \/ lifecycle[client[k].trip] = k
    PROVE  IInv'
<1>1. SparesRpcs
    <2>1. \A t \in Trip : Rows(t)' = Rows(t)
        BY DEF OneClient, Rows
    <2>2. \A j \in Token : Booked(j)' =>
              client'[j].trip = client[j].trip /\ (Booked(j) \/ lifecycle[client[j].trip] = j)
        BY DEF OneClient, Booked
    <2>3. \A j \in Token : hold'[j] # {} /\ client'[j].trip \in Trip =>
              \/ hold[j] # {} /\ client[j].trip = client'[j].trip
              \/ lease[client'[j].trip] = None
        BY DEF OneClient
    <2> QED BY <2>1, <2>2, <2>3 DEF SparesRpcs, OneClient
<1>2. TokensOwn'
    BY TokensOwnNow DEF OneClient, TokensOwn
<1>3. Apart'
    BY DEF OneClient, IInv, Apart, In
<1>4. ASSUME NEW j \in Token PROVE ClientSound(j)'
    <2>1. CASE j = k
        BY <2>1
    <2>2. CASE j # k
        <3>1. ClientSound(j) /\ client[j].seats \subseteq Seat
            BY DEF IInv, TypeOK
        <3>2. /\ \A t \in Trip : lifecycle[t] = j => lifecycle'[t] = j
              /\ \A t \in Trip, s \in Seat : rowLock[t][s] = j => rowLock'[t][s] = j
            BY <2>2 DEF OneClient
        <3>3. client'[j] = client[j] /\ hold'[j] = hold[j] /\ UNCHANGED <<tripStatus, row>>
            BY <2>2 DEF OneClient, tripVars
        <3> QED BY <3>1, <3>2, <3>3 DEF ClientSound, Booked, Exists, Rows
    <2> QED BY <2>1, <2>2
<1> QED BY <1>1, <1>2, <1>3, <1>4, CustomerKeeps

LEMMA StepShape ==
    ASSUME TypeOK, NEW k \in Token, NEW step \in ClientSteps, Step(k, step)
    PROVE  /\ client' \in [Token -> [step : ClientSteps, trip : Trip \cup {None}, seats : SUBSET Seat]]
           /\ client'[k].step = step
           /\ client'[k].trip = client[k].trip /\ client'[k].seats = client[k].seats
           /\ \A j \in Token \ {k} : client'[j] = client[j]
<1> DEFINE c == [client[k] EXCEPT !.step = step]
<1>1. client[k] \in [step : ClientSteps, trip : Trip \cup {None}, seats : SUBSET Seat]
    BY DEF TypeOK
<1>2. /\ c \in [step : ClientSteps, trip : Trip \cup {None}, seats : SUBSET Seat]
      /\ c.step = step /\ c.trip = client[k].trip /\ c.seats = client[k].seats
    BY <1>1
<1>3. client' = [client EXCEPT ![k] = c]
    BY DEF Step
<1> HIDE DEF c
<1> QED BY <1>2, <1>3 DEF TypeOK

\* A step of a hold: the customer goes on from one step to another, or gives up.
LEMMA HoldStepKeeps ==
    ASSUME IInv, NEW k \in Token, NEW step \in ClientSteps \ {"new", "booking", "confirm", "confirmed"},
           Step(k, step), hold' \in [Token -> SUBSET Seat],
           UNCHANGED <<catalogVars, tripVars, row, lockVars, lease, admin>>,
           \A j \in Token \ {k} : hold'[j] = hold[j],
           client[k].step \notin {"new", "booking", "confirm"},
           step \in {"booked", "cancelled"} => Booked(k),
           hold'[k] \subseteq hold[k] \/
               (lease[client[k].trip] = None /\ hold'[k] \subseteq client[k].seats),
           step \in {"reply", "granted", "validated"} => hold'[k] \subseteq Rows(client[k].trip)
    PROVE  IInv'
<1>1. TypeOK /\ ClientSound(k)
    BY DEF IInv
<1>2. /\ client' \in [Token -> [step : ClientSteps, trip : Trip \cup {None}, seats : SUBSET Seat]]
      /\ client'[k].step = step
      /\ client'[k].trip = client[k].trip /\ client'[k].seats = client[k].seats
      /\ \A j \in Token \ {k} : client'[j] = client[j]
    BY <1>1, StepShape
<1>3. TypeOK'
    BY <1>1, <1>2 DEF TypeOK, catalogVars, tripVars, lockVars
<1>4. OneClient(k)
    BY <1>1, <1>2, TokensOwnNow DEF OneClient, TokensOwn, lockVars
<1>5. ClientSound(k)'
    BY <1>1, <1>2 DEF ClientSound, Booked, Exists, Rows, tripVars, lockVars
<1>6. Booked(k)' => Booked(k)
    BY <1>2 DEF Booked
<1> QED BY <1>2, <1>3, <1>4, <1>5, <1>6, ClientStepKeeps

LEMMA HoldStartKeeps ==
    ASSUME IInv, NEW k \in Token, NEW t \in Trip, NEW S \in SUBSET Seat, HoldStart(k, t, S)
    PROVE  IInv'
<1>1. /\ TypeOK /\ client[k].step = "new" /\ tripStatus[t] = "ACTIVE" /\ hold[k] = {}
      /\ UNCHANGED <<catalogVars, tripVars, row, lockVars, lease, admin, hold>>
    BY DEF HoldStart, In, IInv, ClientSound
<1>2. /\ client' \in [Token -> [step : ClientSteps, trip : Trip \cup {None}, seats : SUBSET Seat]]
      /\ client'[k] = [step |-> "create", trip |-> t, seats |-> S]
      /\ \A j \in Token \ {k} : client'[j] = client[j]
    BY <1>1 DEF HoldStart, TypeOK, ClientSteps
<1>3. TypeOK'
    BY <1>1, <1>2 DEF TypeOK, catalogVars, tripVars, lockVars
<1>4. OneClient(k)
    BY <1>1, <1>2, TokensOwnNow DEF OneClient, TokensOwn, lockVars
<1>5. ClientSound(k)'
    BY <1>1, <1>2 DEF ClientSound, Booked, tripVars
<1>6. ~Booked(k)'
    BY <1>2 DEF Booked
<1> QED BY <1>1, <1>2, <1>3, <1>4, <1>5, <1>6, ClientStepKeeps

LEMMA HoldExpireKeeps == ASSUME IInv, NEW k \in Token, HoldExpire(k) PROVE IInv'
<1>1. /\ TypeOK /\ ClientSound(k) /\ hold' = [hold EXCEPT ![k] = {}]
      /\ UNCHANGED <<catalogVars, tripVars, row, lockVars, lease, admin, client>>
    BY DEF HoldExpire, IInv
<1>2. TypeOK' /\ hold'[k] = {} /\ \A j \in Token \ {k} : hold'[j] = hold[j]
    BY <1>1 DEF TypeOK, catalogVars, tripVars, lockVars
<1>3. OneClient(k)
    BY <1>1, <1>2, TokensOwnNow DEF OneClient, TokensOwn, lockVars
<1>4. ClientSound(k)' /\ (Booked(k)' => Booked(k))
    BY <1>1, <1>2 DEF ClientSound, Booked, Exists, Rows, tripVars, lockVars
<1> QED BY <1>1, <1>2, <1>3, <1>4, ClientStepKeeps

LEMMA DiscardKeeps ==
    ASSUME IInv, NEW k \in Token, Discard(k), client[k].step \in {"recheck", "reply"},
           UNCHANGED <<catalogVars, tripVars, row, lockVars, lease, admin>>
    PROVE  IInv'
<1>1. hold' \in [Token -> SUBSET Seat] /\ hold'[k] \subseteq hold[k]
      /\ \A j \in Token \ {k} : hold'[j] = hold[j]
    BY DEF Discard, IInv, TypeOK
<1>2. Step(k, "failed") /\ "failed" \in ClientSteps \ {"new", "booking", "confirm", "confirmed"}
    BY DEF Discard, ClientSteps
<1> QED BY <1>1, <1>2, HoldStepKeeps

LEMMA HoldCreateKeeps == ASSUME IInv, NEW k \in Token, HoldCreate(k) PROVE IInv'
<1>1. TypeOK /\ client[k].step = "create"
      /\ UNCHANGED <<catalogVars, tripVars, row, lockVars, lease, admin>>
    BY DEF HoldCreate, In, IInv
<1>2. PICK step \in {"recheck", "failed"} :
          /\ Step(k, step)
          /\ \/ UNCHANGED hold
             \/ /\ lease[client[k].trip] = None
                /\ hold' = [hold EXCEPT ![k] = client[k].seats]
    BY DEF HoldCreate
<1>3. /\ hold' \in [Token -> SUBSET Seat]
      /\ \A j \in Token \ {k} : hold'[j] = hold[j]
      /\ hold'[k] \subseteq hold[k] \/
             (lease[client[k].trip] = None /\ hold'[k] \subseteq client[k].seats)
    BY <1>1, <1>2 DEF TypeOK
<1>4. step \in ClientSteps \ {"new", "booking", "confirm", "confirmed"}
    BY <1>2 DEF ClientSteps
<1> QED BY <1>1, <1>2, <1>3, <1>4, HoldStepKeeps

LEMMA HoldRecheckKeeps == ASSUME IInv, NEW k \in Token, HoldRecheck(k) PROVE IInv'
<1>1. TypeOK /\ ClientSound(k) /\ client[k].step = "recheck"
      /\ UNCHANGED <<catalogVars, tripVars, row, lockVars, lease, admin>>
    BY DEF HoldRecheck, In, IInv
<1>2. CASE Sellable(client[k].trip, client[k].seats)
    <2>1. Step(k, "reply") /\ UNCHANGED hold
        BY <1>2 DEF HoldRecheck
    <2>2. hold[k] \subseteq Rows(client[k].trip) /\ hold \in [Token -> SUBSET Seat]
        BY <1>1, <1>2 DEF ClientSound, Sellable, Rows, TypeOK
    <2>3. "reply" \in ClientSteps \ {"new", "booking", "confirm", "confirmed"}
        BY DEF ClientSteps
    <2> QED BY <1>1, <2>1, <2>2, <2>3, HoldStepKeeps
<1>3. CASE ~Sellable(client[k].trip, client[k].seats)
    BY <1>1, <1>3, DiscardKeeps DEF HoldRecheck
<1> QED BY <1>2, <1>3

LEMMA HoldReplyKeeps == ASSUME IInv, NEW k \in Token, HoldReply(k) PROVE IInv'
<1>1. TypeOK /\ ClientSound(k) /\ client[k].step = "reply"
      /\ UNCHANGED <<catalogVars, tripVars, row, lockVars, lease, admin>>
    BY DEF HoldReply, In, IInv
<1>2. CASE tripStatus[client[k].trip] = "ACTIVE"
    <2>1. Step(k, "granted") /\ UNCHANGED hold
        BY <1>2 DEF HoldReply
    <2>2. hold[k] \subseteq Rows(client[k].trip) /\ hold \in [Token -> SUBSET Seat]
        BY <1>1 DEF ClientSound, TypeOK
    <2>3. "granted" \in ClientSteps \ {"new", "booking", "confirm", "confirmed"}
        BY DEF ClientSteps
    <2> QED BY <1>1, <2>1, <2>2, <2>3, HoldStepKeeps
<1>3. CASE tripStatus[client[k].trip] # "ACTIVE"
    BY <1>1, <1>3, DiscardKeeps DEF HoldReply
<1> QED BY <1>2, <1>3

LEMMA ValidateHoldKeeps == ASSUME IInv, NEW k \in Token, ValidateHold(k) PROVE IInv'
<1>1. /\ TypeOK /\ ClientSound(k) /\ client[k].step = "granted" /\ Step(k, "validated")
      /\ UNCHANGED <<catalogVars, tripVars, row, lockVars, lease, admin, hold>>
    BY DEF ValidateHold, In, IInv
<1>2. hold[k] \subseteq Rows(client[k].trip) /\ hold \in [Token -> SUBSET Seat]
    BY <1>1 DEF ClientSound, TypeOK
<1>3. "validated" \in ClientSteps \ {"new", "booking", "confirm", "confirmed"}
    BY DEF ClientSteps
<1> QED BY <1>1, <1>2, <1>3, HoldStepKeeps

LEMMA BookingBeginKeeps == ASSUME IInv, NEW k \in Token, BookingBegin(k) PROVE IInv'
<1>1. PICK t \in Trip :
          /\ t = client[k].trip /\ TypeOK /\ ClientSound(k) /\ client[k].step = "validated"
          /\ lifecycle[t] = None
          /\ hold[k] \subseteq Rows(t)
    BY DEF BookingBegin, In, IInv, ClientSound
<1>2. UNCHANGED <<catalogVars, tripVars, row, layoutLock, rowLock, lease, admin, hold>>
    BY DEF BookingBegin
<1>3. CASE tripStatus[t] = "ACTIVE"
    <2>1. lifecycle' = [lifecycle EXCEPT ![t] = k] /\ Step(k, "booking")
        BY <1>1, <1>3 DEF BookingBegin
    <2>2. /\ client' \in [Token -> [step : ClientSteps, trip : Trip \cup {None}, seats : SUBSET Seat]]
          /\ client'[k].step = "booking"
          /\ client'[k].trip = client[k].trip /\ client'[k].seats = client[k].seats
          /\ \A j \in Token \ {k} : client'[j] = client[j]
        <3>1. "booking" \in ClientSteps
            BY DEF ClientSteps
        <3> QED BY <1>1, <2>1, <3>1, StepShape
    <2>3. TypeOK'
        BY <1>1, <1>2, <2>1, <2>2 DEF TypeOK, catalogVars, tripVars
    <2>4. OneClient(k)
        BY <1>1, <1>2, <2>1, <2>2, TokensOwnNow DEF OneClient, TokensOwn, TypeOK
    <2>5. ClientSound(k)'
        BY <1>1, <1>2, <1>3, <2>1, <2>2
           DEF ClientSound, Booked, Exists, Statuses, Rows, tripVars, TypeOK
    <2>6. ~Booked(k)'
        BY <2>2 DEF Booked
    <2> QED BY <1>2, <2>2, <2>3, <2>4, <2>5, <2>6, ClientStepKeeps
<1>4. CASE tripStatus[t] # "ACTIVE"
    <2>1. Step(k, "granted") /\ UNCHANGED lifecycle
        BY <1>1, <1>4 DEF BookingBegin
    <2>2. "granted" \in ClientSteps \ {"new", "booking", "confirm", "confirmed"}
        BY DEF ClientSteps
    <2>3. hold \in [Token -> SUBSET Seat]
        BY <1>1 DEF TypeOK
    <2> QED BY <1>1, <1>2, <2>1, <2>2, <2>3, HoldStepKeeps DEF lockVars
<1> QED BY <1>3, <1>4

\* The end of a customer's transaction frees the customer's locks and no other.
LEMMA CustomerUnlocks ==
    ASSUME IInv, NEW k \in Token, UnlockAll(k)
    PROVE  /\ layoutLock' = layoutLock
           /\ \A t \in Trip : lifecycle'[t] # k
           /\ \A t \in Trip, s \in Seat : rowLock'[t][s] # k
           /\ \A t \in Trip : lifecycle'[t] # lifecycle[t] =>
                  lifecycle[t] = k /\ lifecycle'[t] = None
           /\ \A t \in Trip, s \in Seat : rowLock'[t][s] # rowLock[t][s] =>
                  rowLock[t][s] = k /\ rowLock'[t][s] = None
<1>1. TypeOK /\ k \in Admin \cup Token
    BY DEF IInv
<1>2. /\ layoutLock' \in [Vehicle -> Admin \cup {None}]
      /\ \A v \in Vehicle :
             layoutLock'[v] = IF layoutLock[v] = k THEN None ELSE layoutLock[v]
      /\ \A t \in Trip : lifecycle'[t] = IF lifecycle[t] = k THEN None ELSE lifecycle[t]
      /\ \A t \in Trip, s \in Seat :
             rowLock'[t][s] = IF rowLock[t][s] = k THEN None ELSE rowLock[t][s]
    BY <1>1, UnlockShape
<1>3. \A v \in Vehicle : layoutLock'[v] = layoutLock[v]
    BY <1>1, <1>2 DEF TypeOK
<1>4. layoutLock' = layoutLock
    BY <1>1, <1>2, <1>3 DEF TypeOK
<1> QED BY <1>2, <1>4

LEMMA BookingCommitKeeps == ASSUME IInv, NEW k \in Token, BookingCommit(k) PROVE IInv'
<1>1. PICK outcome \in {"booked", "granted"} : Step(k, outcome)
    BY DEF BookingCommit
<1>2. /\ TypeOK /\ ClientSound(k) /\ client[k].step = "booking"
      /\ UnlockAll(k)
      /\ UNCHANGED <<catalogVars, tripVars, row, lease, admin, hold>>
    BY DEF BookingCommit, In, IInv
<1>3. /\ client' \in [Token -> [step : ClientSteps, trip : Trip \cup {None}, seats : SUBSET Seat]]
      /\ client'[k].step = outcome
      /\ client'[k].trip = client[k].trip /\ client'[k].seats = client[k].seats
      /\ \A j \in Token \ {k} : client'[j] = client[j]
    <2>1. outcome \in ClientSteps
        BY DEF ClientSteps
    <2> QED BY <1>1, <1>2, <2>1, StepShape
<1>4. TypeOK'
    BY <1>2, <1>3, UnlockShape DEF TypeOK, catalogVars, tripVars
<1>5. OneClient(k)
    BY <1>2, <1>3, CustomerUnlocks DEF OneClient
<1>6. ClientSound(k)'
    BY <1>2, <1>3 DEF ClientSound, Booked, Exists, Rows, tripVars
<1>7. lifecycle[client[k].trip] = k
    BY <1>2 DEF ClientSound
<1> QED BY <1>2, <1>3, <1>4, <1>5, <1>6, <1>7, ClientStepKeeps

LEMMA ConfirmBeginKeeps == ASSUME IInv, NEW k \in Token, ConfirmBegin(k) PROVE IInv'
<1>1. PICK t \in Trip :
          /\ t = client[k].trip /\ TypeOK /\ ClientSound(k) /\ client[k].step = "booked"
          /\ RowsFree(t, client[k].seats) /\ Sellable(t, client[k].seats)
          /\ client[k].seats \subseteq Seat
    BY DEF ConfirmBegin, In, IInv, ClientSound, TypeOK
<1>2. /\ UNCHANGED <<catalogVars, tripVars, row, lifecycle, layoutLock, lease, admin, hold>>
      /\ rowLock' = [rowLock EXCEPT ![t] =
                        [s \in Seat |-> IF s \in client[k].seats THEN k ELSE @[s]]]
      /\ Step(k, "confirm")
    BY <1>1 DEF ConfirmBegin
<1>3. /\ client' \in [Token -> [step : ClientSteps, trip : Trip \cup {None}, seats : SUBSET Seat]]
      /\ client'[k].step = "confirm"
      /\ client'[k].trip = client[k].trip /\ client'[k].seats = client[k].seats
      /\ \A j \in Token \ {k} : client'[j] = client[j]
    <2>1. "confirm" \in ClientSteps
        BY DEF ClientSteps
    <2> QED BY <1>1, <1>2, <2>1, StepShape
<1>4. /\ rowLock' \in [Trip -> [Seat -> Admin \cup Token \cup {None}]]
      /\ \A u \in Trip, s \in Seat : rowLock'[u][s] =
             IF u = t /\ s \in client[k].seats THEN k ELSE rowLock[u][s]
    BY <1>1, <1>2 DEF TypeOK
<1>5. TypeOK'
    BY <1>1, <1>2, <1>3, <1>4 DEF TypeOK, catalogVars, tripVars
<1>6. OneClient(k)
    BY <1>1, <1>2, <1>3, <1>4, TokensOwnNow DEF OneClient, TokensOwn, RowsFree
<1>7. ClientSound(k)'
    <2>1. \A s \in client[k].seats : rowLock'[t][s] = k /\ row[t][s] = "AVAILABLE"
        BY <1>1, <1>4 DEF Sellable
    <2> QED BY <1>1, <1>2, <1>3, <2>1 DEF ClientSound, Booked, Exists, Rows, tripVars
<1>8. Booked(k)
    BY <1>1 DEF Booked
<1> QED BY <1>2, <1>3, <1>5, <1>6, <1>7, <1>8, ClientStepKeeps

LEMMA ConfirmEndKeeps == ASSUME IInv, NEW k \in Token, ConfirmEnd(k) PROVE IInv'
<1>1. PICK t \in Trip :
          /\ t = client[k].trip /\ TypeOK /\ ClientSound(k) /\ client[k].step = "confirm"
          /\ client[k].seats \subseteq Seat /\ Exists(t)
          /\ \A s \in client[k].seats : rowLock[t][s] = k /\ row[t][s] = "AVAILABLE"
    BY DEF ConfirmEnd, In, IInv, ClientSound, TypeOK, Booked
<1>2. UNCHANGED <<catalogVars, tripVars, lease, admin>> /\ UnlockAll(k)
    BY DEF ConfirmEnd
<1>3. PICK step \in {"confirmed", "booked"} :
          /\ Step(k, step)
          /\ \/ /\ step = "confirmed"
                /\ row' = [row EXCEPT ![t] =
                              [s \in Seat |-> IF s \in client[k].seats THEN "BOOKED" ELSE @[s]]]
                /\ \E left \in {{}, hold[k]} : hold' = [hold EXCEPT ![k] = left]
             \/ step = "booked" /\ UNCHANGED <<row, hold>>
    BY <1>1 DEF ConfirmEnd
<1>4. /\ client' \in [Token -> [step : ClientSteps, trip : Trip \cup {None}, seats : SUBSET Seat]]
      /\ client'[k].step = step
      /\ client'[k].trip = client[k].trip /\ client'[k].seats = client[k].seats
      /\ \A j \in Token \ {k} : client'[j] = client[j]
    <2>1. step \in ClientSteps
        BY DEF ClientSteps
    <2> QED BY <1>1, <1>3, <2>1, StepShape
<1>5. CASE step = "booked"
    <2>1. UNCHANGED <<row, hold>>
        BY <1>3, <1>5
    <2>2. TypeOK'
        BY <1>1, <1>2, <1>4, <2>1, UnlockShape DEF TypeOK, catalogVars, tripVars
    <2>3. OneClient(k)
        BY <1>2, <1>4, <1>5, <2>1, CustomerUnlocks DEF OneClient
    <2>4. ClientSound(k)'
        BY <1>1, <1>2, <1>4, <1>5, <2>1 DEF ClientSound, Booked, Exists, Rows, tripVars
    <2>5. Booked(k)
        BY <1>1 DEF Booked
    <2> QED BY <1>4, <1>5, <2>1, <2>2, <2>3, <2>4, <2>5, ClientStepKeeps
<1>6. CASE step = "confirmed"
    <2>1. /\ row' \in [Trip -> [Seat -> RowStates]]
          /\ \A u \in Trip, s \in Seat : row'[u][s] =
                 IF u = t /\ s \in client[k].seats THEN "BOOKED" ELSE row[u][s]
        <3>1. row' = [row EXCEPT ![t] =
                         [s \in Seat |-> IF s \in client[k].seats THEN "BOOKED" ELSE @[s]]]
            BY <1>3, <1>6
        <3>2. row \in [Trip -> [Seat -> RowStates]] /\ "BOOKED" \in RowStates
            BY <1>1 DEF TypeOK, RowStates
        <3> QED BY <3>1, <3>2
    <2>2. /\ hold' \in [Token -> SUBSET Seat] /\ hold'[k] \subseteq hold[k]
          /\ \A j \in Token \ {k} : hold'[j] = hold[j]
        <3>1. PICK left \in {{}, hold[k]} : hold' = [hold EXCEPT ![k] = left]
            BY <1>3, <1>6
        <3>2. hold \in [Token -> SUBSET Seat]
            BY <1>1 DEF TypeOK
        <3> QED BY <3>1, <3>2
    <2>3. \A u \in Trip : Rows(u)' = Rows(u)
        BY <1>1, <2>1 DEF Rows
    <2>4. TypeOK'
        BY <1>1, <1>2, <1>4, <2>1, <2>2, UnlockShape DEF TypeOK, catalogVars, tripVars
    <2>5. SparesRpcs
        <3>1. \A u \in Trip, s \in Seat : row'[u][s] # row[u][s] => rowLock[u][s] \notin Admin
            BY <1>1, <2>1
        <3>2. /\ \A u \in Trip : lifecycle'[u] # lifecycle[u] =>
                     lifecycle[u] \notin Admin /\ lifecycle'[u] \notin Admin
              /\ \A u \in Trip, s \in Seat : rowLock'[u][s] # rowLock[u][s] =>
                     rowLock[u][s] \notin Admin /\ rowLock'[u][s] \notin Admin
              /\ layoutLock' = layoutLock
            BY <1>2, CustomerUnlocks
        <3>3. \A j \in Token : hold'[j] \subseteq hold[j] /\ client'[j].trip = client[j].trip
            BY <1>4, <2>2
        <3>4. \A j \in Token : Booked(j)' => Booked(j)
            BY <1>1, <1>4 DEF Booked
        <3> QED BY <1>2, <2>3, <3>1, <3>2, <3>3, <3>4 DEF SparesRpcs
    <2>6. TokensOwn'
        BY <1>2, <1>4, CustomerUnlocks, TokensOwnNow DEF TokensOwn
    <2>7. Apart'
        <3>1. ASSUME NEW j \in Token \ {k}, client[j].step = "confirmed", client[j].trip = t
              PROVE  client[j].seats \cap client[k].seats = {}
            BY <1>1, <3>1 DEF IInv, ClientSound
        <3> QED BY <1>1, <1>2, <1>4, <3>1 DEF IInv, Apart, In
    <2>8. ASSUME NEW j \in Token PROVE ClientSound(j)'
        <3>1. CASE j = k
            BY <1>1, <1>2, <1>4, <1>6, <2>1, <2>2, <2>3, <3>1
               DEF ClientSound, Booked, Exists, tripVars
        <3>2. CASE j # k
            <4>1. ClientSound(j) /\ client[j].seats \subseteq Seat
                BY <1>1 DEF IInv, TypeOK
            <4>2. client'[j] = client[j] /\ hold'[j] = hold[j]
                BY <1>4, <2>2, <3>2
            <4>3. /\ \A u \in Trip : lifecycle[u] = j => lifecycle'[u] = j
                  /\ \A u \in Trip, s \in Seat : rowLock[u][s] = j =>
                         rowLock'[u][s] = j /\ row'[u][s] = row[u][s]
                BY <1>1, <1>2, <2>1, <3>2, CustomerUnlocks
            <4>4. \A u \in Trip, s \in Seat : row[u][s] = "BOOKED" => row'[u][s] = "BOOKED"
                BY <2>1
            <4> QED BY <1>2, <2>3, <4>1, <4>2, <4>3, <4>4
                    DEF ClientSound, Booked, Exists, tripVars
        <3> QED BY <3>1, <3>2
    <2> QED BY <2>4, <2>5, <2>6, <2>7, <2>8, CustomerKeeps
<1> QED BY <1>5, <1>6

LEMMA ReleaseBookedSeatsKeeps ==
    ASSUME IInv, NEW k \in Token, ReleaseBookedSeats(k)
    PROVE  IInv'
<1>1. PICK t \in Trip :
          /\ t = client[k].trip /\ TypeOK /\ ClientSound(k) /\ client[k].step = "confirmed"
          /\ client[k].seats \subseteq Seat /\ RowsFree(t, client[k].seats)
          /\ \A s \in client[k].seats : row[t][s] = "BOOKED"
    BY DEF ReleaseBookedSeats, In, IInv, ClientSound, TypeOK
<1>2. /\ UNCHANGED <<catalogVars, tripVars, lockVars, lease, admin, hold>>
      /\ Step(k, "cancelled")
      /\ row' = [row EXCEPT ![t] =
                    [s \in Seat |-> IF s \in client[k].seats THEN "AVAILABLE" ELSE @[s]]]
    BY <1>1 DEF ReleaseBookedSeats
<1>3. /\ client' \in [Token -> [step : ClientSteps, trip : Trip \cup {None}, seats : SUBSET Seat]]
      /\ client'[k].step = "cancelled"
      /\ client'[k].trip = client[k].trip /\ client'[k].seats = client[k].seats
      /\ \A j \in Token \ {k} : client'[j] = client[j]
    <2>1. "cancelled" \in ClientSteps
        BY DEF ClientSteps
    <2> QED BY <1>1, <1>2, <2>1, StepShape
<1>4. /\ row' \in [Trip -> [Seat -> RowStates]]
      /\ \A u \in Trip, s \in Seat : row'[u][s] =
             IF u = t /\ s \in client[k].seats THEN "AVAILABLE" ELSE row[u][s]
    BY <1>1, <1>2 DEF TypeOK, RowStates
<1>5. \A u \in Trip : Rows(u)' = Rows(u)
    BY <1>1, <1>4 DEF Rows
<1>6. TypeOK'
    BY <1>1, <1>2, <1>3, <1>4 DEF TypeOK, catalogVars, tripVars, lockVars
<1>7. SparesRpcs
    <2>1. \A u \in Trip, s \in Seat : row'[u][s] # row[u][s] => rowLock[u][s] \notin Admin
        BY <1>1, <1>4 DEF RowsFree
    <2>2. \A j \in Token : client'[j].trip = client[j].trip /\ (Booked(j)' => Booked(j))
        BY <1>1, <1>3 DEF Booked
    <2> QED BY <1>2, <1>5, <2>1, <2>2 DEF SparesRpcs, lockVars
<1>8. TokensOwn' /\ Apart'
    BY <1>1, <1>2, <1>3, TokensOwnNow DEF TokensOwn, IInv, Apart, In, lockVars
<1>9. ASSUME NEW j \in Token PROVE ClientSound(j)'
    <2>1. CASE j = k
        BY <1>1, <1>2, <1>3, <2>1 DEF ClientSound, Booked, Exists, tripVars
    <2>2. CASE j # k
        <3>1. ClientSound(j) /\ client[j].seats \subseteq Seat /\ client'[j] = client[j]
            BY <1>1, <1>3, <2>2 DEF IInv, TypeOK
        <3>2. \A s \in client[j].seats :
                  /\ row[client[j].trip][s] = "AVAILABLE" => row'[client[j].trip][s] = "AVAILABLE"
                  /\ client[j].step = "confirmed" =>
                         row'[client[j].trip][s] = row[client[j].trip][s]
            <4>1. client[j].step = "confirmed" /\ client[j].trip = t =>
                      client[j].seats \cap client[k].seats = {}
                BY <1>1, <2>2 DEF IInv, Apart, In
            <4>2. client[j].step \in {"confirm", "confirmed"} => client[j].trip \in Trip
                BY <3>1 DEF ClientSound
            <4>3. client[j].trip \in Trip \cup {None}
                BY <1>1 DEF TypeOK
            <4> QED BY <1>1, <1>2, <1>4, <3>1, <4>1, <4>2, <4>3 DEF TypeOK
        <3> QED BY <1>2, <1>5, <3>1, <3>2 DEF ClientSound, Booked, Exists, tripVars, lockVars
    <2> QED BY <2>1, <2>2
<1> QED BY <1>6, <1>7, <1>8, <1>9, CustomerKeeps

------------------------------------------------------------------------------
(* Calls about a trip *)

LEMMA BlockSeatsKeeps ==
    ASSUME IInv, NEW t \in Trip, NEW S \in SUBSET Seat, BlockSeats(t, S)
    PROVE  IInv'
<1>1. /\ TypeOK /\ RowsFree(t, S) /\ \A s \in S : row[t][s] \in {"AVAILABLE", "BLOCKED"}
      /\ UNCHANGED <<catalogVars, tripVars, lockVars, lease, admin, client>>
      /\ row' = [row EXCEPT ![t] = [s \in Seat |-> IF s \in S THEN "BLOCKED" ELSE @[s]]]
    BY DEF BlockSeats, IInv
<1>2. /\ row' \in [Trip -> [Seat -> RowStates]]
      /\ \A u \in Trip, s \in Seat : row'[u][s] =
             IF u = t /\ s \in S THEN "BLOCKED" ELSE row[u][s]
    BY <1>1 DEF TypeOK, RowStates
<1>3. hold' \in [Token -> SUBSET Seat] /\ \A k \in Token : hold'[k] \subseteq hold[k]
    <2>1. hold \in [Token -> SUBSET Seat]
        BY <1>1 DEF TypeOK
    <2>2. CASE hold' = [k \in Token |-> IF client[k].trip = t THEN hold[k] \ S ELSE hold[k]]
        BY <2>1, <2>2
    <2> QED BY <2>1, <2>2 DEF BlockSeats
<1>4. \A u \in Trip : Rows(u)' = Rows(u)
    BY <1>1, <1>2 DEF Rows
<1>5. TypeOK'
    BY <1>1, <1>2, <1>3 DEF TypeOK, catalogVars, tripVars, lockVars
<1>6. SparesRpcs
    <2>1. \A u \in Trip, s \in Seat : row'[u][s] # row[u][s] => rowLock[u][s] \notin Admin
        BY <1>1, <1>2 DEF RowsFree
    <2>2. \A j \in Token : Booked(j)' => Booked(j)
        BY <1>1 DEF Booked
    <2> QED BY <1>1, <1>3, <1>4, <2>1, <2>2 DEF SparesRpcs, lockVars
<1>7. TokensOwn' /\ Apart'
    BY <1>1, TokensOwnNow DEF TokensOwn, IInv, Apart, In, lockVars
<1>8. ASSUME NEW k \in Token PROVE ClientSound(k)'
    <2>1. ClientSound(k) /\ client[k].seats \subseteq Seat
        BY <1>1 DEF IInv, TypeOK
    <2>2. client[k].step = "confirm" => \A s \in client[k].seats :
              row'[client[k].trip][s] = row[client[k].trip][s]
        BY <1>1, <1>2, <2>1 DEF ClientSound, RowsFree
    <2>3. client[k].step = "confirmed" => \A s \in client[k].seats :
              row'[client[k].trip][s] = row[client[k].trip][s]
        BY <1>1, <1>2, <2>1 DEF ClientSound
    <2> QED BY <1>1, <1>3, <1>4, <2>1, <2>2, <2>3
            DEF ClientSound, Booked, Exists, tripVars, lockVars
<1> QED BY <1>5, <1>6, <1>7, <1>8, CustomerKeeps

LEMMA UpdateTripStatusKeeps ==
    ASSUME IInv, NEW t \in Trip, NEW st \in Statuses, UpdateTripStatus(t, st)
    PROVE  IInv'
<1>1. /\ TypeOK /\ lifecycle[t] = None /\ Exists(t)
      /\ tripStatus' = [tripStatus EXCEPT ![t] = st]
      /\ UNCHANGED <<catalogVars, tripVehicle, row, lockVars, lease, admin, hold, client>>
    BY DEF UpdateTripStatus, IInv, Allowed, Exists, Statuses
<1>2. TypeOK'
    BY <1>1 DEF TypeOK, catalogVars, lockVars
<1>3. \A u \in Trip : /\ Exists(u)' <=> Exists(u)
                      /\ tripStatus'[u] = "NEW" <=> tripStatus[u] = "NEW"
    BY <1>1 DEF Exists, TypeOK, Statuses
<1>4. LocksOwned' /\ SeatCountDerived' /\ Apart'
    BY <1>1 DEF IInv, LocksOwned, SeatCountDerived, Apart, In, catalogVars, lockVars
<1>5. ASSUME NEW u \in Trip PROVE TripSound(u)'
    <2>1. Rows(u)' = Rows(u)
        BY <1>1 DEF Rows
    <2> QED BY <1>1, <1>3, <2>1 DEF IInv, TripSound, catalogVars
<1>6. ASSUME NEW a \in Admin PROVE RpcSound(a)'
    <2>1. RequestFits(admin[a]) /\ LocksHeld(a) /\ Protected(a)
        BY DEF IInv, RpcSound
    <2>2. RequestFits(admin[a])' /\ LocksHeld(a)'
        BY <1>1, <2>1 DEF RequestFits, LocksHeld, Rows, lockVars
    <2>3. admin[a].op \in {"create", "delete", "vehicle"} => admin[a].trip \in Trip
        BY <2>1 DEF RequestFits
    <2>4. Protected(a)'
        BY <1>1, <1>3, <2>1, <2>3 DEF Protected, Sellable, Rows, Referenced, Booked
    <2> QED BY <2>2, <2>4 DEF RpcSound
<1>7. ASSUME NEW k \in Token PROVE ClientSound(k)'
    <2>1. ClientSound(k) /\ (Booked(k) => client[k].step # "new")
        BY DEF IInv, Booked
    <2> QED BY <1>1, <1>3, <2>1 DEF ClientSound, Booked, Rows, lockVars
<1> QED BY <1>2, <1>4, <1>5, <1>6, <1>7 DEF IInv

\* Here the bet on time is used: no lease ends under a call about to commit.
LEMMA LeaseExpireKeeps == ASSUME IInv, NEW t \in Trip, LeaseExpire(t) PROVE IInv'
<1>1. /\ TypeOK /\ (lease[t] \in Admin => admin[lease[t]].step # "commit")
      /\ lease' = [lease EXCEPT ![t] = None]
      /\ UNCHANGED <<catalogVars, tripVars, row, lockVars, admin, hold, client>>
    BY DEF LeaseExpire, At, IInv
<1>2. TypeOK'
    BY <1>1 DEF TypeOK, catalogVars, tripVars, lockVars
<1>3. LocksOwned'
    BY <1>1 DEF IInv, LocksOwned, In, TypeOK, lockVars
<1>4. SeatCountDerived' /\ Apart' /\ \A u \in Trip : TripSound(u)'
    BY <1>1 DEF IInv, SeatCountDerived, Apart, In, TripSound, Exists, Rows, catalogVars, tripVars
<1>5. \A k \in Token : ClientSound(k)'
    BY <1>1 DEF IInv, ClientSound, Booked, Exists, Rows, tripVars, lockVars
<1>6. ASSUME NEW a \in Admin PROVE RpcSound(a)'
    <2>1. RequestFits(admin[a]) /\ LocksHeld(a) /\ Protected(a)
        BY DEF IInv, RpcSound
    <2>2. \A u \in Trip : /\ lease'[u] = a => lease[u] = a
                          /\ admin[a].step = "commit" /\ lease[u] = a => lease'[u] = a
        BY <1>1 DEF TypeOK
    <2>3. admin[a].step = "commit" => admin[a].trip \in Trip
        BY OperationOf
    <2>4. RequestFits(admin[a])' /\ LocksHeld(a)'
        BY <1>1, <2>1, <2>2, <2>3 DEF RequestFits, LocksHeld, Rows, lockVars
    <2>5. Protected(a)'
        BY <1>1, <2>1, <2>2 DEF Protected, Exists, Sellable, Rows, Referenced, Booked, tripVars
    <2> QED BY <2>4, <2>5 DEF RpcSound
<1> QED BY <1>2, <1>3, <1>4, <1>5, <1>6 DEF IInv

LEMMA CrashKeeps == ASSUME IInv, Crash PROVE IInv'
<1>1. /\ TypeOK /\ admin' = [a \in Admin |-> NoRpc]
      /\ UNCHANGED <<catalogVars, tripVars, row, hold, client>>
    BY DEF Crash, IInv
<1>2. /\ \A t \in Trip : lifecycle'[t] =
             IF lifecycle[t] \in Admin THEN None ELSE lifecycle[t]
      /\ \A v \in Vehicle : layoutLock'[v] = None
      /\ \A t \in Trip, s \in Seat : rowLock'[t][s] =
             IF rowLock[t][s] \in Admin THEN None ELSE rowLock[t][s]
      /\ \A t \in Trip : lease'[t] = IF lease[t] \in Admin THEN Orphan ELSE lease[t]
    BY DEF Crash
<1>3. TypeOK'
    <2>1. /\ lifecycle' \in [Trip -> Admin \cup Token \cup {None}]
          /\ layoutLock' \in [Vehicle -> Admin \cup {None}]
          /\ rowLock' \in [Trip -> [Seat -> Admin \cup Token \cup {None}]]
          /\ lease' \in [Trip -> Admin \cup {Orphan, None}]
        BY <1>1 DEF Crash, TypeOK
    <2> QED BY <1>1, <2>1, NoRpcType DEF TypeOK, catalogVars, tripVars
<1>4. LocksOwned'
    <2>1. \A t \in Trip : /\ lifecycle'[t] \notin Admin
                         /\ lifecycle'[t] \in Token => lifecycle'[t] = lifecycle[t]
        BY <1>2
    <2>2. \A t \in Trip, s \in Seat :
              /\ rowLock'[t][s] \notin Admin
              /\ rowLock'[t][s] \in Token => rowLock'[t][s] = rowLock[t][s]
        BY <1>2
    <2>3. \A t \in Trip : lease'[t] \notin Admin
        BY <1>2
    <2>4. TokensOwn
        BY TokensOwnNow
    <2> QED BY <1>1, <1>2, <2>1, <2>2, <2>3, <2>4 DEF TokensOwn, LocksOwned, In
<1>5. SeatCountDerived' /\ Apart' /\ \A t \in Trip : TripSound(t)'
    BY <1>1 DEF IInv, SeatCountDerived, Apart, In, TripSound, Exists, Rows, NoRpc,
                catalogVars, tripVars
<1>6. ASSUME NEW k \in Token PROVE ClientSound(k)'
    <2>1. ClientSound(k) /\ client[k].seats \subseteq Seat
        BY <1>1 DEF IInv, TypeOK
    <2> QED BY <1>1, <1>2, <2>1 DEF ClientSound, Booked, Exists, Rows, tripVars
<1>7. \A a \in Admin : RpcSound(a)'
    BY <1>1, <1>2 DEF RpcSound, RequestFits, LocksHeld, Protected, NoRpc, InTransaction,
                      RowsInHand
<1> QED BY <1>3, <1>4, <1>5, <1>6, <1>7 DEF IInv

------------------------------------------------------------------------------
(* Every step *)

LEMMA AdminKeeps ==
    ASSUME IInv, NEW a \in Admin, AdminStep(a) \/ AdminCall(a) \/ Abort(a)
    PROVE  IInv'
<1>1. CASE AdminStep(a)
    BY <1>1, ConfigureCommitKeeps, CreateTripCommitKeeps, AcquireLeaseKeeps, ScanHoldsKeeps,
       UpdateTripBeginKeeps, LockLayoutKeeps, LockRowsKeeps, DeleteTripBeginKeeps,
       RenewLeaseKeeps, CommitVehicleKeeps, CommitDeleteKeeps, ReleaseLeaseKeeps
       DEF AdminStep
<1>2. CASE AdminCall(a)
    BY <1>2, ConfigureBeginKeeps, CreateTripBeginKeeps, UpdateTripStartKeeps,
       DeleteTripStartKeeps DEF AdminCall
<1>3. CASE Abort(a)
    BY <1>3, AbortKeeps
<1> QED BY <1>1, <1>2, <1>3

LEMMA CustomerStepKeeps == ASSUME IInv, NEW k \in Token, CustomerStep(k) PROVE IInv'
BY HoldStartKeeps, HoldCreateKeeps, HoldRecheckKeeps, HoldReplyKeeps, HoldExpireKeeps,
   ValidateHoldKeeps, BookingBeginKeeps, BookingCommitKeeps, ConfirmBeginKeeps,
   ConfirmEndKeeps, ReleaseBookedSeatsKeeps DEF CustomerStep

LEMMA StutterKeeps == ASSUME IInv, UNCHANGED vars PROVE IInv'
<1>1. TypeOK' /\ LocksOwned' /\ SeatCountDerived' /\ Apart'
    BY DEF IInv, vars, catalogVars, tripVars, lockVars, TypeOK, LocksOwned, SeatCountDerived,
           Apart, In
<1>2. \A a \in Admin : RpcSound(a)'
    BY DEF IInv, vars, catalogVars, tripVars, lockVars, RpcSound, RequestFits, LocksHeld,
           Protected, Rows, Exists, Sellable, Referenced, Booked
<1>3. /\ \A t \in Trip : TripSound(t)'
      /\ \A k \in Token : ClientSound(k)'
    BY DEF IInv, vars, catalogVars, tripVars, lockVars, TripSound, ClientSound, Rows, Exists,
           Booked
<1> QED BY <1>1, <1>2, <1>3 DEF IInv

LEMMA NextKeeps == IInv /\ [Next]_vars => IInv'
<1> SUFFICES ASSUME IInv, [Next]_vars PROVE IInv'
    OBVIOUS
<1>1. ASSUME NEW a \in Admin, AdminStep(a) \/ AdminCall(a) \/ Abort(a) PROVE IInv'
    BY <1>1, AdminKeeps
<1>2. ASSUME NEW v \in Vehicle, VehicleCall(v) PROVE IInv'
    BY <1>2, VehicleCallKeeps
<1>3. ASSUME NEW k \in Token, CustomerStep(k) PROVE IInv'
    BY <1>3, CustomerStepKeeps
<1>4. ASSUME NEW t \in Trip, TripCall(t) PROVE IInv'
    BY <1>4, UpdateTripStatusKeeps, BlockSeatsKeeps, LeaseExpireKeeps DEF TripCall
<1>5. CASE Crash
    BY <1>5, CrashKeeps
<1>6. CASE UNCHANGED vars
    BY <1>6, StutterKeeps
<1> QED BY <1>1, <1>2, <1>3, <1>4, <1>5, <1>6 DEF Next

\* Who assigns a vehicle to a trip, and the rows it finds there
LEMMA OnlyCommitsAssign ==
    ASSUME [Next]_vars, tripVehicle' # tripVehicle
    PROVE  \E a \in Admin : CreateTripCommit(a) \/ CommitVehicle(a) \/ CommitDelete(a)
<1>1. ASSUME NEW a \in Admin, AdminStep(a) \/ AdminCall(a) \/ Abort(a)
      PROVE  CreateTripCommit(a) \/ CommitVehicle(a) \/ CommitDelete(a)
    <2>1. CASE AdminStep(a)
        BY <2>1 DEF AdminStep, ConfigureCommit, AcquireLease, ScanHolds, UpdateTripBegin,
            LockLayout, LockRows, DeleteTripBegin, DeleteTripRows, RenewLease, ReleaseLease,
            tripVars
    <2>2. CASE AdminCall(a) \/ Abort(a)
        BY <2>2 DEF AdminCall, ConfigureBegin, CreateTripBegin, UpdateTripStart,
            DeleteTripStart, Abort, tripVars
    <2> QED BY <1>1, <2>1, <2>2
<1>2. ASSUME NEW v \in Vehicle, VehicleCall(v) PROVE FALSE
    BY <1>2 DEF VehicleCall, CreateVehicle, UpdateVehicle, DeleteVehicle, tripVars
<1>3. ASSUME NEW k \in Token, CustomerStep(k) PROVE FALSE
    BY <1>3 DEF CustomerStep, HoldStart, HoldCreate, HoldRecheck, HoldReply, HoldExpire,
        ValidateHold, BookingBegin, BookingCommit, ConfirmBegin, ConfirmEnd,
        ReleaseBookedSeats, tripVars
<1>4. ASSUME NEW t \in Trip, TripCall(t) PROVE FALSE
    BY <1>4 DEF TripCall, UpdateTripStatus, BlockSeats, LeaseExpire, tripVars
<1>5. CASE Crash \/ UNCHANGED vars
    BY <1>5 DEF Crash, vars, tripVars
<1> QED BY <1>1, <1>2, <1>3, <1>4, <1>5 DEF Next

LEMMA CreatedRows ==
    ASSUME IInv, NEW a \in Admin, CreateTripCommit(a), NEW t \in Trip,
           tripVehicle'[t] # tripVehicle[t]
    PROVE  \A s \in Seat : row[t][s] = "none"
<1>1. t = admin[a].trip /\ admin[a].op = "create"
    BY DEF CreateTripCommit, At, IInv, TypeOK, tripVars, RpcSound, RequestFits
<1>2. tripStatus[t] = "NEW"
    BY <1>1 DEF IInv, RpcSound, Protected
<1>3. Rows(t) = {}
    BY <1>2 DEF IInv, TripSound, Exists, Statuses
<1> QED BY <1>3 DEF Rows

LEMMA ReplacedRows ==
    ASSUME IInv, NEW a \in Admin, CommitVehicle(a), NEW t \in Trip,
           tripVehicle'[t] # tripVehicle[t]
    PROVE  \A s \in Seat : row[t][s] \in {"none", "AVAILABLE"}
<1>1. t = admin[a].trip /\ admin[a].op = "vehicle" /\ admin[a].step = "commit"
    BY DEF CommitVehicle, At, IInv, TypeOK
<1>2. Sellable(t, Rows(t))
    BY <1>1 DEF IInv, RpcSound, Protected, RowsInHand
<1> QED BY <1>2 DEF Sellable, Rows

THEOREM Invariant == Spec => []IInv
<1>1. Init => IInv
    BY InitInv
<1>2. IInv /\ [Next]_vars => IInv'
    BY NextKeeps
<1> QED BY <1>1, <1>2, PTL DEF Spec

\* What a trip sells is what its vehicle has, and seat counts are those of the
\* layouts, although createTrip, updateTrip and configureVehicleSeats write the
\* tables in transactions of their own.
THEOREM LayoutsAgree == Spec => []LayoutAgrees
<1>1. IInv => LayoutAgrees
    BY InvImplies
<1> QED BY <1>1, Invariant, PTL

\* A booking keeps its trip and, once confirmed, its seats: deleteTrip and the
\* change of vehicle never overtake createBooking or confirmTripSeats.
THEOREM BookingsKept == Spec => []BookingsStand
<1>1. IInv => BookingsStand
    BY InvImplies
<1> QED BY <1>1, Invariant, PTL

\* A granted hold names rows of its trip, for any number of concurrent holdSeats
\* and withTripSeatMaintenance calls, lost leases and crashes.
THEOREM HoldsKept == Spec => []GrantedHoldStands
<1>1. IInv => GrantedHoldStands
    BY InvImplies
<1> QED BY <1>1, Invariant, PTL

\* No path through the admin RPCs and the booking transactions leaks a lock or
\* leaves a lease to a call that is over.
THEOREM LocksAccounted == Spec => []LocksOwned
<1>1. IInv => LocksOwned
    BY InvImplies
<1> QED BY <1>1, Invariant, PTL

\* A change of vehicle meets no booked and no blocked seat: the rows it checked
\* under its locks are the rows its COMMIT replaces.
THEOREM BlockedSeatsSurvive == Spec => BlockedSurvivesVehicleChange
<1> DEFINE Kept(t) == tripVehicle'[t] # tripVehicle[t] /\ tripStatus'[t] # "DELETED" =>
                          \A s \in Seat : row[t][s] \in {"none", "AVAILABLE"}
<1>1. ASSUME IInv, [Next]_vars PROVE [\A t \in Trip : Kept(t)]_vars
    <2>1. ASSUME NEW t \in Trip, tripVehicle'[t] # tripVehicle[t], tripStatus'[t] # "DELETED"
          PROVE  \A s \in Seat : row[t][s] \in {"none", "AVAILABLE"}
        <3>1. PICK a \in Admin : CreateTripCommit(a) \/ CommitVehicle(a) \/ CommitDelete(a)
            BY <1>1, <2>1, OnlyCommitsAssign
        <3>2. CASE CreateTripCommit(a)
            BY <1>1, <2>1, <3>2, CreatedRows
        <3>3. CASE CommitVehicle(a)
            BY <1>1, <2>1, <3>3, ReplacedRows
        <3>4. CASE CommitDelete(a)
            BY <1>1, <2>1, <3>4 DEF CommitDelete, IInv, TypeOK
        <3> QED BY <3>1, <3>2, <3>3, <3>4
    <2> QED BY <2>1
<1>2. IInv /\ [Next]_vars => [\A t \in Trip : Kept(t)]_vars
    BY <1>1
<1> QED BY <1>2, Invariant, PTL DEF Spec, BlockedSurvivesVehicleChange
==============================================================================
