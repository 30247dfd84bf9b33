--------------------------- MODULE ConnectionPools ----------------------------
(***************************************************************************)
(* What Booking Service and Trip Service wait for: the connections of      *)
(* their two pools (db.js), the advisory lock of a trip's lifecycle, and   *)
(* each other.  createBooking and checkInPassenger call GetTripDetail with *)
(* the lock and a connection in hand; Trip Service answers on a connection *)
(* of its own, and its edits wait for the lock with one in hand.  The      *)
(* dispatcher of the outbox keeps a connection while it publishes.         *)
(*                                                                         *)
(* Calls of one trip, each made once; what they read and write is left     *)
(* out.                                                                    *)
(***************************************************************************)
EXTENDS Naturals, FiniteSets

CONSTANTS
    Booker,       \* calls of createBooking and checkInPassenger
    Editor,       \* calls of updateTripStatus, updateTrip and deleteTrip
    Dispatcher,   \* runs of dispatchOutboxEvents
    BookingMax, TripMax,   \* max of the two pools
    Nobody

Caller == Booker \cup Editor \cup Dispatcher

ASSUME PoolsAreTyped == BookingMax \in Nat \ {0} /\ TripMax \in Nat \ {0} /\ Nobody \notin Caller

ASSUME CallersDiffer ==
    Booker \cap Editor = {} /\ Booker \cap Dispatcher = {} /\ Editor \cap Dispatcher = {}

VARIABLES
    step,     \* where each call is
    detail,   \* the handler of GetTripDetail for each Booker
    lock,     \* pg_advisory_xact_lock 'trip-lifecycle'
    free      \* connections left in each pool

poolsVars == <<step, detail, lock, free>>

Service == {"booking", "trip"}

\* The queries of GetTripDetail, each on a connection of its own
Querying == {"reads trip", "reads stops"}

PoolsTypeOK ==
    /\ step \in [Caller -> {"new", "connect", "lock", "ask", "work", "render",
                            "reply", "reread", "over"}]
    /\ detail \in [Booker -> Querying \cup {"none", "trip", "stops", "answer", "error"}]
    /\ lock \in Caller \cup {Nobody}
    /\ free \in [Service -> 0..(BookingMax + TripMax)]

PoolsInit ==
    /\ step = [c \in Caller |-> "new"]
    /\ detail = [b \in Booker |-> "none"]
    /\ lock = Nobody
    /\ free = [s \in Service |-> IF s = "booking" THEN BookingMax ELSE TripMax]

Of(c) == IF c \in Editor THEN "trip" ELSE "booking"

To(c, next) == step' = [step EXCEPT ![c] = next]

Take(s) == free[s] > 0 /\ free' = [free EXCEPT ![s] = @ - 1]

Give(s) == free' = [free EXCEPT ![s] = @ + 1]

------------------------------------------------------------------------------
(* Transactions *)

Begin(c) ==
    /\ step[c] = "new"
    /\ To(c, "connect")
    /\ UNCHANGED <<detail, lock, free>>

Connected(c) ==
    /\ step[c] = "connect"
    /\ Take(Of(c))
    /\ To(c, IF c \in Dispatcher THEN "work" ELSE "lock")
    /\ UNCHANGED <<detail, lock>>

\* connectionTimeoutMillis
ConnectTimeout(c) ==
    /\ step[c] = "connect"
    /\ free[Of(c)] = 0
    /\ To(c, "over")
    /\ UNCHANGED <<detail, lock, free>>

\* Nobody else waits with a timer here but deleteTrip and updateTrip.
TakeLock(c) ==
    /\ step[c] = "lock"
    /\ lock = Nobody
    /\ lock' = c
    /\ IF c \in Booker
       THEN To(c, "ask") /\ detail' = [detail EXCEPT ![c] = "trip"]
       ELSE To(c, "work") /\ UNCHANGED detail
    /\ UNCHANGED free

\* Mutant form: the lock is taken for the session, and COMMIT or ROLLBACK do not end it.
EndedLocked(c) ==
    /\ Give(Of(c))
    /\ To(c, "over")
    /\ UNCHANGED lock

\* Mutant form: an error forgets the connection.
EndedLeaking(c) ==
    /\ UNCHANGED free
    /\ To(c, "over")
    /\ lock' = IF lock = c THEN Nobody ELSE lock

\* COMMIT or ROLLBACK, and the finally that releases the client
Ended(c) ==
    /\ Give(Of(c))
    /\ To(c, "over")
    /\ lock' = IF lock = c THEN Nobody ELSE lock

\* The statement_timeout of deleteTrip and updateTrip
LockTimeout(e) ==
    /\ step[e] = "lock"
    /\ Ended(e)
    /\ UNCHANGED detail

\* The statements of the transaction, or the publishing, come to an end: it
\* commits or fails.  checkInPassenger asks for the trip again, in order to render
\* the tickets, and updateTripStatus and updateTrip the trip for their reply.
Work(c) ==
    /\ step[c] = "work"
    /\ \/ Ended(c) /\ UNCHANGED detail
       \/ /\ c \in Booker
          /\ detail[c] = "none"
          /\ To(c, "render")
          /\ detail' = [detail EXCEPT ![c] = "trip"]
          /\ UNCHANGED <<lock, free>>
       \/ /\ c \in Editor
          /\ Give(Of(c))
          /\ lock' = Nobody
          /\ To(c, "reply")
          /\ UNCHANGED detail

\* getTrip: a query of its own, on another connection
ReadBack(e) ==
    /\ step[e] = "reply"
    /\ Take("trip")
    /\ To(e, "reread")
    /\ UNCHANGED <<detail, lock>>

ReadBackTimeout(e) ==
    /\ step[e] = "reply"
    /\ free["trip"] = 0
    /\ To(e, "over")
    /\ UNCHANGED <<detail, lock, free>>

Reply(e) ==
    /\ step[e] = "reread"
    /\ Give("trip")
    /\ To(e, "over")
    /\ UNCHANGED <<detail, lock>>

------------------------------------------------------------------------------
(* GetTripDetail *)

Waits(b) == detail[b] \in {"trip", "stops"}

DetailConnected(b) ==
    /\ Waits(b)
    /\ Take("trip")
    /\ detail' = [detail EXCEPT ![b] = IF @ = "trip" THEN "reads trip" ELSE "reads stops"]
    /\ UNCHANGED <<step, lock>>

DetailTimeout(b) ==
    /\ Waits(b)
    /\ free["trip"] = 0
    /\ detail' = [detail EXCEPT ![b] = "error"]
    /\ UNCHANGED <<step, lock, free>>

DetailRead(b) ==
    /\ detail[b] \in Querying
    /\ Give("trip")
    /\ \E next \in {IF detail[b] = "reads trip" THEN "stops" ELSE "answer", "error"} :
           detail' = [detail EXCEPT ![b] = next]
    /\ UNCHANGED <<step, lock>>

Asking(b) == step[b] \in {"ask", "render"}

\* The snapshot decides, the rendering does without.
DetailAnswered(b) ==
    /\ Asking(b)
    /\ detail[b] \in {"answer", "error"}
    /\ detail' = [detail EXCEPT ![b] = "none"]
    /\ IF step[b] = "ask" /\ detail[b] = "answer"
       THEN To(b, "work") /\ UNCHANGED <<lock, free>>
       ELSE Ended(b)

\* TRIP_SERVICE_TIMEOUT_MS; the handler goes on.
DetailDeadline(b) ==
    /\ Asking(b)
    /\ Ended(b)
    /\ UNCHANGED detail

------------------------------------------------------------------------------
DetailStep(b) == DetailConnected(b) \/ DetailTimeout(b) \/ DetailRead(b)

\* What comes by itself: statements, publishing, replies, timers and deadlines
Progress ==
    \/ \E c \in Caller : Begin(c) \/ Connected(c) \/ ConnectTimeout(c) \/ TakeLock(c)
                        \/ Work(c)
    \/ \E e \in Editor : ReadBack(e) \/ ReadBackTimeout(e) \/ Reply(e)
    \/ \E b \in Booker : DetailAnswered(b) \/ DetailDeadline(b) \/ DetailStep(b)

PoolsNext == Progress \/ \E e \in Editor : LockTimeout(e)

\* As no call goes round in a circle, it is enough that not everything stands still
\* while something could go on.  Of the waits for the lock only deleteTrip's and
\* updateTrip's end by themselves, and so that is not counted on.
PoolsFairness == WF_poolsVars(Progress)

PoolsSpec == PoolsInit /\ [][PoolsNext]_poolsVars /\ PoolsFairness

------------------------------------------------------------------------------
(* Properties *)

Holds(c) == step[c] \in {"lock", "ask", "work", "render", "reread"}

\* Every connection that is not in its pool belongs to a running transaction or
\* handler, which will give it back: no error, deadline or timeout loses one.
PoolsAccounted ==
    /\ free["booking"] + Cardinality({c \in Booker \cup Dispatcher : Holds(c)}) = BookingMax
    /\ free["trip"] + Cardinality({c \in Editor : Holds(c)})
                    + Cardinality({b \in Booker : detail[b] \in Querying}) = TripMax

\* Bookings that hold the lock and wait for Trip Service, whose connections all wait
\* for the lock, do not wait for ever: every call comes to its end.
CallsEnd == <>(\A c \in Caller : step[c] = "over")
==============================================================================
