--------------------------- MODULE TripSearchProofs ---------------------------
(***************************************************************************)
(* Proofs about TripSearch, for any number of trips, seats, calls in       *)
(* flight and edits between their reads.                                   *)
(*                                                                         *)
(* The invariant says what a call knows at each of its steps.  An entry of *)
(* the cache, or a list of candidates that may become one, holds every     *)
(* trip of its day that nobody edited, and no trip of another day but      *)
(* those rescheduled since it was read.  The trips a call has kept since   *)
(* it read them were on sale during the call.  And between the rows and    *)
(* the holds, the count differs from the seat map by what was sold or      *)
(* given back meanwhile.                                                   *)
(***************************************************************************)
EXTENDS TripSearch, FiniteSetTheorems, TLAPS

\* Nothing nobody edited is missing from T.
Complete(T, c) == \A t \in Trip \ edited : date[t] = c.date => t \in T

\* T has no trip of another day, but for those that were moved.
Dated(T, M, c) == \A t \in T : date[t] = c.date \/ t \in M

\* A call that may still write the cache.
CallOK(q) ==
    /\ Dated(q.candidates, q.moved, q.for)
    /\ q.step = "refresh" => q.hit /\ Complete(q.candidates, q.for)
    /\ (q.step \in {"scan", "nearby", "store"} /\ ~q.hit) => Complete(q.candidates, q.for)
    /\ q.step = "store" => ~q.hit

CacheInv ==
    \A c \in Criteria : cache[c] # NoEntry => /\ Complete(cache[c].trips, c)
                                              /\ Dated(cache[c].trips, cache[c].moved, c)

CallsInv == \A r \in Request : CallOK(request[r])

\* The rows as read, while seats are sold and given back.
RowsOK(q) ==
    \A t \in q.trips : /\ q.rows[t] <= Cardinality(Available(t)) + watch.sold[t]
                       /\ Cardinality(Available(t)) <= q.rows[t] + watch.freed[t]

\* The seats as counted.
CountOK(q) ==
    \A t \in q.trips : /\ q.rows[t] <= watch.free[t] + watch.sold[t]
                       /\ watch.free[t] <= q.rows[t] + watch.freed[t] + watch.stale[t]

NoneMissing(q) ==
    \A t \in Trip \ edited :
        /\ date[t] = q.for.date
        /\ watch.free[t] >= q.for.least + watch.freed[t] + watch.stale[t]
        => t \in q.trips

\* The call that is watched.
WatchedOK(q) ==
    /\ q.step # "idle"
    /\ q.step = "details" => watch.details
    /\ q.step # "answered" => /\ onSale \subseteq watch.onSale
                              /\ DatesOnSale \subseteq watch.dates
                              /\ OnDay(q.for) \subseteq watch.onDay
    /\ (q.step \in {"scan", "nearby", "store", "answered"} /\ ~watch.details) =>
          /\ q.trips \subseteq watch.onSale
          /\ q.trips \subseteq watch.onDay \cup (IF q.hit THEN q.moved ELSE {})
    /\ q.step = "scan" => RowsOK(q) /\ (~watch.details => Complete(q.trips, q.for))
    /\ (q.step \in {"nearby", "store", "answered"} /\ ~watch.blind) =>
          CountOK(q) /\ (~watch.details => NoneMissing(q))
    /\ (q.step \in {"store", "answered"} /\ ~watch.details /\ q.trips = {}) =>
          q.dates \subseteq watch.dates

WatchInv == watch.call # None => WatchedOK(request[watch.call])

\* Nobody took an unedited trip off sale.
EditInv == Trip \ edited \subseteq onSale

IInv == TypeOK /\ CacheInv /\ CallsInv /\ WatchInv /\ EditInv

------------------------------------------------------------------------------
(* Seats, calls and the witness. *)

LEMMA SeatFacts ==
    ASSUME TypeOK, NEW t \in Trip
    PROVE  /\ Available(t) \subseteq Seat /\ IsFiniteSet(Available(t))
           /\ IsFiniteSet(held[t])
           /\ Cardinality(Available(t)) \in Nat
           /\ Cardinality(held[t]) \in Nat
           /\ Cardinality(Free(t)) \in Nat
           /\ Cardinality(held[t] \ Available(t)) \in Nat
  <1>1. Available(t) \in SUBSET Seat /\ held[t] \in SUBSET Seat
    BY DEF Available, TypeOK
  <1>2. Free(t) \in SUBSET Seat /\ held[t] \ Available(t) \in SUBSET Seat
    BY <1>1 DEF Free
  <1> QED
    BY <1>1, <1>2, SeatsFinite, FS_Subset, FS_CardinalityType

\* The rows less the holds are the free seats less the holds on sold seats.
LEMMA FreeBalance ==
    ASSUME TypeOK, NEW t \in Trip
    PROVE  Cardinality(Available(t)) + Cardinality(held[t] \ Available(t))
              = Cardinality(Free(t)) + Cardinality(held[t])
  <1> DEFINE A == Available(t)
             H == held[t]
  <1>1. IsFiniteSet(A) /\ IsFiniteSet(H)
    BY SeatFacts
  <1> HIDE DEF A, H
  <1>2. /\ Cardinality(A \ H) = Cardinality(A) - Cardinality(A \cap H)
        /\ Cardinality(H \ A) = Cardinality(H) - Cardinality(H \cap A)
    BY <1>1, FS_Difference
  <1>3. H \cap A = A \cap H
    OBVIOUS
  <1>4. IsFiniteSet(A \cap H) /\ Cardinality(H \cap A) = Cardinality(A \cap H)
    BY <1>1, <1>3, FS_Intersection
  <1>5. /\ Cardinality(A) \in Nat /\ Cardinality(H) \in Nat /\ Cardinality(A \cap H) \in Nat
    BY <1>1, <1>4, FS_CardinalityType
  <1>6. Cardinality(A) + Cardinality(H \ A) = Cardinality(A \ H) + Cardinality(H)
    BY <1>2, <1>4, <1>5
  <1> QED
    BY <1>6 DEF A, H, Free

LEMMA NothingTyped == Nothing \in [Trip -> Nat] /\ \A t \in Trip : Nothing[t] = 0
  BY DEF Nothing

LEMMA CriteriaFacts ==
    ASSUME NEW c \in Criteria
    PROVE  c.date \in Date /\ c.least \in Nat
  BY CriteriaTyped

LEMMA AskedTyped ==
    ASSUME NEW c \in Criteria, NEW step \in Steps
    PROVE  /\ Asked(step, c) \in Call
           /\ Asked(step, c).step = step
           /\ Asked(step, c).for = c
           /\ Asked(step, c).candidates = {}
  BY NothingTyped DEF Asked, Call

LEMMA NoCallFacts ==
    /\ NoCall \in Call
    /\ NoCall.step = "idle"
    /\ NoCall.for \in Criteria
    /\ NoCall.candidates = {}
  <1>1. (CHOOSE c \in Criteria : TRUE) \in Criteria
    BY CriteriaTyped
  <1> QED
    BY <1>1, AskedTyped DEF NoCall, Steps

LEMMA NoCallOK == CallOK(NoCall)
  BY NoCallFacts DEF CallOK, Dated

LEMMA UnwatchedTyped ==
    /\ Unwatched \in Seen
    /\ Unwatched.call = None
  BY NothingTyped DEF Unwatched, Seen

\* A step that moves request r.
LEMMA ContinueFacts ==
    ASSUME TypeOK, NEW r \in Request, NEW call \in Call, Continue(r, call)
    PROVE  /\ request' \in [Request -> Call]
           /\ \A x \in Request \ {r} : request'[x] = request[x]
           /\ request'[r] \in {NoCall, call}
           /\ watch.call = r => request'[r] = call
           /\ request'[r] = call \/ call.hit \/ call.step = "answered"
  BY NoCallFacts DEF Continue, TypeOK

\* What the calls that are not watched rely on survives every edit.
LEMMA CallsFrame ==
    ASSUME CacheInv, CallsInv, UNCHANGED <<date, cache, request>>, edited \subseteq edited'
    PROVE  CacheInv' /\ CallsInv'
  <1>1. CacheInv'
    BY DEF CacheInv, Complete, Dated
  <1>2. CallsInv'
    <2> SUFFICES ASSUME NEW r \in Request PROVE CallOK(request[r])'
      BY DEF CallsInv
    <2>1. PICK q : q = request[r] /\ q = request'[r]
      OBVIOUS
    <2>2. CallOK(q)
      BY <2>1 DEF CallsInv
    <2>3. CallOK(q)'
      BY <2>2 DEF CallOK, Complete, Dated
    <2> QED
      BY <2>1, <2>3
  <1> QED
    BY <1>1, <1>2

LEMMA WatchedTyped ==
    ASSUME TypeOK, watch.call # None
    PROVE  watch.call \in Request /\ request[watch.call] \in Call
  BY DEF TypeOK, Seen

\* The environment: the call that is watched stays where it is.
LEMMA WatchFrame ==
    ASSUME WatchInv, UNCHANGED request, watch'.call = watch.call,
           \A q : q = request[watch.call] /\ watch.call # None /\ WatchedOK(q) => WatchedOK(q)'
    PROVE  WatchInv'
  <1> SUFFICES ASSUME watch'.call # None PROVE WatchedOK(request[watch.call])'
    BY DEF WatchInv
  <1>1. PICK q : q = request[watch.call] /\ q = request'[watch'.call]
    OBVIOUS
  <1>2. WatchedOK(q)'
    BY <1>1 DEF WatchInv
  <1> QED
    BY <1>1, <1>2

------------------------------------------------------------------------------
(* Edits of trips and seats. *)

LEMMA CountedFacts ==
    ASSUME TypeOK, Counted
    PROVE  changes' \in 0..MaxChanges
  BY BoundIsNat DEF TypeOK, Counted

\* The witness of an edit sees more trips and days, and nothing else changes.
Wider ==
    /\ watch' \in Seen
    /\ watch'.call = watch.call /\ watch'.details = watch.details
    /\ watch'.blind = watch.blind /\ watch'.sold = watch.sold /\ watch'.freed = watch.freed
    /\ watch'.free = watch.free /\ watch'.stale = watch.stale
    /\ watch.onSale \subseteq watch'.onSale /\ watch.dates \subseteq watch'.dates
    /\ watch.onDay \subseteq watch'.onDay

\* An edit that the witness took note of.
LEMMA WatchSeesEdit ==
    ASSUME NEW q, WatchedOK(q), UNCHANGED row, Wider,
           edited \subseteq edited', \A t \in Trip \ edited' : date'[t] = date[t],
           q.step # "answered" => /\ onSale' \subseteq watch'.onSale
                                  /\ DatesOnSale' \subseteq watch'.dates
                                  /\ OnDay(q.for)' \subseteq watch'.onDay
    PROVE  WatchedOK(q)'
  <1>1. RowsOK(q) => RowsOK(q)'
    BY DEF RowsOK, Available, Wider
  <1>2. CountOK(q) => CountOK(q)'
    BY DEF CountOK, Wider
  <1>3. NoneMissing(q) => NoneMissing(q)'
    BY DEF NoneMissing, Wider
  <1>4. Complete(q.trips, q.for) => Complete(q.trips, q.for)'
    BY DEF Complete, Dated
  <1> QED
    BY <1>1, <1>2, <1>3, <1>4 DEF WatchedOK, Wider

LEMMA EditStatusKeeps ==
    ASSUME IInv, NEW t \in Trip, EditStatus(t)
    PROVE  IInv'
  <1> USE DEF IInv
  <1> DEFINE S == (onSale \ {t}) \cup ({t} \ onSale)
             D == {date[u] : u \in S}
  <1>1. /\ UNCHANGED <<date, row, held, cache, request>>
        /\ onSale' = S /\ edited' = edited \cup {t}
        /\ changes' \in 0..MaxChanges
        /\ watch' = IF InFlight THEN [watch EXCEPT !.onSale = @ \cup S, !.dates = @ \cup D] ELSE watch
    BY CountedFacts DEF EditStatus
  <1>2. S \in SUBSET Trip /\ D \in SUBSET Date /\ Trip \ edited' \subseteq S
    BY <1>1 DEF TypeOK, EditInv
  <1>3. DatesOnSale' = D
    BY <1>1 DEF DatesOnSale
  <1> HIDE DEF S, D
  <1>4. Wider /\ (InFlight => S \subseteq watch'.onSale /\ D \subseteq watch'.dates)
    <2>1. CASE InFlight
      <3>1. watch' = [watch EXCEPT !.onSale = watch.onSale \cup S, !.dates = watch.dates \cup D]
        BY <1>1, <2>1
      <3> QED
        BY <1>2, <3>1 DEF TypeOK, Seen, Wider
    <2>2. CASE ~InFlight
      BY <1>1, <2>2 DEF TypeOK, Wider
    <2> QED
      BY <2>1, <2>2
  <1>5. TypeOK'
    BY <1>1, <1>2, <1>4 DEF TypeOK, Wider
  <1>6. CacheInv' /\ CallsInv'
    BY <1>1, CallsFrame
  <1>7. WatchInv'
    <2>1. ASSUME NEW q, q = request[watch.call], watch.call # None, WatchedOK(q)
          PROVE  WatchedOK(q)'
      <3>1. q.step # "answered" => onSale' \subseteq watch'.onSale /\ DatesOnSale' \subseteq watch'.dates
        BY <1>1, <1>3, <1>4, <2>1 DEF InFlight, Watching, At
      <3>2. q.step # "answered" => OnDay(q.for)' \subseteq watch'.onDay
        BY <1>1, <1>4, <2>1 DEF WatchedOK, OnDay, Wider
      <3> QED
        BY <1>1, <1>4, <2>1, <3>1, <3>2, WatchSeesEdit
    <2> QED
      BY <1>1, <1>4, <2>1, WatchFrame DEF Wider
  <1>8. EditInv'
    BY <1>1, <1>2 DEF EditInv
  <1> QED
    BY <1>5, <1>6, <1>7, <1>8

\* A call whose list is found to have moved trips knows what it knew.
LEMMA MovedCall ==
    ASSUME NEW q \in Call, NEW M \in SUBSET Trip, WatchedOK(q)
    PROVE  WatchedOK([q EXCEPT !.moved = @ \cup M])
  <1> DEFINE p == [q EXCEPT !.moved = @ \cup M]
  <1>1. /\ p.step = q.step /\ p.for = q.for /\ p.hit = q.hit /\ p.rows = q.rows
        /\ p.trips = q.trips /\ p.dates = q.dates
        /\ q.moved \subseteq p.moved
    BY DEF Call
  <1> HIDE DEF p
  <1>2. WatchedOK(p)
    BY <1>1 DEF WatchedOK, RowsOK, CountOK, NoneMissing
  <1> QED
    BY <1>2 DEF p

LEMMA RescheduleKeeps ==
    ASSUME IInv, NEW t \in Trip, NEW d \in Date, Reschedule(t, d)
    PROVE  IInv'
  <1> USE DEF IInv
  <1> DEFINE D == {date'[u] : u \in onSale}
             O == {u \in Trip : date'[u] = answer.for.date}
  <1>1. /\ UNCHANGED <<onSale, row, held>>
        /\ edited' = edited \cup {t}
        /\ changes' \in 0..MaxChanges
        /\ watch' = IF InFlight THEN [watch EXCEPT !.dates = @ \cup D, !.onDay = @ \cup O] ELSE watch
    BY CountedFacts DEF Reschedule
  <1>2. /\ date' \in [Trip -> Date]
        /\ \A u \in Trip \ {t} : date'[u] = date[u]
        /\ edited \subseteq edited'
        /\ \A u \in Trip \ edited' : date'[u] = date[u]
    BY <1>1 DEF Reschedule, TypeOK
  <1>3. D \in SUBSET Date /\ O \in SUBSET Trip
    BY <1>2 DEF TypeOK
  <1>4. DatesOnSale' = D
    BY <1>1 DEF DatesOnSale
  <1> HIDE DEF D
  <1>5. Wider /\ (InFlight => D \subseteq watch'.dates /\ O \subseteq watch'.onDay)
    <2> HIDE DEF O
    <2>1. CASE InFlight
      <3>1. watch' = [watch EXCEPT !.dates = watch.dates \cup D, !.onDay = watch.onDay \cup O]
        BY <1>1, <2>1
      <3> QED
        BY <1>3, <3>1 DEF TypeOK, Seen, Wider
    <2>2. CASE ~InFlight
      BY <1>1, <2>2 DEF TypeOK, Wider
    <2> QED
      BY <2>1, <2>2
  <1>6. ASSUME NEW c \in Criteria
        PROVE  /\ cache[c] = NoEntry => cache'[c] = NoEntry
               /\ cache[c] # NoEntry =>
                     /\ cache[c] \in Entry
                     /\ cache'[c] = [cache[c] EXCEPT !.moved = @ \cup ({t} \cap cache[c].trips)]
    <2>1. cache'[c] = [cache[c] EXCEPT !.moved = @ \cup ({t} \cap cache[c].trips)]
      BY DEF Reschedule, Moved
    <2>2. ASSUME cache[c] = NoEntry PROVE cache'[c] = NoEntry
      <3>1. NoEntry.moved = {} /\ NoEntry.trips = {None}
        BY DEF NoEntry
      <3>2. NoEntry.moved \cup ({t} \cap NoEntry.trips) = {}
        BY <3>1, NoneIsNone
      <3>3. cache'[c] = [NoEntry EXCEPT !.moved = {}]
        BY <2>1, <2>2, <3>2
      <3> QED
        BY <3>3 DEF NoEntry
    <2>3. cache[c] \in Entry \cup {NoEntry}
      BY DEF TypeOK
    <2> QED
      BY <2>1, <2>2, <2>3
  <1>7. cache' \in [Criteria -> Entry \cup {NoEntry}] /\ CacheInv'
    <2>1. ASSUME NEW c \in Criteria
          PROVE  /\ cache'[c] \in Entry \cup {NoEntry}
                 /\ cache'[c] # NoEntry => /\ Complete(cache[c].trips, c)'
                                           /\ Dated(cache[c].trips, cache[c].moved, c)'
      <3>1. CASE cache[c] = NoEntry
        BY <1>6, <3>1
      <3>2. CASE cache[c] # NoEntry
        <4>1. /\ cache'[c] \in Entry
              /\ cache'[c].trips = cache[c].trips
              /\ cache'[c].moved = cache[c].moved \cup ({t} \cap cache[c].trips)
          <5>1. PICK e \in Entry : e = cache[c]
            BY <1>6, <3>2
          <5>2. PICK M \in SUBSET Trip : M = e.moved \cup ({t} \cap e.trips)
            BY DEF Entry
          <5>3. cache'[c] = [e EXCEPT !.moved = M]
            BY <1>6, <3>2, <5>1, <5>2
          <5> QED
            BY <5>1, <5>2, <5>3 DEF Entry
        <4>2. Complete(cache[c].trips, c) /\ Dated(cache[c].trips, cache[c].moved, c)
          BY <3>2 DEF CacheInv
        <4>3. cache[c].trips \in SUBSET Trip
          BY <1>6, <3>2 DEF Entry
        <4> QED
          BY <1>2, <4>1, <4>2, <4>3 DEF Complete, Dated
      <3> QED
        BY <3>1, <3>2
    <2>2. cache' = [c \in Criteria |-> cache'[c]]
      BY DEF Reschedule, Moved
    <2> QED
      BY <2>1, <2>2 DEF CacheInv
  <1>8. ASSUME NEW r \in Request
        PROVE  /\ request[r] \in Call
               /\ request'[r] = [request[r] EXCEPT !.moved = @ \cup ({t} \cap request[r].candidates)]
    BY DEF Reschedule, Moved, TypeOK
  <1>9. request' \in [Request -> Call] /\ CallsInv'
    <2>1. ASSUME NEW r \in Request
          PROVE  request'[r] \in Call /\ CallOK(request[r])'
      <3>1. PICK q \in Call : q = request[r] /\ CallOK(q)
        BY <1>8 DEF CallsInv
      <3>2. PICK p : p = [q EXCEPT !.moved = @ \cup ({t} \cap q.candidates)]
        OBVIOUS
      <3>3. /\ p \in Call /\ p.step = q.step /\ p.for = q.for /\ p.hit = q.hit
            /\ p.candidates = q.candidates /\ q.candidates \in SUBSET Trip
            /\ p.moved = q.moved \cup ({t} \cap q.candidates)
        BY <3>2 DEF Call
      <3>4. Dated(p.candidates, p.moved, p.for)'
        BY <1>2, <3>1, <3>3 DEF CallOK, Dated
      <3>5. Complete(p.candidates, p.for) => Complete(p.candidates, p.for)'
        BY <1>2 DEF Complete, Dated
      <3>6. CallOK(p)'
        BY <3>1, <3>3, <3>4, <3>5 DEF CallOK
      <3>7. p = request'[r]
        BY <1>8, <3>1, <3>2
      <3> QED
        BY <3>3, <3>6, <3>7
    <2>2. request' = [r \in Request |-> request'[r]]
      BY DEF Reschedule, Moved
    <2> QED
      BY <2>1, <2>2 DEF CallsInv
  <1>10. WatchInv'
    <2> SUFFICES ASSUME watch.call # None PROVE WatchedOK(request[watch.call])'
      BY <1>5 DEF WatchInv, Wider
    <2>1. watch.call \in Request
      BY WatchedTyped
    <2>2. PICK q \in Call : q = request[watch.call] /\ WatchedOK(q)
      BY <1>8, <2>1 DEF WatchInv
    <2>3. PICK p : p = [q EXCEPT !.moved = @ \cup ({t} \cap q.candidates)]
      OBVIOUS
    <2>4. WatchedOK(p) /\ p.step = q.step /\ p.for = q.for
      <3>1. {t} \cap q.candidates \in SUBSET Trip
        OBVIOUS
      <3> QED
        BY <2>2, <2>3, <3>1, MovedCall DEF Call
    <2>5. p.step # "answered" => /\ onSale' \subseteq watch'.onSale
                                 /\ DatesOnSale' \subseteq watch'.dates
                                 /\ OnDay(p.for)' \subseteq watch'.onDay
      <3>1. p.step # "answered" => InFlight
        BY <2>2, <2>4 DEF InFlight, Watching, At
      <3>2. OnDay(p.for)' = O
        BY <2>2, <2>4 DEF OnDay, answer
      <3>3. p.step # "answered" => onSale \subseteq watch.onSale
        BY <2>4 DEF WatchedOK
      <3> HIDE DEF O
      <3> QED
        BY <1>1, <1>4, <1>5, <3>1, <3>2, <3>3 DEF Wider
    <2>6. WatchedOK(p)'
      BY <1>1, <1>2, <1>5, <2>4, <2>5, WatchSeesEdit
    <2>7. p = request'[watch'.call]
      BY <1>5, <1>8, <2>1, <2>2, <2>3 DEF Wider
    <2> QED
      BY <2>6, <2>7
  <1>11. TypeOK' /\ EditInv'
    BY <1>1, <1>2, <1>5, <1>7, <1>9 DEF TypeOK, EditInv, Wider
  <1> QED
    BY <1>7, <1>9, <1>10, <1>11

\* Holds come and go: what calls know is about rows.
LEMMA HoldsKeep ==
    ASSUME IInv, NEW t \in Trip, NEW s \in Seat, HoldSeat(t, s) \/ HoldGone(t, s)
    PROVE  IInv'
  <1> USE DEF IInv
  <1>1. UNCHANGED <<onSale, date, row, edited, cache, request, watch>>
    BY DEF HoldSeat, HoldGone
  <1>2. held' \in [Trip -> SUBSET Seat] /\ changes' \in 0..MaxChanges
    BY CountedFacts DEF HoldSeat, HoldGone, TypeOK
  <1>3. TypeOK' /\ EditInv'
    BY <1>1, <1>2 DEF TypeOK, EditInv
  <1>4. CacheInv' /\ CallsInv'
    BY <1>1, CallsFrame
  <1>5. WatchInv'
    <2>1. ASSUME NEW q, WatchedOK(q) PROVE WatchedOK(q)'
      BY <1>1, <2>1
         DEF WatchedOK, DatesOnSale, OnDay, RowsOK, Available, CountOK, NoneMissing,
             Complete, Dated
    <2> QED
      BY <1>1, <2>1, WatchFrame
  <1> QED
    BY <1>3, <1>4, <1>5

\* One seat of one trip more or less, and the witness counts it.
LEMMA RowKeeps ==
    ASSUME IInv, NEW t \in Trip, NEW s \in Seat, NEW st \in {"AVAILABLE", "BOOKED"},
           row' = [row EXCEPT ![t][s] = st],
           UNCHANGED <<onSale, date, edited, cache, request>>,
           held' \in [Trip -> SUBSET Seat],
           changes' \in 0..MaxChanges,
           \/ /\ st = "BOOKED" /\ s \in Available(t)
              /\ watch' = IF Watching("scan") THEN [watch EXCEPT !.sold[t] = @ + 1] ELSE watch
           \/ /\ st = "AVAILABLE" /\ s \notin Available(t)
              /\ watch' = IF Watching("scan") THEN [watch EXCEPT !.freed[t] = @ + 1] ELSE watch
    PROVE  IInv'
  <1> USE DEF IInv
  <1>1. /\ row' \in [Trip -> [Seat -> {"AVAILABLE", "BOOKED"}]]
        /\ row'[t][s] = st
        /\ \A x \in Seat \ {s} : row'[t][x] = row[t][x]
        /\ \A u \in Trip \ {t} : row'[u] = row[u]
    BY DEF TypeOK
  <1>2. /\ \A u \in Trip \ {t} : Available(u)' = Available(u)
        /\ st = "BOOKED" => Available(t)' = Available(t) \ {s}
        /\ st = "AVAILABLE" => Available(t)' = Available(t) \cup {s}
    BY <1>1 DEF Available
  <1>3. /\ watch.sold \in [Trip -> Nat] /\ watch.freed \in [Trip -> Nat] /\ watch \in Seen
    BY DEF TypeOK, Seen
  <1>4. /\ watch' \in Seen
        /\ watch'.call = watch.call /\ watch'.details = watch.details /\ watch'.blind = watch.blind
        /\ watch'.free = watch.free /\ watch'.stale = watch.stale
        /\ watch'.onSale = watch.onSale /\ watch'.dates = watch.dates
        /\ watch'.onDay = watch.onDay
        /\ \A u \in Trip \ {t} : watch'.sold[u] = watch.sold[u] /\ watch'.freed[u] = watch.freed[u]
        /\ ~Watching("scan") => watch' = watch
        /\ Watching("scan") =>
              IF st = "BOOKED"
              THEN watch'.sold[t] = watch.sold[t] + 1 /\ watch'.freed[t] = watch.freed[t]
              ELSE watch'.freed[t] = watch.freed[t] + 1 /\ watch'.sold[t] = watch.sold[t]
    <2>1. CASE ~Watching("scan")
      BY <1>3, <2>1
    <2>2. CASE Watching("scan") /\ st = "BOOKED"
      <3>1. watch' = [watch EXCEPT !.sold = [watch.sold EXCEPT ![t] = watch.sold[t] + 1]]
        BY <2>2
      <3>2. [watch.sold EXCEPT ![t] = watch.sold[t] + 1] \in [Trip -> Nat]
        BY <1>3
      <3> QED
        BY <1>3, <2>2, <3>1, <3>2 DEF Seen
    <2>3. CASE Watching("scan") /\ st = "AVAILABLE"
      <3>1. watch' = [watch EXCEPT !.freed = [watch.freed EXCEPT ![t] = watch.freed[t] + 1]]
        BY <2>3
      <3>2. [watch.freed EXCEPT ![t] = watch.freed[t] + 1] \in [Trip -> Nat]
        BY <1>3
      <3> QED
        BY <1>3, <2>3, <3>1, <3>2 DEF Seen
    <2> QED
      BY <2>1, <2>2, <2>3
  <1>5. TypeOK' /\ EditInv'
    BY <1>1, <1>4 DEF TypeOK, EditInv
  <1>6. CacheInv' /\ CallsInv'
    BY CallsFrame
  <1>7. WatchInv'
    <2>1. ASSUME NEW q, q = request[watch.call], watch.call # None, WatchedOK(q)
          PROVE  WatchedOK(q)'
      <3>1. q.step = "scan" <=> Watching("scan")
        BY <2>1 DEF Watching, At
      <3>2. q \in Call
        BY <2>1, WatchedTyped
      <3>3. ASSUME Watching("scan"), RowsOK(q) PROVE RowsOK(q)'
        <4> SUFFICES ASSUME NEW u \in q.trips
                     PROVE  /\ q.rows[u] <= Cardinality(Available(u)') + watch'.sold[u]
                            /\ Cardinality(Available(u)') <= q.rows[u] + watch'.freed[u]
          BY DEF RowsOK
        <4>1. /\ u \in Trip /\ q.rows[u] \in Nat
              /\ Cardinality(Available(u)) \in Nat /\ IsFiniteSet(Available(u))
              /\ watch.sold[u] \in Nat /\ watch.freed[u] \in Nat
              /\ q.rows[u] <= Cardinality(Available(u)) + watch.sold[u]
              /\ Cardinality(Available(u)) <= q.rows[u] + watch.freed[u]
          BY <1>3, <3>2, <3>3, SeatFacts DEF Call, RowsOK
        <4>2. CASE u # t
          BY <1>2, <1>4, <4>1, <4>2
        <4>3. CASE u = t /\ st = "BOOKED"
          <5>1. Cardinality(Available(t)') = Cardinality(Available(t)) - 1
            BY <1>2, <4>1, <4>3, FS_RemoveElement
          <5>2. watch'.sold[t] = watch.sold[t] + 1 /\ watch'.freed[t] = watch.freed[t]
            BY <1>4, <3>3, <4>3
          <5> QED
            BY <4>1, <4>3, <5>1, <5>2
        <4>4. CASE u = t /\ st = "AVAILABLE"
          <5>1. Cardinality(Available(t)') = Cardinality(Available(t)) + 1
            BY <1>2, <4>1, <4>4, FS_AddElement
          <5>2. watch'.freed[t] = watch.freed[t] + 1 /\ watch'.sold[t] = watch.sold[t]
            BY <1>4, <3>3, <4>4
          <5> QED
            BY <4>1, <4>4, <5>1, <5>2
        <4> QED
          BY <4>2, <4>3, <4>4
      <3>4. ~Watching("scan") => (CountOK(q) => CountOK(q)') /\ (NoneMissing(q) => NoneMissing(q)')
        BY <1>4 DEF CountOK, NoneMissing
      <3>5. /\ DatesOnSale' = DatesOnSale /\ OnDay(q.for)' = OnDay(q.for)
            /\ Complete(q.trips, q.for) => Complete(q.trips, q.for)'
        BY DEF DatesOnSale, OnDay, Complete
      <3> QED
        BY <1>4, <2>1, <3>1, <3>3, <3>4, <3>5 DEF WatchedOK
    <2> QED
      BY <1>4, <2>1, WatchFrame
  <1> QED
    BY <1>5, <1>6, <1>7

LEMMA SalesKeep ==
    ASSUME IInv, NEW t \in Trip, NEW s \in Seat, ConfirmSeat(t, s) \/ ReleaseSeat(t, s)
    PROVE  IInv'
  <1>1. CASE ConfirmSeat(t, s)
    <2>1. held' \in [Trip -> SUBSET Seat]
      BY <1>1 DEF ConfirmSeat, IInv, TypeOK
    <2> QED
      BY <1>1, <2>1, CountedFacts, RowKeeps DEF ConfirmSeat, IInv
  <1>2. CASE ReleaseSeat(t, s)
    <2>1. held' \in [Trip -> SUBSET Seat]
      BY <1>2 DEF ReleaseSeat, IInv, TypeOK
    <2> QED
      BY <1>2, <2>1, CountedFacts, RowKeeps DEF ReleaseSeat, IInv
  <1> QED
    BY <1>1, <1>2

------------------------------------------------------------------------------
(* Steps of calls. *)

\* A call that moves leaves the others what they know, if the cache stays good.
LEMMA MoveKeeps ==
    ASSUME IInv, NEW r \in Request, NEW call \in Call, Continue(r, call),
           UNCHANGED <<catalogVars, changes>>,
           \/ UNCHANGED cache
           \/ cache' \in [Criteria -> Entry \cup {NoEntry}] /\ CacheInv',
           watch.call # r => watch' = watch,
           watch.call = r => watch' \in Seen /\ watch'.call = r,
           CallOK(call)',
           watch.call = r => WatchedOK(call)'
    PROVE  IInv'
  <1> USE DEF IInv
  <1>1. /\ request' \in [Request -> Call]
        /\ \A x \in Request \ {r} : request'[x] = request[x]
        /\ request'[r] \in {NoCall, call}
        /\ watch.call = r => request'[r] = call
    BY ContinueFacts
  <1>2. UNCHANGED <<onSale, date, row, held, edited, changes>>
    BY DEF catalogVars
  <1>3. watch' \in Seen /\ watch'.call = watch.call
    BY DEF TypeOK
  <1>4. TypeOK' /\ EditInv' /\ CacheInv'
    <2>1. cache' \in [Criteria -> Entry \cup {NoEntry}] /\ CacheInv'
      BY <1>2 DEF TypeOK, CacheInv, Complete, Dated
    <2> QED
      BY <1>1, <1>2, <1>3, <2>1 DEF TypeOK, EditInv
  <1>5. \A q : CallOK(q) => CallOK(q)'
    BY <1>2 DEF CallOK, Complete, Dated
  <1>6. CallsInv'
    <2> SUFFICES ASSUME NEW x \in Request PROVE CallOK(request[x])'
      BY DEF CallsInv
    <2>1. PICK q : q = request'[x]
      OBVIOUS
    <2>2. (x # r => q = request[x]) /\ (x = r => q = NoCall \/ q = call)
      BY <1>1, <2>1
    <2>3. CallOK(q)'
      BY <1>5, <2>2, NoCallOK DEF CallsInv
    <2> QED
      BY <2>1, <2>3
  <1>7. WatchInv'
    <2> SUFFICES ASSUME watch'.call # None PROVE WatchedOK(request[watch.call])'
      BY DEF WatchInv
    <2>1. PICK q : q = request'[watch'.call]
      OBVIOUS
    <2>2. CASE watch.call = r
      <3>1. q = call
        BY <1>1, <1>3, <2>1, <2>2
      <3> QED
        BY <2>1, <2>2, <3>1
    <2>3. CASE watch.call # r
      <3>1. watch' = watch /\ q = request[watch.call] /\ WatchedOK(q)
        BY <1>1, <1>3, <2>1, <2>3, WatchedTyped DEF WatchInv
      <3>2. WatchedOK(q)'
        BY <1>2, <3>1
           DEF WatchedOK, DatesOnSale, OnDay, RowsOK, Available, CountOK, NoneMissing,
               Complete, Dated
      <3> QED
        BY <2>1, <3>2
    <2> QED
      BY <2>2, <2>3
  <1> QED
    BY <1>4, <1>6, <1>7

\* What is known of the call in slot r.
LEMMA CallFacts ==
    ASSUME IInv, NEW r \in Request
    PROVE  /\ request[r] \in Call
           /\ CallOK(request[r])
           /\ watch.call = r => WatchedOK(request[r])
  BY NoneIsNone DEF IInv, TypeOK, CallsInv, WatchInv

LEMMA BeginKeeps ==
    ASSUME IInv, NEW r \in Request, NEW c \in Criteria, NEW step \in {"cache", "details"},
           Begin(r, step, c)
    PROVE  IInv'
  <1> USE DEF IInv
  <1> DEFINE call == Asked(step, c)
             seen == [Unwatched EXCEPT !.call = r, !.onSale = onSale, !.onDay = OnDay(c),
                                       !.dates = DatesOnSale, !.details = step = "details"]
  <1>1. /\ UNCHANGED <<onSale, date, row, held, edited, cache, changes>>
        /\ request' = [request EXCEPT ![r] = call]
        /\ request[r].step = "idle"
        /\ watch' = watch \/ (watch.call = None /\ watch' = seen)
    BY DEF Begin, catalogVars, At
  <1>2. /\ call \in Call /\ call.step = step /\ call.for = c /\ call.candidates = {}
    BY AskedTyped DEF Steps
  <1>3. /\ seen \in Seen /\ seen.call = r
        /\ seen.onSale = onSale /\ seen.dates = DatesOnSale /\ seen.onDay = OnDay(c)
        /\ seen.details = (step = "details")
    <2>1. onSale \in SUBSET Trip /\ DatesOnSale \in SUBSET Date /\ OnDay(c) \in SUBSET Trip
      BY DEF TypeOK, DatesOnSale, OnDay
    <2> QED
      BY <2>1, UnwatchedTyped DEF Seen
  <1>4. watch.call # r
    BY <1>1, CallFacts DEF WatchedOK
  <1> HIDE DEF call, seen
  <1>5. /\ request' \in [Request -> Call]
        /\ request'[r] = call
        /\ \A x \in Request \ {r} : request'[x] = request[x]
    BY <1>1, <1>2 DEF TypeOK
  <1>6. TypeOK' /\ EditInv' /\ CacheInv'
    BY <1>1, <1>3, <1>5 DEF TypeOK, EditInv, CacheInv, Complete, Dated
  <1>7. CallsInv'
    BY <1>1, <1>2, <1>5 DEF CallsInv, CallOK, Complete, Dated
  <1>8. WatchInv'
    <2>1. CASE watch' = watch
      <3> SUFFICES ASSUME watch.call # None PROVE WatchedOK(request[watch.call])'
        BY <2>1 DEF WatchInv
      <3>1. PICK q : q = request[watch.call] /\ q = request'[watch'.call] /\ WatchedOK(q)
        BY <1>4, <1>5, <2>1, WatchedTyped DEF WatchInv
      <3>2. WatchedOK(q)'
        BY <1>1, <2>1, <3>1
           DEF WatchedOK, DatesOnSale, OnDay, RowsOK, Available, CountOK, NoneMissing,
               Complete, Dated
      <3> QED
        BY <3>1, <3>2
    <2>2. CASE watch' = seen
      <3>1. PICK q : q = request'[watch'.call] /\ q.step = step /\ q.for = c
        BY <1>2, <1>3, <1>5, <2>2
      <3>2. /\ onSale' \subseteq watch'.onSale /\ DatesOnSale' \subseteq watch'.dates
            /\ OnDay(c)' \subseteq watch'.onDay
            /\ step = "details" => watch'.details
        BY <1>1, <1>3, <2>2 DEF DatesOnSale, OnDay
      <3>3. WatchedOK(q)'
        BY <3>1, <3>2 DEF WatchedOK
      <3> QED
        BY <3>1, <3>3 DEF WatchInv
    <2> QED
      BY <1>1, <2>1, <2>2
  <1> QED
    BY <1>6, <1>7, <1>8

LEMMA StartKeeps ==
    ASSUME IInv, NEW r \in Request,
           (\E c \in Criteria : SearchTrips(r, c)) \/ TripDetails(r)
    PROVE  IInv'
  BY BeginKeeps, NoCallFacts DEF SearchTrips, TripDetails

\* A read of PostgreSQL or Redis that leaves the witness: what is known of the
\* call afterwards follows from what the step found.
LEMMA ReadKeeps ==
    ASSUME IInv, NEW r \in Request, NEW call \in Call, Continue(r, call),
           UNCHANGED <<catalogVars, cache, watch, changes>>,
           CallOK(call), watch.call = r => WatchedOK(call)
    PROVE  IInv'
  <1>1. UNCHANGED <<onSale, date, row, held, edited>> /\ watch' = watch
    BY DEF catalogVars
  <1>2. CallOK(call)' /\ (watch.call = r => WatchedOK(call)')
    BY <1>1
       DEF CallOK, WatchedOK, DatesOnSale, OnDay, RowsOK, Available, CountOK, NoneMissing,
           Complete, Dated
  <1>3. watch \in Seen
    BY DEF IInv, TypeOK
  <1> QED
    BY <1>2, <1>3, MoveKeeps

LEMMA CacheGetKeeps ==
    ASSUME IInv, NEW r \in Request, CacheGet(r)
    PROVE  IInv'
  <1>1. /\ request[r] \in Call /\ request[r].step = "cache" /\ request[r].for \in Criteria
        /\ Dated(request[r].candidates, request[r].moved, request[r].for)
        /\ watch.call = r => WatchedOK(request[r])
        /\ UNCHANGED <<catalogVars, cache, watch, changes>>
    BY CallFacts DEF CacheGet, At, Call, CallOK
  <1>2. CASE Continue(r, [request[r] EXCEPT !.step = "query"])
    <2>1. PICK call : call = [request[r] EXCEPT !.step = "query"]
      OBVIOUS
    <2>2. /\ call \in Call /\ call.step = "query" /\ call.for = request[r].for
          /\ call.candidates = request[r].candidates /\ call.moved = request[r].moved
      BY <1>1, <2>1 DEF Call, Steps
    <2>3. CallOK(call) /\ (watch.call = r => WatchedOK(call))
      BY <1>1, <2>2 DEF CallOK, WatchedOK
    <2> QED
      BY <1>1, <1>2, <2>1, <2>2, <2>3, ReadKeeps
  <1>3. CASE LET entry == cache[request[r].for]
             IN  /\ entry # NoEntry
                 /\ Continue(r, [request[r] EXCEPT !.step = "refresh", !.hit = TRUE,
                                    !.candidates = entry.trips, !.dates = entry.dates,
                                    !.moved = entry.moved])
    <2>1. PICK entry \in Entry : entry = cache[request[r].for] /\ entry # NoEntry
      BY <1>1, <1>3 DEF IInv, TypeOK
    <2>2. PICK call : call = [request[r] EXCEPT !.step = "refresh", !.hit = TRUE,
                                 !.candidates = entry.trips, !.dates = entry.dates,
                                 !.moved = entry.moved]
      OBVIOUS
    <2>3. /\ call \in Call /\ call.step = "refresh" /\ call.hit
          /\ call.candidates = entry.trips /\ call.moved = entry.moved
          /\ call.for = request[r].for
      BY <1>1, <2>2 DEF Call, Steps, Entry
    <2>4. /\ Complete(call.candidates, call.for)
          /\ Dated(call.candidates, call.moved, call.for)
      BY <1>1, <2>1, <2>3 DEF IInv, CacheInv
    <2>5. CallOK(call) /\ (watch.call = r => WatchedOK(call))
      BY <1>1, <2>3, <2>4 DEF CallOK, WatchedOK
    <2> QED
      BY <1>1, <1>3, <2>1, <2>2, <2>3, <2>5, ReadKeeps
  <1> QED
    BY <1>2, <1>3 DEF CacheGet

LEMMA RowsFacts ==
    ASSUME TypeOK, NEW T \in SUBSET Trip
    PROVE  /\ Rows(T) \in [Trip -> Nat]
           /\ \A t \in T : Rows(T)[t] = Cardinality(Available(t))
  BY SeatFacts DEF Rows

\* The rows, read now, are the seats of now.
LEMMA FreshRows ==
    ASSUME TypeOK, NEW q \in Call, NEW T \in SUBSET Trip, q.trips = T, q.rows = Rows(T)
    PROVE  RowsOK(q)
  <1> SUFFICES ASSUME NEW t \in T
               PROVE  /\ q.rows[t] <= Cardinality(Available(t)) + watch.sold[t]
                      /\ Cardinality(Available(t)) <= q.rows[t] + watch.freed[t]
    BY DEF RowsOK
  <1>1. q.rows[t] = Cardinality(Available(t)) /\ Cardinality(Available(t)) \in Nat
    BY RowsFacts, SeatFacts
  <1>2. watch.sold[t] \in Nat /\ watch.freed[t] \in Nat
    BY DEF TypeOK, Seen
  <1> QED
    BY <1>1, <1>2

LEMMA RefreshKeeps ==
    ASSUME IInv, NEW r \in Request, Refresh(r)
    PROVE  IInv'
  <1> USE DEF IInv
  <1>1. /\ request[r] \in Call /\ request[r].step = "refresh" /\ request[r].hit
        /\ Complete(request[r].candidates, request[r].for)
        /\ Dated(request[r].candidates, request[r].moved, request[r].for)
        /\ watch.call = r => WatchedOK(request[r])
        /\ UNCHANGED <<catalogVars, cache, watch, changes>>
    BY CallFacts DEF Refresh, At, CallOK
  <1>2. PICK T \in SUBSET Trip : T = request[r].candidates \cap onSale
    BY DEF TypeOK
  <1>3. PICK call : call = [request[r] EXCEPT !.step = "scan", !.rows = Rows(T),
                                             !.trips = T, !.candidates = {}]
    OBVIOUS
  <1>4. /\ call \in Call /\ call.step = "scan" /\ call.hit /\ call.for = request[r].for
        /\ call.trips = T /\ call.rows = Rows(T)
        /\ call.candidates = {} /\ call.moved = request[r].moved
    BY <1>1, <1>3, RowsFacts DEF Call, Steps
  <1>5. /\ Complete(T, call.for) /\ Dated({}, call.moved, call.for)
        /\ T \subseteq OnDay(call.for) \cup call.moved
    BY <1>1, <1>2, <1>4 DEF Complete, Dated, OnDay, EditInv
  <1>6. RowsOK(call)
    BY <1>4, FreshRows
  <1>7. CallOK(call) /\ (watch.call = r => WatchedOK(call))
    BY <1>1, <1>2, <1>4, <1>5, <1>6 DEF CallOK, WatchedOK
  <1> QED
    BY <1>1, <1>2, <1>3, <1>4, <1>7, ReadKeeps DEF Refresh

LEMMA QueryKeeps ==
    ASSUME IInv, NEW r \in Request, Query(r)
    PROVE  IInv'
  <1> USE DEF IInv
  <1>1. /\ request[r] \in Call /\ request[r].step = "query"
        /\ watch.call = r => WatchedOK(request[r])
        /\ UNCHANGED <<catalogVars, cache, watch, changes>>
    BY CallFacts DEF Query, At
  <1>2. PICK T \in SUBSET Trip : T = onSale \cap OnDay(request[r].for)
    BY DEF TypeOK
  <1>3. PICK call : call = [request[r] EXCEPT !.step = "scan", !.rows = Rows(T),
                                             !.trips = T, !.candidates = T]
    OBVIOUS
  <1>4. /\ call \in Call /\ call.step = "scan" /\ call.for = request[r].for
        /\ call.trips = T /\ call.rows = Rows(T) /\ call.candidates = T
    BY <1>1, <1>3, RowsFacts DEF Call, Steps
  <1>5. Complete(T, call.for) /\ Dated(T, call.moved, call.for) /\ T \subseteq OnDay(call.for)
    BY <1>2, <1>4 DEF Complete, Dated, OnDay, EditInv
  <1>6. RowsOK(call)
    BY <1>4, FreshRows
  <1>7. CallOK(call) /\ (watch.call = r => WatchedOK(call))
    BY <1>1, <1>2, <1>4, <1>5, <1>6 DEF CallOK, WatchedOK
  <1> QED
    BY <1>1, <1>2, <1>3, <1>4, <1>7, ReadKeeps DEF Query

LEMMA ReadDetailsKeeps ==
    ASSUME IInv, NEW r \in Request, ReadDetails(r)
    PROVE  IInv'
  <1> USE DEF IInv
  <1>1. /\ request[r] \in Call /\ request[r].step = "details"
        /\ Dated(request[r].candidates, request[r].moved, request[r].for)
        /\ watch.call = r => WatchedOK(request[r])
        /\ UNCHANGED <<catalogVars, cache, watch, changes>>
    BY CallFacts DEF ReadDetails, At, CallOK
  <1>2. PICK T \in SUBSET Trip :
           Continue(r, [request[r] EXCEPT !.step = "scan", !.rows = Rows(T),
                          !.trips = T, !.hit = TRUE])
    BY DEF ReadDetails
  <1>3. PICK call : call = [request[r] EXCEPT !.step = "scan", !.rows = Rows(T),
                                             !.trips = T, !.hit = TRUE]
    OBVIOUS
  <1>4. /\ call \in Call /\ call.step = "scan" /\ call.hit
        /\ call.trips = T /\ call.rows = Rows(T) /\ call.for = request[r].for
        /\ call.candidates = request[r].candidates /\ call.moved = request[r].moved
    BY <1>1, <1>3, RowsFacts DEF Call, Steps
  <1>5. RowsOK(call)
    BY <1>4, FreshRows
  <1>6. CallOK(call) /\ (watch.call = r => WatchedOK(call))
    BY <1>1, <1>4, <1>5 DEF CallOK, WatchedOK
  <1> QED
    BY <1>1, <1>2, <1>3, <1>4, <1>6, ReadKeeps

LEMMA EnoughFacts ==
    ASSUME NEW T \in SUBSET Trip, NEW seats \in [Trip -> Nat], NEW least \in Nat
    PROVE  /\ Enough(T, seats, least) \in SUBSET T
           /\ \A t \in T : seats[t] >= least => t \in Enough(T, seats, least)
  BY DEF Enough

\* The count of a trip, against the seat map of the moment the holds are read.
LEMMA CountExplained ==
    ASSUME TypeOK, NEW t \in Trip, NEW rows \in Nat, NEW sold \in Nat, NEW freed \in Nat,
           rows <= Cardinality(Available(t)) + sold,
           Cardinality(Available(t)) <= rows + freed
    PROVE  LET seats == Minus(rows, Cardinality(held[t]))
           IN  /\ seats <= Cardinality(Free(t)) + sold
               /\ Cardinality(Free(t)) <= seats + freed + Cardinality(held[t] \ Available(t))
  <1>1. PICK a \in Nat, h \in Nat, f \in Nat, o \in Nat :
           /\ a = Cardinality(Available(t)) /\ h = Cardinality(held[t])
           /\ f = Cardinality(Free(t)) /\ o = Cardinality(held[t] \ Available(t))
    BY SeatFacts
  <1>2. a + o = f + h
    BY <1>1, FreeBalance
  <1>3. a <= h + f
    <2>1. Available(t) \ held[t] = Free(t) /\ IsFiniteSet(Available(t)) /\ IsFiniteSet(held[t])
      BY SeatFacts DEF Free
    <2>2. PICK k \in Nat : k = Cardinality(Available(t) \cap held[t]) /\ f = a - k /\ k <= h
      <3>1. /\ IsFiniteSet(Available(t) \cap held[t])
            /\ Cardinality(Available(t) \cap held[t]) <= Cardinality(held[t])
        BY <2>1, FS_Subset
      <3>2. Cardinality(Available(t) \ held[t])
               = Cardinality(Available(t)) - Cardinality(Available(t) \cap held[t])
        BY <2>1, FS_Difference
      <3>3. Cardinality(Available(t) \cap held[t]) \in Nat
        BY <3>1, FS_CardinalityType
      <3> QED
        BY <1>1, <2>1, <3>1, <3>2, <3>3
    <2> QED
      BY <2>2
  <1>4. CASE rows > h
    BY <1>1, <1>2, <1>3, <1>4 DEF Minus
  <1>5. CASE ~(rows > h)
    BY <1>1, <1>2, <1>3, <1>5 DEF Minus
  <1> QED
    BY <1>4, <1>5

LEMMA CountKeeps ==
    ASSUME IInv, NEW r \in Request, At(r, "scan"), NEW holds \in [Trip -> Nat], NEW blind \in BOOLEAN,
           Count(r, holds, blind),
           ~blind => holds = [t \in Trip |-> Cardinality(held[t])],
           UNCHANGED <<catalogVars, cache, changes>>
    PROVE  IInv'
  <1> USE DEF IInv
  <1>1. /\ request[r] \in Call /\ request[r].step = "scan" /\ CallOK(request[r])
        /\ request[r].for \in Criteria
        /\ request[r].rows \in [Trip -> Nat] /\ request[r].trips \in SUBSET Trip
        /\ watch.call = r => WatchedOK(request[r])
        /\ UNCHANGED <<onSale, date, row, held, edited>>
    BY CallFacts DEF At, Call, catalogVars
  <1>2. PICK seats \in [Trip -> Nat] : seats = [t \in Trip |-> Minus(request[r].rows[t], holds[t])]
    <2>1. \A m, n \in Nat : Minus(m, n) \in Nat
      BY DEF Minus
    <2> QED
      BY <1>1, <2>1
  <1>3. PICK T \in SUBSET Trip : T = Enough(request[r].trips, seats, request[r].for.least)
    BY <1>1, CriteriaFacts, EnoughFacts
  <1>4. /\ T \subseteq request[r].trips
        /\ \A t \in request[r].trips : seats[t] >= request[r].for.least => t \in T
    BY <1>1, <1>3, CriteriaFacts, EnoughFacts
  <1>5. PICK call : call = [request[r] EXCEPT !.trips = T,
                              !.rows = IF watch.call = r THEN seats ELSE Nothing,
                              !.step = AfterCount(r, T)]
    OBVIOUS
  <1>6. Continue(r, call)
    BY <1>2, <1>3, <1>5 DEF Count
  <1>7. /\ call \in Call /\ call.for = request[r].for /\ call.trips = T
        /\ call.candidates = request[r].candidates /\ call.hit = request[r].hit
        /\ call.moved = request[r].moved
        /\ call.step = AfterCount(r, T)
        /\ watch.call = r => call.rows = seats
    BY <1>1, <1>5, NothingTyped DEF Call, Steps, AfterCount
  <1>8. /\ call.step \in {"nearby", "answered", "store"}
        /\ call.step = "store" => ~call.hit
        /\ call.step # "nearby" => T # {}
    BY <1>7 DEF AfterCount
  <1>9. CallOK(call)'
    BY <1>1, <1>7, <1>8 DEF CallOK, Complete, Dated
  <1>10. watch.call # r => watch' = watch
    BY DEF Count
  <1>11. ASSUME watch.call = r PROVE watch' \in Seen /\ watch'.call = r /\ WatchedOK(call)'
    <2>1. watch' = [watch EXCEPT !.free = [t \in Trip |-> Cardinality(Free(t))],
                                 !.stale = [t \in Trip |-> Cardinality(held[t] \ Available(t))],
                                 !.blind = blind]
      BY <1>11 DEF Count
    <2>2. /\ [t \in Trip |-> Cardinality(Free(t))] \in [Trip -> Nat]
          /\ [t \in Trip |-> Cardinality(held[t] \ Available(t))] \in [Trip -> Nat]
          /\ watch \in Seen
      BY SeatFacts DEF TypeOK
    <2>3. /\ watch' \in Seen
          /\ watch'.call = r /\ watch'.onSale = watch.onSale /\ watch'.dates = watch.dates
          /\ watch'.onDay = watch.onDay
          /\ watch'.sold = watch.sold /\ watch'.freed = watch.freed
          /\ watch'.details = watch.details /\ watch'.blind = blind
          /\ \A t \in Trip : watch'.free[t] = Cardinality(Free(t))
          /\ \A t \in Trip : watch'.stale[t] = Cardinality(held[t] \ Available(t))
      BY <1>11, <2>1, <2>2 DEF Seen
    <2>4. WatchedOK(request[r])
      BY <1>1, <1>11
    <2>5. ASSUME ~blind, NEW t \in request[r].trips
          PROVE  /\ seats[t] <= watch'.free[t] + watch'.sold[t]
                 /\ watch'.free[t] <= seats[t] + watch'.freed[t] + watch'.stale[t]
      <3>1. t \in Trip /\ request[r].rows[t] \in Nat /\ watch.sold[t] \in Nat /\ watch.freed[t] \in Nat
        BY <1>1, <2>2 DEF Seen
      <3>2. /\ request[r].rows[t] <= Cardinality(Available(t)) + watch.sold[t]
            /\ Cardinality(Available(t)) <= request[r].rows[t] + watch.freed[t]
        BY <1>1, <2>4 DEF WatchedOK, RowsOK
      <3>3. seats[t] = Minus(request[r].rows[t], Cardinality(held[t]))
        BY <1>2, <2>5, <3>1
      <3> QED
        BY <2>3, <3>1, <3>2, <3>3, CountExplained
    <2>6. ~blind => CountOK(call)'
      BY <1>4, <1>7, <1>11, <2>5 DEF CountOK
    <2>7. ASSUME ~blind, ~watch.details PROVE NoneMissing(call)'
      <3> SUFFICES ASSUME NEW t \in Trip \ edited', date'[t] = call.for.date,
                          watch'.free[t] >= call.for.least + watch'.freed[t] + watch'.stale[t]
                   PROVE  t \in T
        BY <1>7 DEF NoneMissing
      <3>1. t \in request[r].trips
        BY <1>1, <1>7, <2>4, <2>7 DEF WatchedOK, Complete, Dated
      <3>2. watch'.free[t] <= seats[t] + watch'.freed[t] + watch'.stale[t]
        BY <2>5, <2>7, <3>1
      <3>3. seats[t] \in Nat /\ call.for.least \in Nat
            /\ watch'.freed[t] \in Nat /\ watch'.stale[t] \in Nat /\ watch'.free[t] \in Nat
        BY <1>1, <1>7, <2>3, CriteriaFacts DEF Seen
      <3>4. seats[t] >= call.for.least
        BY <3>2, <3>3
      <3> QED
        BY <1>4, <1>7, <3>1, <3>4
    <2>8. call.step # "answered" => /\ onSale' \subseteq watch'.onSale
                                    /\ DatesOnSale' \subseteq watch'.dates
                                    /\ OnDay(call.for)' \subseteq watch'.onDay
      BY <1>1, <1>7, <2>3, <2>4 DEF WatchedOK, DatesOnSale, OnDay
    <2>9. ~watch.details =>
             /\ T \subseteq watch.onSale
             /\ T \subseteq watch.onDay \cup (IF call.hit THEN call.moved ELSE {})
      BY <1>1, <1>4, <1>7, <2>4 DEF WatchedOK
    <2> QED
      BY <1>7, <1>8, <2>3, <2>6, <2>7, <2>8, <2>9 DEF WatchedOK
  <1> QED
    BY <1>6, <1>7, <1>9, <1>10, <1>11, MoveKeeps

LEMMA ScanKeeps ==
    ASSUME IInv, NEW r \in Request, ScanHolds(r) \/ ScanFails(r)
    PROVE  IInv'
  <1>1. [t \in Trip |-> Cardinality(held[t])] \in [Trip -> Nat]
    BY SeatFacts DEF IInv
  <1>2. CASE ScanHolds(r)
    BY <1>1, <1>2, CountKeeps DEF ScanHolds
  <1>3. CASE ScanFails(r)
    BY <1>3, NothingTyped, CountKeeps DEF ScanFails
  <1> QED
    BY <1>2, <1>3

LEMMA NearbyDatesKeeps ==
    ASSUME IInv, NEW r \in Request, NearbyDates(r)
    PROVE  IInv'
  <1>1. /\ request[r] \in Call /\ request[r].step = "nearby" /\ CallOK(request[r])
        /\ watch.call = r => WatchedOK(request[r])
        /\ UNCHANGED <<catalogVars, cache, watch, changes>>
    BY CallFacts DEF NearbyDates, At
  <1>2. PICK call : call = [request[r] EXCEPT !.step = AfterDates(r),
                              !.dates = DatesOnSale \ {request[r].for.date}]
    OBVIOUS
  <1>3. DatesOnSale \in SUBSET Date
    BY DEF DatesOnSale, IInv, TypeOK
  <1>4. /\ call \in Call /\ call.for = request[r].for /\ call.trips = request[r].trips
        /\ call.rows = request[r].rows
        /\ call.candidates = request[r].candidates /\ call.hit = request[r].hit
        /\ call.moved = request[r].moved
        /\ call.step = IF call.hit THEN "answered" ELSE "store"
        /\ call.dates \subseteq DatesOnSale
    BY <1>1, <1>2, <1>3 DEF Call, Steps, AfterDates
  <1>5. CallOK(call)
    BY <1>1, <1>4 DEF CallOK
  <1>6. watch.call = r => WatchedOK(call)
    BY <1>1, <1>4 DEF WatchedOK, CountOK, NoneMissing
  <1> QED
    BY <1>1, <1>2, <1>4, <1>5, <1>6, ReadKeeps DEF NearbyDates

LEMMA StoreKeeps ==
    ASSUME IInv, NEW r \in Request, Store(r)
    PROVE  IInv'
  <1> USE DEF IInv
  <1>1. /\ request[r] \in Call /\ request[r].step = "store" /\ ~request[r].hit
        /\ request[r].for \in Criteria
        /\ request[r].candidates \in SUBSET Trip /\ request[r].dates \in SUBSET Date
        /\ request[r].moved \in SUBSET Trip
        /\ Complete(request[r].candidates, request[r].for)
        /\ Dated(request[r].candidates, request[r].moved, request[r].for)
        /\ watch.call = r => WatchedOK(request[r])
        /\ UNCHANGED <<catalogVars, watch, changes>>
    BY CallFacts DEF Store, Stored, At, CallOK, Call
  <1>2. PICK entry \in Entry : entry = [trips |-> request[r].candidates,
                                       dates |-> request[r].dates, moved |-> request[r].moved]
    BY <1>1 DEF Entry
  <1>3. cache' = cache \/ cache' = [cache EXCEPT ![request[r].for] = entry]
    BY <1>2 DEF Store, Stored
  <1>4. PICK call : call = [request[r] EXCEPT !.step = "answered", !.candidates = {}, !.moved = {}]
    OBVIOUS
  <1>5. /\ call \in Call /\ call.step = "answered" /\ call.for = request[r].for
        /\ call.trips = request[r].trips /\ call.rows = request[r].rows
        /\ call.dates = request[r].dates /\ call.candidates = {} /\ call.hit = request[r].hit
    BY <1>1, <1>4 DEF Call, Steps
  <1>6. UNCHANGED <<onSale, date, row, held, edited>> /\ watch' = watch
    BY <1>1 DEF catalogVars
  <1>7. ASSUME cache' = [cache EXCEPT ![request[r].for] = entry]
        PROVE  cache' \in [Criteria -> Entry \cup {NoEntry}] /\ CacheInv'
    <2>1. /\ cache' \in [Criteria -> Entry \cup {NoEntry}]
          /\ cache'[request[r].for] = entry
          /\ \A c \in Criteria \ {request[r].for} : cache'[c] = cache[c]
      BY <1>1, <1>7 DEF TypeOK
    <2>2. entry.trips = request[r].candidates /\ entry.moved = request[r].moved
      BY <1>2
    <2>3. ASSUME NEW c \in Criteria, cache'[c] # NoEntry
          PROVE  /\ \A t \in Trip \ edited : date[t] = c.date => t \in cache'[c].trips
                 /\ \A t \in cache'[c].trips : date[t] = c.date \/ t \in cache'[c].moved
      BY <1>1, <2>1, <2>2, <2>3 DEF CacheInv, Complete, Dated
    <2> QED
      BY <1>6, <2>1, <2>3 DEF CacheInv, Complete, Dated
  <1>8. CallOK(call)'
    BY <1>5 DEF CallOK, Dated
  <1>9. ASSUME watch.call = r PROVE WatchedOK(call)'
    <2>1. WatchedOK(call)
      BY <1>1, <1>5, <1>9 DEF WatchedOK, CountOK, NoneMissing
    <2> QED
      BY <1>5, <1>6, <2>1 DEF WatchedOK, CountOK, NoneMissing
  <1>10. watch' \in Seen /\ Continue(r, call)
    BY <1>1, <1>4 DEF TypeOK, Store, Stored
  <1> QED
    BY <1>1, <1>3, <1>5, <1>6, <1>7, <1>8, <1>9, <1>10, MoveKeeps

\* A call that ends, answered or not, and with it perhaps the watch.
LEMMA EndKeeps ==
    ASSUME IInv, NEW r \in Request, Failed(r) \/ Reply(r)
    PROVE  IInv'
  <1> USE DEF IInv
  <1>1. /\ UNCHANGED <<onSale, date, row, held, edited, cache, changes>>
        /\ request' = [request EXCEPT ![r] = NoCall]
        /\ watch' = Unwatched \/ (watch' = watch /\ watch.call # r)
    BY DEF Failed, Reply, catalogVars
  <1>2. /\ request' \in [Request -> Call]
        /\ request'[r] = NoCall
        /\ \A x \in Request \ {r} : request'[x] = request[x]
    BY <1>1, NoCallFacts DEF TypeOK
  <1>3. TypeOK' /\ EditInv' /\ CacheInv'
    BY <1>1, <1>2, UnwatchedTyped DEF TypeOK, EditInv, CacheInv, Complete, Dated
  <1>4. CallsInv'
    <2> SUFFICES ASSUME NEW x \in Request PROVE CallOK(request[x])'
      BY DEF CallsInv
    <2>1. PICK q : q = request'[x]
      OBVIOUS
    <2>2. CallOK(q)
      BY <1>2, <2>1, NoCallOK DEF CallsInv
    <2>3. CallOK(q)'
      BY <1>1, <2>2 DEF CallOK, Complete, Dated
    <2> QED
      BY <2>1, <2>3
  <1>5. WatchInv'
    <2>1. CASE watch' = Unwatched
      BY <2>1, UnwatchedTyped DEF WatchInv
    <2>2. CASE watch' = watch /\ watch.call # r
      <3> SUFFICES ASSUME watch.call # None PROVE WatchedOK(request[watch.call])'
        BY <2>2 DEF WatchInv
      <3>1. PICK q : q = request[watch.call] /\ q = request'[watch'.call] /\ WatchedOK(q)
        BY <1>2, <2>2, WatchedTyped DEF WatchInv
      <3>2. WatchedOK(q)'
        BY <1>1, <2>2, <3>1
           DEF WatchedOK, DatesOnSale, OnDay, RowsOK, Available, CountOK, NoneMissing,
               Complete, Dated
      <3> QED
        BY <3>1, <3>2
    <2> QED
      BY <1>1, <2>1, <2>2
  <1> QED
    BY <1>3, <1>4, <1>5

LEMMA StutterKeeps ==
    ASSUME IInv, UNCHANGED vars
    PROVE  IInv'
  <1> USE DEF IInv
  <1>1. UNCHANGED <<onSale, date, row, held, edited, cache, request, watch, changes>>
    BY DEF vars, catalogVars
  <1>2. TypeOK' /\ EditInv'
    BY <1>1 DEF TypeOK, EditInv
  <1>3. CacheInv' /\ CallsInv'
    BY <1>1, CallsFrame
  <1>4. WatchInv'
    <2>1. ASSUME NEW q, WatchedOK(q) PROVE WatchedOK(q)'
      BY <1>1, <2>1
         DEF WatchedOK, DatesOnSale, OnDay, RowsOK, Available, CountOK, NoneMissing,
             Complete, Dated
    <2> QED
      BY <1>1, <2>1, WatchFrame
  <1> QED
    BY <1>2, <1>3, <1>4

------------------------------------------------------------------------------
(* The invariant, and what follows from it. *)

LEMMA InitHolds ==
    ASSUME Init
    PROVE  IInv
  <1>1. TypeOK
    BY BoundIsNat, NoCallFacts, UnwatchedTyped DEF Init, TypeOK
  <1>2. CacheInv /\ EditInv
    BY DEF Init, CacheInv, EditInv
  <1>3. CallsInv
    BY NoCallOK DEF Init, CallsInv
  <1>4. WatchInv
    BY UnwatchedTyped DEF Init, WatchInv
  <1> QED
    BY <1>1, <1>2, <1>3, <1>4 DEF IInv

LEMMA NextKeeps ==
    ASSUME IInv, [Next]_vars
    PROVE  IInv'
  <1>1. CASE Environment
    BY <1>1, EditStatusKeeps, RescheduleKeeps, HoldsKeep, SalesKeep DEF Environment
  <1>2. ASSUME NEW r \in Request,
               (\E c \in Criteria : SearchTrips(r, c)) \/ TripDetails(r)
        PROVE  IInv'
    BY <1>2, StartKeeps
  <1>3. ASSUME NEW r \in Request, CallStep(r) PROVE IInv'
    BY <1>3, CacheGetKeeps, RefreshKeeps, QueryKeeps, ReadDetailsKeeps, ScanKeeps,
       NearbyDatesKeeps, StoreKeeps, EndKeeps DEF CallStep
  <1>4. CASE UNCHANGED vars
    BY <1>4, StutterKeeps
  <1> QED
    BY <1>1, <1>2, <1>3, <1>4 DEF Next

\* The invariant holds in every state: a cached list never lacks a trip of its
\* day that nobody edited, and what a call keeps stays true of its own reads.
THEOREM Invariant == Spec => []IInv
  <1>1. Init => IInv
    BY InitHolds
  <1>2. IInv /\ [Next]_vars => IInv'
    BY NextKeeps
  <1> QED
    BY <1>1, <1>2, PTL DEF Spec

\* What SearchTrips and GetTripDetail answer was true during the call: trips
\* were on sale, counts differ from the seat map only by what was sold or given
\* back between the two stores, and suggested days had something to buy.
THEOREM Soundness == Spec => []AnswersSound
  <1>1. IInv => AnswersSound
    <2> SUFFICES ASSUME IInv PROVE AnswersSound
      OBVIOUS
    <2>1. Answered => /\ WatchedOK(answer) /\ answer.step = "answered"
      BY DEF Answered, Watching, At, answer, IInv, WatchInv
    <2>2. OnSaleOnly
      BY <2>1 DEF OnSaleOnly, Searched, WatchedOK
    <2>3. SeatCountExplained
      BY <2>1 DEF SeatCountExplained, WatchedOK, CountOK
    <2>4. SuggestionsCurrent
      BY <2>1 DEF SuggestionsCurrent, Searched, WatchedOK
    <2>5. RightDay
      BY <2>1 DEF RightDay, Searched, WatchedOK
    <2> QED
      BY <2>2, <2>3, <2>4, <2>5 DEF AnswersSound, IInv
  <1> QED
    BY <1>1, Invariant, PTL

\* A trip nobody edits is found by every search for its date while it has the
\* seats, whether its list came from PostgreSQL or from the cache.
THEOREM Completeness == Spec => []NothingWithheld
  <1>1. IInv => NothingWithheld
    <2> SUFFICES ASSUME IInv, Searched, ~watch.blind PROVE NoneMissing(answer)
      BY DEF NothingWithheld, NoneMissing
    <2>1. WatchedOK(answer) /\ answer.step = "answered"
      BY DEF Searched, Answered, Watching, At, answer, IInv, WatchInv
    <2> QED
      BY <2>1 DEF Searched, WatchedOK
  <1> QED
    BY <1>1, Invariant, PTL
=============================================================================
