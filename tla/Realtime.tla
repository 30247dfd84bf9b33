------------------------------- MODULE Realtime -------------------------------
(***************************************************************************)
(* How a seat map in a browser follows Seat Inventory.  Seats change by    *)
(* calls of the gateway, which broadcasts their outcome, and behind its    *)
(* back: then an event goes through RabbitMQ to the bridge of the gateway  *)
(* (events/workflowBridge.js), which reads the seats again and broadcasts  *)
(* what it read.  A broadcast (server/pubsub.js) goes through the iterator *)
(* of every subscription and a websocket to the browser.                   *)
(*                                                                         *)
(* Hold tokens are left out: a key of a seat is there, or it is not.       *)
(***************************************************************************)
EXTENDS Naturals, Sequences, WorkflowConsumer

CONSTANTS
    Seat,
    Viewer,      \* browsers that show the seat map
    Resolver,    \* slots for mutations of the gateway in flight (bound)
    MaxEvents,   \* holds, blocks, failures and crashes together (bound)
    None

ASSUME EventsAreBounded == MaxEvents \in Nat

VARIABLES
    row,      \* trip_seats.status
    held,     \* seats with a hold key
    sale,     \* a sale or its cancellation in progress, with its event to come
    queue,    \* graphql-gateway.realtime: events for each seat
    task,     \* what resolvers, the handlers they call and the bridge are doing
    stream,   \* the iterator of each viewer's subscription
    orphaned, \* a handler is running whose channel has closed
    due,      \* for the properties: see Change
    silent,   \* for the properties: seats whose last change is not announced
    events

seatVars == <<row, held, sale>>
vars == <<consumerVars, seatVars, queue, task, stream, orphaned, due, silent, events>>

Status == {"AVAILABLE", "HELD", "BOOKED", "BLOCKED"}

ASSUME NoneIsNoStatus == None \notin Status

\* Mutations, and the handler of the bridge.
Worker == Resolver \cup {"bridge"}

\* A mutation in Seat Inventory ("create" to "unhold"): its status is the one that
\* the gateway will broadcast, None when nobody waits for the reply.  A seat map
\* being read ("rows", "holds").  A broadcast to come ("publish").
\* seen: for the properties, what the seat was like since the rows were read.
Steps == {"idle", "create", "recheck", "discard", "unhold", "rows", "holds", "publish"}

Task == [step : Steps, seat : Seat \cup {None},
         row : Status \cup {None}, status : Status \cup {None}, seen : SUBSET Status]

Idle == [step |-> "idle", seat |-> None, row |-> None, status |-> None, seen |-> {}]

Message == [seat : Seat, status : Status]

\* What subscribeToTopic keeps: active, queue and whether next() waits for an
\* event (pendingResolve); and the result on its way to the browser.
Stream == [active : BOOLEAN, queue : Seq(Message), waiting : BOOLEAN, wire : Seq(Message)]

Off == [active |-> FALSE, queue |-> <<>>, waiting |-> FALSE, wire |-> <<>>]

TypeOK ==
    /\ ConsumerTypeOK
    /\ row \in [Seat -> {"AVAILABLE", "BOOKED", "BLOCKED"}]
    /\ held \in SUBSET Seat
    /\ sale \in [Seat -> {"none", "confirmed", "freed"}]
    /\ queue \in [Seat -> Nat]
    /\ task \in [Worker -> Task]
    /\ stream \in [Viewer -> Stream]
    /\ \A v \in Viewer :
          /\ Len(stream[v].wire) <= 1
          /\ stream[v].waiting => stream[v].queue = <<>> /\ stream[v].wire = <<>>
    /\ orphaned \in BOOLEAN
    /\ due \in [Viewer -> SUBSET Seat]
    /\ silent \in SUBSET Seat
    /\ events \in 0..MaxEvents

Init ==
    /\ ConsumerInit
    /\ row = [s \in Seat |-> "AVAILABLE"]
    /\ held = {}
    /\ sale = [s \in Seat |-> "none"]
    /\ queue = [s \in Seat |-> 0]
    /\ task = [t \in Worker |-> Idle]
    /\ stream = [v \in Viewer |-> Off]
    /\ orphaned = FALSE
    /\ due = [v \in Viewer |-> {}]
    /\ silent = {}
    /\ events = 0

------------------------------------------------------------------------------
(* Seats change *)

\* Mutant form: a hold key hides the status of the row.
ShownHeld(rowStatus, isHeld) == IF isHeld THEN "HELD" ELSE rowStatus

\* toSeatResponse
Shown(rowStatus, isHeld) ==
    IF rowStatus = "AVAILABLE" /\ isHeld THEN "HELD" ELSE rowStatus

\* What a seat is: sold or blocked by its row, else held by its key.
Truth(rowStatus, isHeld) ==
    CASE rowStatus # "AVAILABLE" -> rowStatus
      [] rowStatus = "AVAILABLE" /\ isHeld -> "HELD"
      [] OTHER -> "AVAILABLE"

SeatIs(s) == Truth(row[s], s \in held)

\* The seat becomes "is": those who are subscribed are due its new status, and the
\* reads in progress have seen it.  "announced": an event or a broadcast follows.
Change(s, is, announced, work) ==
    /\ due' = [v \in Viewer |->
                 IF is # SeatIs(s) /\ stream[v].active THEN due[v] \cup {s} ELSE due[v]]
    /\ task' = [t \in DOMAIN work |->
                  IF work[t].step = "holds" /\ work[t].seat = s
                  THEN [work[t] EXCEPT !.seen = @ \cup {is}] ELSE work[t]]
    /\ silent' = IF is = SeatIs(s) THEN silent
                 ELSE IF announced THEN silent \ {s} ELSE silent \cup {s}

Counted == events < MaxEvents /\ events' = events + 1

Serving == ~booting

\* The call of a mutation is at a step of its handler in Seat Inventory.
Handling(r, s, step, status) ==
    [task EXCEPT ![r] = [Idle EXCEPT !.step = step, !.seat = s, !.status = status]]

Awaited(r) == task[r].status # None

\* The reply of the call is broadcast next, if the gateway still waits for it.
Replied(r) ==
    [task EXCEPT ![r] = IF Awaited(r)
                        THEN [@ EXCEPT !.step = "publish", !.seen = {task[r].status}]
                        ELSE Idle]

\* The change that mutation r made will not be announced, if it is still the last.
Unannounced(r) ==
    IF SeatIs(task[r].seat) = task[r].status
    THEN silent \cup {task[r].seat} ELSE silent

\* The seat is read again, by GetSeatMap.
Reading(t, s) == [task EXCEPT ![t] = [Idle EXCEPT !.step = "rows", !.seat = s]]

\* holdSeats: the handler finds the row free,
HoldSeats(r, s) ==
    /\ Serving /\ Counted
    /\ task[r] = Idle
    /\ row[s] = "AVAILABLE"
    /\ task' = Handling(r, s, "create", "HELD")
    /\ UNCHANGED <<consumerVars, seatVars, queue, stream, orphaned, due, silent>>

\* writes the key, whatever the row is by now, unless there is one or it fails,
CreateHold(r) ==
    LET s == task[r].seat IN
    /\ task[r].step = "create"
    /\ \/ /\ s \notin held
          /\ held' = held \cup {s}
          /\ Change(s, Truth(row[s], TRUE), Awaited(r), [task EXCEPT ![r].step = "recheck"])
          /\ UNCHANGED events
       \/ /\ \/ s \in held /\ UNCHANGED events
             \/ Counted
          /\ task' = [task EXCEPT ![r] = Idle]
          /\ UNCHANGED <<held, due, silent>>
    /\ UNCHANGED <<consumerVars, row, sale, queue, stream, orphaned>>

\* and reads row and trip again: the hold stands, or it is discarded because the
\* seat was taken, the trip closed, or a call failed.
RecheckHold(r) ==
    /\ task[r].step = "recheck"
    /\ \/ /\ row[task[r].seat] = "AVAILABLE"
          /\ task' = Replied(r)
          /\ UNCHANGED <<silent, events>>
       \/ /\ \/ row[task[r].seat] # "AVAILABLE" /\ UNCHANGED events
             \/ Counted
          /\ task' = [task EXCEPT ![r].step = "discard", ![r].status = None]
          /\ silent' = Unannounced(r)
    /\ UNCHANGED <<consumerVars, seatVars, queue, stream, orphaned, due>>

\* The key is deleted, unless Redis fails or it has gone before.
DropKey(s, work) ==
    \/ /\ held' = held \ {s}
       /\ Change(s, row[s], FALSE, work)
    \/ task' = work /\ UNCHANGED <<held, due, silent>>

DiscardHold(r) ==
    /\ task[r].step = "discard"
    /\ DropKey(task[r].seat, [task EXCEPT ![r] = Idle])
    /\ UNCHANGED <<consumerVars, row, sale, queue, stream, orphaned, events>>

\* releaseSeatHold, and publishSeatStates after it.
ReleaseSeatHold(r, s) ==
    /\ Serving
    /\ task[r] = Idle
    /\ s \in held
    /\ held' = held \ {s}
    /\ Change(s, row[s], TRUE, Reading(r, s))
    /\ UNCHANGED <<consumerVars, row, sale, queue, stream, orphaned, events>>

\* adminBlockSeats: blockTripSeats takes every row that is not sold, held or not,
BlockSeats(r, s) ==
    /\ Serving /\ Counted
    /\ task[r] = Idle
    /\ row[s] # "BOOKED"
    /\ row' = [row EXCEPT ![s] = "BLOCKED"]
    /\ Change(s, "BLOCKED", TRUE, Handling(r, s, "unhold", "BLOCKED"))
    /\ UNCHANGED <<consumerVars, held, sale, queue, stream, orphaned>>

\* and releaseSeatHolds deletes the key, whose ever it is.
ReleaseSeatHolds(r) ==
    /\ task[r].step = "unhold"
    /\ DropKey(task[r].seat, Replied(r))
    /\ UNCHANGED <<consumerVars, row, sale, queue, stream, orphaned, events>>

Enqueue(s) == queue' = [queue EXCEPT ![s] = @ + 1]

\* A hold key expires, and publishExpiredHold sends its event, unless Redis or
\* RabbitMQ is away: then the event is lost.
HoldExpires(s) ==
    /\ s \in held
    /\ held' = held \ {s}
    /\ \/ /\ Enqueue(s)
          /\ Change(s, row[s], TRUE, task)
          /\ UNCHANGED events
       \/ /\ Counted
          /\ Change(s, row[s], FALSE, task)
          /\ UNCHANGED queue
    /\ UNCHANGED <<consumerVars, row, sale, stream, orphaned>>

\* ConfirmSeats updates the row, and then deletes the key unless Redis fails.
ConfirmSeats(s) ==
    /\ row[s] = "AVAILABLE" /\ s \in held /\ sale[s] = "none"
    /\ row' = [row EXCEPT ![s] = "BOOKED"]
    /\ \/ held' = held \ {s} /\ UNCHANGED events
       \/ Counted /\ UNCHANGED held
    /\ sale' = [sale EXCEPT ![s] = "confirmed"]
    /\ Change(s, "BOOKED", TRUE, task)
    /\ UNCHANGED <<consumerVars, queue, stream, orphaned>>

\* The outbox delivers booking.paid; or the settlement has failed, its
\* compensation gives the seat back, and there is no event.
SettlementEnds(s) ==
    /\ sale[s] = "confirmed"
    /\ sale' = [sale EXCEPT ![s] = "none"]
    /\ \/ /\ Enqueue(s)
          /\ UNCHANGED <<row, events, due, task, silent>>
       \/ /\ Counted
          /\ row' = [row EXCEPT ![s] = "AVAILABLE"]
          /\ Change(s, Truth("AVAILABLE", s \in held), FALSE, task)
          /\ UNCHANGED queue
    /\ UNCHANGED <<consumerVars, held, stream, orphaned>>

\* A cancelled booking gives its seat back ...
CancelBooking(s) ==
    /\ row[s] = "BOOKED" /\ sale[s] = "none"
    /\ row' = [row EXCEPT ![s] = "AVAILABLE"]
    /\ sale' = [sale EXCEPT ![s] = "freed"]
    /\ Change(s, Truth("AVAILABLE", s \in held), TRUE, task)
    /\ UNCHANGED <<consumerVars, held, queue, stream, orphaned, events>>

\* ... and handleBookingLifecycleEvent announces it; if that fails, the event of
\* the booking is a dead letter.
AnnounceRelease(s) ==
    /\ sale[s] = "freed"
    /\ sale' = [sale EXCEPT ![s] = "none"]
    /\ \/ Enqueue(s) /\ UNCHANGED <<events, silent>>
       \/ Counted /\ silent' = silent \cup {s} /\ UNCHANGED queue
    /\ UNCHANGED <<consumerVars, row, held, task, stream, orphaned, due>>

------------------------------------------------------------------------------
(* The gateway reads and broadcasts *)

RowsRead(t, s) ==
    [task EXCEPT ![t] = [step |-> "holds", seat |-> s, row |-> row[s], status |-> None,
                         seen |-> {SeatIs(s)}]]

\* RabbitMQ delivers one message at a time (prefetch).  Its handler calls
\* GetSeatMap, which reads the rows ...
Deliver(s) ==
    /\ Consuming
    /\ task["bridge"] = Idle
    /\ queue[s] > 0
    /\ queue' = [queue EXCEPT ![s] = @ - 1]
    /\ task' = RowsRead("bridge", s)
    /\ UNCHANGED <<consumerVars, seatVars, stream, orphaned, due, silent, events>>

ReadRows(r) ==
    /\ task[r].step = "rows"
    /\ task' = RowsRead(r, task[r].seat)
    /\ UNCHANGED <<consumerVars, seatVars, queue, stream, orphaned, due, silent, events>>

\* ... and then the hold keys.
ReadHolds(t) ==
    /\ task[t].step = "holds"
    /\ task' = [task EXCEPT ![t].step = "publish",
                            ![t].status = Shown(task[t].row, task[t].seat \in held)]
    /\ UNCHANGED <<consumerVars, seatVars, queue, stream, orphaned, due, silent, events>>

\* A resolver swallows the failure, the bridge rejects its message: a dead letter.
ReadFails(t) ==
    /\ task[t].step \in {"rows", "holds"}
    /\ Counted
    /\ silent' = silent \cup {task[t].seat}
    /\ task' = [task EXCEPT ![t] = Idle]
    /\ UNCHANGED <<consumerVars, seatVars, queue, stream, orphaned, due>>

\* The deadline of the call passes: there is no reply to broadcast.  (If it passes
\* earlier, the handler goes on, and that nobody waits shows when it is through.)
ReplyLost(r) ==
    /\ task[r].step = "publish"
    /\ Counted
    /\ silent' = Unannounced(r)
    /\ task' = [task EXCEPT ![r] = Idle]
    /\ UNCHANGED <<consumerVars, seatVars, queue, stream, orphaned, due>>

\* Mutant form: an event nobody waits for is dropped.
OnEventUnqueued(st, m) ==
    IF st.active /\ st.waiting THEN [st EXCEPT !.waiting = FALSE, !.wire = <<m>>] ELSE st

\* onEvent of subscribeToTopic
OnEvent(st, m) ==
    IF ~st.active THEN st
    ELSE IF st.waiting THEN [st EXCEPT !.waiting = FALSE, !.wire = <<m>>]
    ELSE [st EXCEPT !.queue = Append(@, m)]

\* publishSeatStateChanged; then the bridge acknowledges its message.
Publish(t) ==
    /\ task[t].step = "publish"
    /\ stream' = [v \in Viewer |->
          OnEvent(stream[v], [seat |-> task[t].seat, status |-> task[t].status])]
    /\ task' = [task EXCEPT ![t] = Idle]
    /\ UNCHANGED <<consumerVars, seatVars, queue, orphaned, due, silent, events>>

------------------------------------------------------------------------------
(* Links and processes fail *)

InHand(t) == IF task[t] = Idle THEN {} ELSE {task[t].seat}

\* The message in hand was not acknowledged: RabbitMQ queues it again.
Redeliver ==
    queue' = [s \in Seat |-> IF s \in InHand("bridge") THEN queue[s] + 1 ELSE queue[s]]

LinkCloses ==
    /\ LinkLost
    /\ Counted
    /\ Redeliver
    /\ orphaned' = (orphaned \/ task["bridge"] # Idle)
    /\ task' = [task EXCEPT !["bridge"] = Idle]
    /\ UNCHANGED <<seatVars, stream, due, silent>>

\* The resolvers and all subscriptions are gone; what a resolver called goes on.
GatewayDies ==
    /\ Restart
    /\ Redeliver
    /\ silent' = silent \cup UNION {InHand(r) : r \in Resolver}
    /\ task' = [t \in DOMAIN task |->
                  IF task[t].step \in {"create", "recheck", "discard", "unhold"}
                  THEN [task[t] EXCEPT !.status = None] ELSE Idle]
    /\ stream' = [v \in Viewer |-> Off]
    /\ orphaned' = FALSE
    /\ due' = [v \in Viewer |-> {}]
    /\ UNCHANGED <<seatVars>>

Crash == Counted /\ GatewayDies

\* A handler whose channel has closed broadcasts, and can then neither acknowledge
\* nor reject its message: both throw, nobody catches the second error, and the
\* process ends.
OrphanEnds ==
    /\ orphaned
    /\ GatewayDies
    /\ UNCHANGED events

Unaffected == UNCHANGED <<seatVars, queue, task, stream, orphaned, due, silent>>

\* Connecting goes on; on a closed link configure fails.
Reconnect ==
    /\ Connect \/ Configure \/ Finish \/ TimerFires \/ (ConfigureFails /\ link = "closed")
    /\ Unaffected /\ UNCHANGED events

AttemptBreaks ==
    /\ ConnectFails \/ (ConfigureFails /\ link = "open")
    /\ Counted
    /\ Unaffected

------------------------------------------------------------------------------
(* The viewers *)

\* The effect of SeatMap.jsx, and the retry of graphql-ws: nothing is fetched.
Subscribe(v) ==
    /\ Serving
    /\ ~stream[v].active
    /\ stream' = [stream EXCEPT ![v].active = TRUE]
    /\ UNCHANGED <<consumerVars, seatVars, queue, task, orphaned, due, silent, events>>

\* The websocket closes, and graphql-ws calls return() of the iterator.
Disconnect(v) ==
    /\ stream[v].active
    /\ Counted
    /\ stream' = [stream EXCEPT ![v] = Off]
    /\ due' = [due EXCEPT ![v] = {}]
    /\ UNCHANGED <<consumerVars, seatVars, queue, task, orphaned, silent>>

\* graphql-ws calls next() again when it has sent the last result.
NextResult(v) ==
    LET st == stream[v] IN
    /\ st.active /\ ~st.waiting /\ st.wire = <<>>
    /\ stream' = [stream EXCEPT ![v] =
          IF st.queue = <<>> THEN [st EXCEPT !.waiting = TRUE]
          ELSE [st EXCEPT !.wire = <<Head(st.queue)>>, !.queue = Tail(@)]]
    /\ UNCHANGED <<consumerVars, seatVars, queue, task, orphaned, due, silent, events>>

\* onSeat: setLiveUpdates
Receive(v) ==
    LET m == Head(stream[v].wire) IN
    /\ stream[v].wire # <<>>
    /\ stream' = [stream EXCEPT ![v].wire = <<>>]
    /\ due' = IF m.status = SeatIs(m.seat) THEN [due EXCEPT ![v] = @ \ {m.seat}] ELSE due
    /\ UNCHANGED <<consumerVars, seatVars, queue, task, orphaned, silent, events>>

------------------------------------------------------------------------------
SeatStep(s) ==
    \/ \E r \in Resolver : HoldSeats(r, s) \/ ReleaseSeatHold(r, s) \/ BlockSeats(r, s)
    \/ HoldExpires(s) \/ ConfirmSeats(s) \/ SettlementEnds(s)
    \/ CancelBooking(s) \/ AnnounceRelease(s) \/ Deliver(s)

\* Handlers and answers of mutations
ResolverStep(r) ==
    \/ CreateHold(r) \/ RecheckHold(r) \/ DiscardHold(r) \/ ReleaseSeatHolds(r)
    \/ ReadRows(r) \/ ReplyLost(r)

TaskStep(t) == ReadHolds(t) \/ ReadFails(t) \/ Publish(t)

ViewerStep(v) == Subscribe(v) \/ Disconnect(v) \/ NextResult(v) \/ Receive(v)

Next ==
    \/ \E s \in Seat : SeatStep(s)
    \/ \E t \in DOMAIN task : TaskStep(t)
    \/ \E r \in Resolver : ResolverStep(r)
    \/ \E v \in Viewer : ViewerStep(v)
    \/ LinkCloses \/ Crash \/ OrphanEnds \/ Reconnect \/ AttemptBreaks

\* Timers fire, connections and calls end, messages are delivered.
Fairness ==
    /\ WF_vars(Reconnect)
    /\ \A s \in Seat : WF_vars(Deliver(s))
    /\ WF_vars(ReadHolds("bridge") \/ Publish("bridge"))
    /\ WF_vars(OrphanEnds)

Spec == Init /\ [][Next]_vars /\ Fairness

------------------------------------------------------------------------------
(* Properties *)

\* No call, event or message is on its way.
Quiet ==
    /\ \A s \in Seat : queue[s] = 0 /\ sale[s] = "none"
    /\ \A t \in DOMAIN task : task[t] = Idle
    /\ \A v \in Viewer : stream[v].wire = <<>> /\ stream[v].queue = <<>>

\* When nothing is on its way any more, whoever is subscribed has been told what
\* every seat became that changed since, unless its last change was announced by
\* nobody.  (They may have been told an older status afterwards: broadcasts
\* overtake each other.)
ViewersTold == Quiet => \A v \in Viewer : due[v] \subseteq silent

\* GetSeatMap reads two stores.  Its answer is what the seat was at some moment of
\* the call, unless the seat was sold or blocked in the call: then it may be called
\* free that was held before, or held that was free before, by the key of a hold
\* that will be refused.
TornOnlyWhenTaken ==
    \A t \in DOMAIN task :
        task[t].step = "publish" =>
            \/ task[t].status \in task[t].seen
            \/ /\ task[t].seen \cap {"BOOKED", "BLOCKED"} # {}
               /\ \/ task[t].status = "AVAILABLE" /\ "HELD" \in task[t].seen
                  \/ task[t].status = "HELD" /\ "AVAILABLE" \in task[t].seen

\* Every event that reached the queue is handled in the end, through lost links
\* and crashes, unless the consumer overlooked the loss of its link.
EventsHandled ==
    <>[](overlooked \/ \A s \in Seat : queue[s] = 0 /\ s \notin InHand("bridge"))
==============================================================================
