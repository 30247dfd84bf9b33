--------------------------- MODULE ConnectionProofs ----------------------------
(***************************************************************************)
(* Proofs about the reconnecting consumer, the gateway that is built on    *)
(* it, the circuit breaker and the connection pools, and about the union   *)
(* that MCConnections checks.                                              *)
(*                                                                         *)
(* The consumer reconnects, for every program that is built around it, and *)
(* the gateway in particular, which tells its viewers of every announced   *)
(* change, for any number of seats, viewers and mutations.  The breaker:   *)
(* for any number of calls and any threshold, deadline and cooldown with   *)
(* the deadline shorter than the cooldown, as the defaults of call.js are  *)
(* (5 s and 10 s).  The pools: for any calls and sizes.                    *)
(***************************************************************************)
EXTENDS MCConnections, FiniteSetTheorems, TLAPS


------------------------------------------------------------------------------
(* The consumer by itself *)

\* A link closes under an attempt only while that attempt still works on it, or
\* it is overlooked; and after a boot there has been a link.
ConsumerInv ==
    /\ ConsumerTypeOK
    /\ Reconnecting
    /\ OneLink
    /\ booting => ~timer
    /\ booting => attempt # "none"
    /\ attempt = "finish" /\ link # "open" => overlooked

LEMMA ConsumerInitially == ConsumerInit => ConsumerInv
BY DEF ConsumerInit, ConsumerInv, ConsumerTypeOK, Attempt, Reconnecting, OneLink

LEMMA ConsumerProgressKeeps == ConsumerInv /\ ConsumerProgress => ConsumerInv'
<1> SUFFICES ASSUME ConsumerInv, ConsumerProgress PROVE ConsumerInv'
    OBVIOUS
<1> USE DEF ConsumerInv, ConsumerTypeOK, Attempt, Reconnecting, OneLink
<1>1. CASE Connect          BY <1>1 DEF Connect
<1>2. CASE Configure        BY <1>2 DEF Configure
<1>3. CASE ConnectFails     BY <1>3 DEF ConnectFails, AttemptFailed
<1>4. CASE ConfigureFails   BY <1>4 DEF ConfigureFails, AttemptFailed
<1>5. CASE Finish           BY <1>5 DEF Finish
<1>6. CASE TimerFires       BY <1>6 DEF TimerFires
<1> QED BY <1>1, <1>2, <1>3, <1>4, <1>5, <1>6 DEF ConsumerProgress

LEMMA ConsumerStep == ConsumerInv /\ [ConsumerNext]_consumerVars => ConsumerInv'
<1> SUFFICES ASSUME ConsumerInv, [ConsumerNext]_consumerVars PROVE ConsumerInv'
    OBVIOUS
<1>1. CASE ConsumerProgress
      BY <1>1, ConsumerProgressKeeps
<1>2. CASE LinkLost
      BY <1>2 DEF LinkLost, ScheduleReconnect, ConsumerInv, ConsumerTypeOK, Attempt,
                  Reconnecting, OneLink
<1>3. CASE Restart
      BY <1>3 DEF Restart, ConsumerInv, ConsumerTypeOK, Attempt, Reconnecting, OneLink
<1>4. CASE UNCHANGED consumerVars
      BY <1>4 DEF consumerVars, ConsumerInv, ConsumerTypeOK, Reconnecting, OneLink
<1> QED BY <1>1, <1>2, <1>3, <1>4 DEF ConsumerNext

\* A consumer without a link has an attempt under way or its timer running, and
\* never more than one link is opened (scheduleReconnect, ensureConnected).
THEOREM ConsumerReconnects == ConsumerSpec => []KeepsOneLink
<1>1. ConsumerInv => KeepsOneLink
      BY DEF ConsumerInv, KeepsOneLink
<1> QED BY ConsumerInitially, ConsumerStep, <1>1, PTL DEF ConsumerSpec

------------------------------------------------------------------------------
(* The gateway *)

LEMMA GatewayStep == [Next]_vars => [ConsumerNext]_consumerVars
<1> SUFFICES ASSUME [Next]_vars PROVE [ConsumerNext]_consumerVars
    OBVIOUS
<1>1. ASSUME NEW s \in Seat, SeatStep(s) PROVE UNCHANGED consumerVars
      BY <1>1 DEF SeatStep, HoldSeats, ReleaseSeatHold, BlockSeats, HoldExpires,
                  ConfirmSeats, SettlementEnds, CancelBooking, AnnounceRelease, Deliver
<1>2. ASSUME NEW t \in DOMAIN task, TaskStep(t) PROVE UNCHANGED consumerVars
      BY <1>2 DEF TaskStep, ReadHolds, ReadFails, Publish
<1>3. ASSUME NEW r \in Resolver, ResolverStep(r) PROVE UNCHANGED consumerVars
      BY <1>3 DEF ResolverStep, CreateHold, RecheckHold, DiscardHold, ReleaseSeatHolds,
                  ReadRows, ReplyLost
<1>4. ASSUME NEW v \in Viewer, ViewerStep(v) PROVE UNCHANGED consumerVars
      BY <1>4 DEF ViewerStep, Subscribe, Disconnect, NextResult, Receive
<1>5. CASE LinkCloses
      BY <1>5 DEF LinkCloses, ConsumerNext
<1>6. CASE Crash \/ OrphanEnds
      BY <1>6 DEF Crash, OrphanEnds, GatewayDies, ConsumerNext
<1>7. CASE Reconnect \/ AttemptBreaks
      BY <1>7 DEF Reconnect, AttemptBreaks, ConsumerNext, ConsumerProgress
<1>8. CASE UNCHANGED vars
      BY <1>8 DEF vars
<1> QED BY <1>1, <1>2, <1>3, <1>4, <1>5, <1>6, <1>7, <1>8 DEF Next

\* Whatever the gateway does around it, its consumer is the one specified.
THEOREM GatewayConsumes == Spec => ConsumerSpec
<1>1. Init => ConsumerInit
      BY DEF Init
<1> QED BY <1>1, GatewayStep, PTL DEF Spec, ConsumerSpec

\* The consumer of the realtime bridge reconnects, and never holds two links, over
\* which messages would be handled at once, for any seats, viewers and mutations in
\* flight.
THEOREM BridgeReconnects == Spec => []KeepsOneLink
BY GatewayConsumes, ConsumerReconnects, PTL

------------------------------------------------------------------------------
(* What the viewers are told *)

\* The status in hand is one that the seat had during the call, or the seat was sold
\* or blocked in between.
Timely(t) ==
    \/ task[t].status \in task[t].seen
    \/ /\ task[t].seen \cap {"BOOKED", "BLOCKED"} # {}
       /\ \/ task[t].status = "AVAILABLE" /\ "HELD" \in task[t].seen
          \/ task[t].status = "HELD" /\ "AVAILABLE" \in task[t].seen

\* Between the two reads: whatever the holds say now, the answer will be timely.
ReadSound(t) ==
    /\ SeatIs(task[t].seat) \in task[t].seen
    /\ task[t].row # "AVAILABLE" => task[t].row \in task[t].seen
    /\ task[t].row = "AVAILABLE" => "AVAILABLE" \in task[t].seen \/ "HELD" \in task[t].seen

TaskSound(t) ==
    /\ task[t].step = "idle" => task[t] = Idle
    /\ task[t].step # "idle" => task[t].seat \in Seat
    /\ task[t].step = "create" => task[t].status \in {"HELD", None}
    /\ task[t].step = "holds" => ReadSound(t)
    /\ task[t].step = "publish" => Timely(t)

\* Work w goes on to broadcast that seat s is "is", or reads the seat before it does.
Announces(w, s, is) ==
    /\ w.seat = s
    /\ \/ w.step = "rows"
       \/ w.step \in {"recheck", "unhold", "publish"} /\ w.status = is

\* Task t is about to broadcast what seat s is now, unless the seat changes before.
WillTell(t, s) ==
    \/ Announces(task[t], s, SeatIs(s))
    \/ task[t].seat = s /\ task[t].step = "holds" /\ task[t].row = row[s]

ToCome(s) ==
    \/ queue[s] > 0
    \/ sale[s] # "none"
    \/ \E t \in Worker : WillTell(t, s)

\* The status of the seat is on its way to the browser.
Carried(v, s) ==
    \/ \E i \in 1..Len(stream[v].queue) :
          stream[v].queue[i] = [seat |-> s, status |-> SeatIs(s)]
    \/ \E i \in 1..Len(stream[v].wire) :
          stream[v].wire[i] = [seat |-> s, status |-> SeatIs(s)]

Told == \A v \in Viewer : \A s \in due[v] \ silent : ToCome(s) \/ Carried(v, s)

RealtimeInv ==
    /\ TypeOK
    /\ \A t \in Worker : TaskSound(t)
    /\ \A s \in Seat : sale[s] = "confirmed" => row[s] = "BOOKED"
    /\ \A v \in Viewer : ~stream[v].active => due[v] = {}
    /\ Told

LEMMA Initially == Init => RealtimeInv
<1> SUFFICES ASSUME Init PROVE RealtimeInv
    OBVIOUS
<1>1. \A t \in Worker : task[t] = Idle
      BY DEF Init
<1>2. \A v \in Viewer : stream[v] = Off /\ due[v] = {}
      BY DEF Init
<1>3. stream \in [Viewer -> Stream]
  <2>1. Off \in Stream
        BY DEF Off, Stream
  <2> QED BY <2>1 DEF Init
<1>4. task \in [Worker -> Task]
  <2>1. Idle \in Task
        BY DEF Idle, Task, Steps
  <2> QED BY <2>1 DEF Init
<1>5. \A v \in Viewer : Len(stream[v].wire) <= 1 /\ (stream[v].waiting => FALSE)
      BY <1>2 DEF Off
<1>6. events \in 0..MaxEvents
      BY EventsAreBounded DEF Init
<1>7. TypeOK
      BY <1>3, <1>4, <1>5, <1>6, ConsumerInitially DEF Init, TypeOK, ConsumerInv
<1>8. \A t \in Worker : TaskSound(t)
      BY <1>1 DEF TaskSound, Idle
<1> QED BY <1>2, <1>7, <1>8 DEF Init, RealtimeInv, Told

LEMMA ConsumerTyped == ConsumerTypeOK /\ [ConsumerNext]_consumerVars => ConsumerTypeOK'
BY DEF ConsumerTypeOK, ConsumerNext, ConsumerProgress, Connect, Configure, ConnectFails,
       ConfigureFails, AttemptFailed, Finish, TimerFires, LinkLost, ScheduleReconnect,
       Restart, consumerVars, Attempt

LEMMA CountedTyped == events \in 0..MaxEvents /\ Counted => events' \in 0..MaxEvents
BY EventsAreBounded DEF Counted

\* What a task has seen after a change
Seen(before, s, is) ==
    IF before.step = "holds" /\ before.seat = s THEN before.seen \cup {is} ELSE before.seen

(* A change of seat s: who reads it has seen what it becomes, and who is subscribed
   is due it; nothing else that the invariant speaks of depends on s. *)
LEMMA ChangeTyped ==
    ASSUME TypeOK, NEW s \in Seat, NEW is \in Status, NEW announced \in BOOLEAN,
           NEW work, work \in [Worker -> Task], Change(s, is, announced, work)
    PROVE  /\ task' \in [Worker -> Task]
           /\ due' \in [Viewer -> SUBSET Seat]
           /\ silent' \in SUBSET Seat
           /\ \A t \in Worker :
                 /\ task'[t].step = work[t].step /\ task'[t].seat = work[t].seat
                 /\ task'[t].row = work[t].row /\ task'[t].status = work[t].status
                 /\ task'[t].seen = Seen(work[t], s, is)
                 /\ work[t].step # "holds" => task'[t] = work[t]
<1>1. task' = [t \in Worker |->
                  IF work[t].step = "holds" /\ work[t].seat = s
                  THEN [work[t] EXCEPT !.seen = @ \cup {is}] ELSE work[t]]
      BY DEF Change
<1>2. ASSUME NEW t \in Worker
      PROVE  /\ task'[t] \in Task
             /\ task'[t].step = work[t].step /\ task'[t].seat = work[t].seat
             /\ task'[t].row = work[t].row /\ task'[t].status = work[t].status
             /\ task'[t].seen = Seen(work[t], s, is)
             /\ work[t].step # "holds" => task'[t] = work[t]
      BY <1>1 DEF Task, Seen
<1>3. task' \in [Worker -> Task]
      BY <1>1, <1>2
<1>4. due' \in [Viewer -> SUBSET Seat]
      BY DEF Change, TypeOK
<1>5. silent' \in SUBSET Seat
      BY DEF Change, TypeOK
<1> QED BY <1>2, <1>3, <1>4, <1>5

\* A step that changes seat s to "is" takes the work w from task t on: what would have
\* announced this status still does.
TakesOn(t, s, is, w) ==
    /\ task[t].step = "idle" \/ task[t].seat = s
    /\ w.step = "idle" => w = Idle
    /\ w.step # "idle" => w.seat = s
    /\ w.step # "holds"
    /\ w.step = "create" => w.status \in {"HELD", None}
    /\ w.step = "publish" => w.status \in w.seen
    /\ is = SeatIs(s) /\ WillTell(t, s) => Announces(w, s, is)

\* What the changes of a seat have in common: whoever changes the seat follows it up,
\* with an event in the queue or to come, or a task that broadcasts.
SeatChange(s, is, announced, work) ==
    /\ Change(s, is, announced, work)
    /\ is = SeatIs(s)'
    /\ stream' = stream
    /\ \A x \in Seat \ {s} : /\ row'[x] = row[x] /\ sale'[x] = sale[x]
                             /\ x \in held' <=> x \in held
                             /\ queue'[x] = queue[x]
    /\ \A t \in Worker : work[t] = task[t] \/ TakesOn(t, s, is, work[t])
    /\ row'[s] # row[s] => is # SeatIs(s)
    /\ sale'[s] = "confirmed" => row'[s] = "BOOKED"
    /\ is # SeatIs(s) /\ announced =>
           \/ queue'[s] > 0
           \/ sale'[s] # "none"
           \/ \E t \in Worker : Announces(work[t], s, is)
    /\ is = SeatIs(s) =>
           /\ sale[s] # "none" => sale'[s] # "none" \/ queue'[s] > 0
           /\ queue[s] > 0 => queue'[s] > 0

LEMMA SeatChanges ==
    ASSUME RealtimeInv, NEW s \in Seat, NEW is \in Status, NEW announced \in BOOLEAN,
           NEW work, work \in [Worker -> Task], SeatChange(s, is, announced, work)
    PROVE  /\ \A t \in Worker : TaskSound(t)'
           /\ \A x \in Seat : sale'[x] = "confirmed" => row'[x] = "BOOKED"
           /\ \A v \in Viewer : ~stream'[v].active => due'[v] = {}
           /\ Told'
<1>0. TypeOK
      BY DEF RealtimeInv
<1>1. /\ \A t \in Worker :
           /\ task'[t].step = work[t].step /\ task'[t].seat = work[t].seat
           /\ task'[t].row = work[t].row /\ task'[t].status = work[t].status
           /\ task'[t].seen = Seen(work[t], s, is)
           /\ work[t].step # "holds" => task'[t] = work[t]
      /\ due' \in [Viewer -> SUBSET Seat]
      BY <1>0, ChangeTyped DEF SeatChange
<1>2. is = SeatIs(s)' /\ stream' = stream
      BY DEF SeatChange
<1>3. \A x \in Seat \ {s} : /\ row'[x] = row[x] /\ sale'[x] = sale[x]
                            /\ x \in held' <=> x \in held
                            /\ queue'[x] = queue[x]
      BY DEF SeatChange
<1>4. \A x \in Seat \ {s} : SeatIs(x)' = SeatIs(x)
      BY <1>3 DEF SeatIs, Truth
<1>5. \A t \in Worker : work[t] = task[t] \/ TakesOn(t, s, is, work[t])
      BY DEF SeatChange
<1>6. row'[s] # row[s] => is # SeatIs(s)
      BY DEF SeatChange
<1>7. ASSUME NEW t \in Worker PROVE TaskSound(t)'
  <2>1. CASE work[t] # task[t]
    <3>1. TakesOn(t, s, is, work[t])
          BY <1>5, <2>1
    <3>2. task'[t] = work[t]
          BY <1>1, <3>1 DEF TakesOn
    <3>3. /\ work[t].step = "idle" => work[t] = Idle
          /\ work[t].step # "idle" => work[t].seat \in Seat
          /\ work[t].step # "holds"
          /\ work[t].step = "create" => work[t].status \in {"HELD", None}
          /\ work[t].step = "publish" => work[t].status \in work[t].seen
          BY <3>1 DEF TakesOn
    <3> QED BY <3>2, <3>3 DEF TaskSound, Timely
  <2>2. CASE work[t] = task[t] /\ ~(task[t].step = "holds" /\ task[t].seat = s)
    <3>1. TaskSound(t)
          BY DEF RealtimeInv
    <3>2. /\ task'[t].step = task[t].step /\ task'[t].seat = task[t].seat
          /\ task'[t].row = task[t].row /\ task'[t].status = task[t].status
          /\ task'[t].seen = task[t].seen
          /\ task[t].step = "idle" => task'[t] = task[t]
          BY <1>1, <2>2 DEF Seen
    <3>3. ASSUME task[t].step = "holds" PROVE ReadSound(t)'
      <4>1. task[t].seat \in Seat \ {s} /\ ReadSound(t)
            BY <2>2, <3>1, <3>3 DEF TaskSound
      <4> QED BY <1>3, <1>4, <3>2, <4>1 DEF ReadSound
    <3> QED BY <3>1, <3>2, <3>3 DEF TaskSound, Timely
  <2>3. CASE work[t] = task[t] /\ task[t].step = "holds" /\ task[t].seat = s
    <3>1. ReadSound(t)
          BY <2>3 DEF RealtimeInv, TaskSound
    <3>2. /\ task'[t].step = "holds" /\ task'[t].seat = s /\ task'[t].row = task[t].row
          /\ task'[t].seen = task[t].seen \cup {is}
          BY <1>1, <2>3 DEF Seen
    <3>3. ReadSound(t)'
          BY <1>2, <3>1, <3>2 DEF ReadSound
    <3> QED BY <3>2, <3>3 DEF TaskSound
  <2> QED BY <2>1, <2>2, <2>3
<1>8. \A x \in Seat : sale'[x] = "confirmed" => row'[x] = "BOOKED"
  <2>1. sale'[s] = "confirmed" => row'[s] = "BOOKED"
        BY DEF SeatChange
  <2> QED BY <1>3, <2>1 DEF RealtimeInv
<1>9. /\ due' = [v \in Viewer |->
                    IF is # SeatIs(s) /\ stream[v].active THEN due[v] \cup {s} ELSE due[v]]
      /\ silent' = IF is = SeatIs(s) THEN silent
                   ELSE IF announced THEN silent \ {s} ELSE silent \cup {s}
      BY DEF SeatChange, Change
<1>10. \A v \in Viewer : ~stream'[v].active => due'[v] = {}
      BY <1>2, <1>9 DEF RealtimeInv
<1>11. ASSUME NEW v \in Viewer, NEW x \in due'[v] \ silent' PROVE ToCome(x)' \/ Carried(v, x)'
  <2>0. x \in Seat
        BY <1>1
  <2>1. ASSUME x # s \/ is = SeatIs(s) PROVE ToCome(x)' \/ Carried(v, x)'
    <3>1. x \in due[v] \ silent
          BY <1>9, <2>1
    <3>2. ToCome(x) \/ Carried(v, x)
          BY <3>1 DEF RealtimeInv, Told
    <3>3. SeatIs(x)' = SeatIs(x) /\ row'[x] = row[x]
          BY <1>2, <1>3, <1>4, <1>6, <2>0, <2>1
    <3>4. ASSUME NEW t \in Worker, WillTell(t, x) PROVE WillTell(t, x)'
      <4>1. task[t].seat = x /\ task[t].step # "idle"
            BY <3>4 DEF WillTell, Announces
      <4>2. CASE work[t] = task[t]
            BY <1>1, <3>3, <3>4, <4>2 DEF WillTell, Announces
      <4>3. CASE work[t] # task[t]
        <5>1. TakesOn(t, s, is, work[t])
              BY <1>5, <4>3
        <5>2. x = s /\ is = SeatIs(s)
              BY <2>1, <4>1, <5>1 DEF TakesOn
        <5>3. Announces(work[t], s, is)
              BY <3>4, <5>1, <5>2 DEF TakesOn
        <5> QED BY <1>1, <1>2, <5>2, <5>3 DEF WillTell, Announces
      <4> QED BY <4>2, <4>3
    <3>5. /\ sale[x] # "none" => sale'[x] # "none" \/ queue'[x] > 0
          /\ queue[x] > 0 => queue'[x] > 0
      <4>1. is = SeatIs(s) => /\ sale[s] # "none" => sale'[s] # "none" \/ queue'[s] > 0
                              /\ queue[s] > 0 => queue'[s] > 0
            BY DEF SeatChange
      <4> QED BY <1>3, <2>0, <2>1, <4>1
    <3>6. ToCome(x) => ToCome(x)'
          BY <3>4, <3>5 DEF ToCome
    <3>7. Carried(v, x) => Carried(v, x)'
          BY <1>2, <3>3 DEF Carried
    <3> QED BY <3>2, <3>6, <3>7
  <2>2. CASE x = s /\ is # SeatIs(s)
    <3>1. announced
          BY <1>9, <2>2
    <3>2. \/ queue'[s] > 0
          \/ sale'[s] # "none"
          \/ \E t \in Worker : Announces(work[t], s, is)
          BY <2>2, <3>1 DEF SeatChange
    <3>3. ASSUME NEW t \in Worker, Announces(work[t], s, is) PROVE WillTell(t, s)'
          BY <1>1, <1>2, <3>3 DEF WillTell, Announces
    <3>4. ToCome(s)'
          BY <3>2, <3>3 DEF ToCome
    <3> QED BY <2>2, <3>4
  <2> QED BY <2>1, <2>2
<1>12. Told'
      BY <1>11 DEF Told
<1> QED BY <1>7, <1>8, <1>10, <1>12

LEMMA SeatChangeKeeps ==
    ASSUME RealtimeInv, NEW s \in Seat, NEW is \in Status, NEW announced \in BOOLEAN,
           NEW work, work \in [Worker -> Task], SeatChange(s, is, announced, work),
           row' \in [Seat -> {"AVAILABLE", "BOOKED", "BLOCKED"}], held' \in SUBSET Seat,
           sale' \in [Seat -> {"none", "confirmed", "freed"}], queue' \in [Seat -> Nat],
           events' \in 0..MaxEvents, UNCHANGED <<consumerVars, orphaned>>
    PROVE  RealtimeInv'
<1>1. TypeOK
      BY DEF RealtimeInv
<1>2. task' \in [Worker -> Task] /\ due' \in [Viewer -> SUBSET Seat] /\ silent' \in SUBSET Seat
      BY <1>1, ChangeTyped DEF SeatChange
<1>3. ConsumerTypeOK'
      BY <1>1, ConsumerTyped DEF TypeOK
<1>4. stream' = stream
      BY DEF SeatChange
<1>5. TypeOK'
      BY <1>1, <1>2, <1>3, <1>4 DEF TypeOK
<1>6. /\ \A t \in Worker : TaskSound(t)'
      /\ \A x \in Seat : sale'[x] = "confirmed" => row'[x] = "BOOKED"
      /\ \A v \in Viewer : ~stream'[v].active => due'[v] = {}
      /\ Told'
      BY SeatChanges
<1> QED BY <1>5, <1>6 DEF RealtimeInv

LEMMA HandlingIs ==
    ASSUME TypeOK, NEW r \in Worker, NEW s \in Seat, NEW at \in Steps, NEW status \in Status,
           NEW work, work = Handling(r, s, at, status)
    PROVE  \E next \in Task :
              /\ next.step = at /\ next.seat = s /\ next.status = status
              /\ work = [task EXCEPT ![r] = next]
              /\ work \in [Worker -> Task] /\ work[r] = next
              /\ \A t \in Worker \ {r} : work[t] = task[t]
<1>1. PICK next : next = [Idle EXCEPT !.step = at, !.seat = s, !.status = status]
      OBVIOUS
<1>2. next \in Task /\ next.step = at /\ next.seat = s /\ next.status = status
      BY <1>1 DEF Idle, Task, Steps
<1>3. task \in [Worker -> Task] /\ work = [task EXCEPT ![r] = next]
      BY <1>1 DEF TypeOK, Handling
<1> QED BY <1>2, <1>3

(* The reply of a call is broadcast, or the resolver is through. *)
LEMMA RepliedIs ==
    ASSUME TypeOK, NEW r \in Worker, NEW work, work = Replied(r)
    PROVE  \E next \in Task :
              /\ work = [task EXCEPT ![r] = next]
              /\ work \in [Worker -> Task] /\ work[r] = next
              /\ \A t \in Worker \ {r} : work[t] = task[t]
              /\ \/ /\ Awaited(r) /\ next.step = "publish" /\ next.seat = task[r].seat
                    /\ next.status = task[r].status /\ next.status \in next.seen
                 \/ ~Awaited(r) /\ next = Idle
<1>1. task \in [Worker -> Task]
      BY DEF TypeOK
<1>2. CASE Awaited(r)
  <2>1. PICK seen : seen = {task[r].status}
        OBVIOUS
  <2>2. seen \in SUBSET Status /\ task[r].status \in seen
        BY <1>1, <1>2, <2>1 DEF Awaited, Task
  <2>3. PICK next : next = [[task[r] EXCEPT !.step = "publish"] EXCEPT !.seen = seen]
        OBVIOUS
  <2>4. /\ next \in Task /\ next.step = "publish" /\ next.seat = task[r].seat
        /\ next.status = task[r].status /\ next.seen = seen
        BY <1>1, <2>2, <2>3 DEF Task, Steps
  <2>5. work = [task EXCEPT ![r] = next]
        BY <1>1, <1>2, <2>1, <2>3 DEF Replied
  <2> QED BY <1>1, <1>2, <2>2, <2>4, <2>5
<1>3. CASE ~Awaited(r)
  <2>1. Idle \in Task
        BY DEF Idle, Task, Steps
  <2>2. work = [task EXCEPT ![r] = Idle]
        BY <1>1, <1>3 DEF Replied
  <2> QED BY <1>1, <1>3, <2>1, <2>2
<1> QED BY <1>2, <1>3

LEMMA ReadingIs ==
    ASSUME TypeOK, NEW r \in Worker, NEW s \in Seat, NEW work, work = Reading(r, s)
    PROVE  /\ work \in [Worker -> Task]
           /\ work[r].step = "rows" /\ work[r].seat = s
           /\ \A t \in Worker \ {r} : work[t] = task[t]
<1>1. PICK reading : reading = [Idle EXCEPT !.step = "rows", !.seat = s]
      OBVIOUS
<1>2. reading \in Task /\ reading.step = "rows" /\ reading.seat = s
      BY <1>1 DEF Idle, Task, Steps
<1>3. task \in [Worker -> Task] /\ work = [task EXCEPT ![r] = reading]
      BY <1>1 DEF TypeOK, Reading
<1> QED BY <1>2, <1>3

LEMMA ReleaseSeatHoldKeeps ==
    ASSUME RealtimeInv, NEW r \in Resolver, NEW s \in Seat, ReleaseSeatHold(r, s) PROVE RealtimeInv'
<1>1. TypeOK /\ r \in Worker /\ row[s] \in {"AVAILABLE", "BOOKED", "BLOCKED"}
      BY DEF RealtimeInv, Worker, TypeOK
<1>2. PICK work : work = Reading(r, s)
      OBVIOUS
<1>3. /\ work \in [Worker -> Task]
      /\ work[r].step = "rows" /\ work[r].seat = s
      /\ \A t \in Worker \ {r} : work[t] = task[t]
      BY <1>1, <1>2, ReadingIs
<1>4. PICK is : is = row[s]
      OBVIOUS
<1>5. Change(s, is, TRUE, work) /\ is \in Status
      BY <1>1, <1>2, <1>4 DEF ReleaseSeatHold, Change, Status
<1>6. /\ held' = held \ {s} /\ task[r].step = "idle"
      /\ UNCHANGED <<consumerVars, row, sale, queue, stream, orphaned, events>>
      BY DEF ReleaseSeatHold, Idle
<1>7. SeatIs(s)' = is
      BY <1>1, <1>4, <1>6 DEF SeatIs, Truth
<1>8. sale'[s] = "confirmed" => row'[s] = "BOOKED"
      BY <1>6 DEF RealtimeInv
<1>9. TakesOn(r, s, is, work[r]) /\ Announces(work[r], s, is)
      BY <1>3, <1>6 DEF TakesOn, Announces
<1>10. SeatChange(s, is, TRUE, work)
      BY <1>1, <1>3, <1>5, <1>6, <1>7, <1>8, <1>9 DEF SeatChange
<1> QED BY <1>1, <1>3, <1>5, <1>6, <1>10, SeatChangeKeeps DEF TypeOK

LEMMA BlockSeatsKeeps ==
    ASSUME RealtimeInv, NEW r \in Resolver, NEW s \in Seat, BlockSeats(r, s) PROVE RealtimeInv'
<1>1. TypeOK /\ r \in Worker /\ "BLOCKED" \in Status /\ "unhold" \in Steps
      BY DEF RealtimeInv, Worker, Status, Steps
<1>2. PICK work : work = Handling(r, s, "unhold", "BLOCKED")
      OBVIOUS
<1>3. /\ work \in [Worker -> Task]
      /\ work[r].step = "unhold" /\ work[r].seat = s /\ work[r].status = "BLOCKED"
      /\ \A t \in Worker \ {r} : work[t] = task[t]
      BY <1>1, <1>2, HandlingIs
<1>4. Change(s, "BLOCKED", TRUE, work)
      BY <1>2 DEF BlockSeats, Change
<1>5. /\ row' = [row EXCEPT ![s] = "BLOCKED"] /\ task[r].step = "idle" /\ row[s] # "BOOKED"
      /\ UNCHANGED <<consumerVars, held, sale, queue, stream, orphaned>>
      BY DEF BlockSeats, Idle
<1>6. /\ row' \in [Seat -> {"AVAILABLE", "BOOKED", "BLOCKED"}]
      /\ \A x \in Seat \ {s} : row'[x] = row[x]
      BY <1>1, <1>5 DEF TypeOK
<1>7. row'[s] = "BLOCKED" /\ SeatIs(s)' = "BLOCKED"
      BY <1>1, <1>5 DEF SeatIs, Truth, TypeOK
<1>8. row'[s] # row[s] => "BLOCKED" # SeatIs(s)
      BY <1>5, <1>7 DEF SeatIs, Truth
<1>9. sale'[s] # "confirmed"
      BY <1>5 DEF RealtimeInv
<1>10. TakesOn(r, s, "BLOCKED", work[r]) /\ Announces(work[r], s, "BLOCKED")
      BY <1>3, <1>5 DEF TakesOn, WillTell, Announces
<1>11. SeatChange(s, "BLOCKED", TRUE, work)
      BY <1>1, <1>3, <1>4, <1>5, <1>6, <1>7, <1>8, <1>9, <1>10 DEF SeatChange
<1>12. events' \in 0..MaxEvents
      BY <1>1, CountedTyped DEF BlockSeats, TypeOK
<1> QED BY <1>1, <1>3, <1>5, <1>6, <1>11, <1>12, SeatChangeKeeps DEF TypeOK

LEMMA Enqueued ==
    ASSUME TypeOK, NEW s \in Seat, Enqueue(s)
    PROVE  /\ queue' \in [Seat -> Nat] /\ queue'[s] > 0
           /\ \A x \in Seat \ {s} : queue'[x] = queue[x]
BY DEF TypeOK, Enqueue

LEMMA HoldExpiresKeeps ==
    ASSUME RealtimeInv, NEW s \in Seat, HoldExpires(s) PROVE RealtimeInv'
<1>1. TypeOK /\ row[s] \in {"AVAILABLE", "BOOKED", "BLOCKED"} /\ task \in [Worker -> Task]
      BY DEF RealtimeInv, TypeOK
<1>2. PICK is : is = row[s]
      OBVIOUS
<1>3. PICK work : work = task
      OBVIOUS
<1>4. is \in Status /\ work \in [Worker -> Task]
      BY <1>1, <1>2, <1>3 DEF Status
<1>5. held' = held \ {s} /\ UNCHANGED <<consumerVars, row, sale, stream, orphaned>>
      BY DEF HoldExpires
<1>6. SeatIs(s)' = is
      BY <1>1, <1>2, <1>5 DEF SeatIs, Truth
<1>7. sale'[s] = "confirmed" => row'[s] = "BOOKED"
      BY <1>5 DEF RealtimeInv
<1>8. CASE Enqueue(s) /\ Change(s, row[s], TRUE, task) /\ UNCHANGED events
  <2>1. Change(s, is, TRUE, work)
        BY <1>2, <1>3, <1>8 DEF Change
  <2>2. /\ queue' \in [Seat -> Nat] /\ queue'[s] > 0
        /\ \A x \in Seat \ {s} : queue'[x] = queue[x]
        BY <1>1, <1>8, Enqueued
  <2>3. SeatChange(s, is, TRUE, work)
        BY <1>3, <1>5, <1>6, <1>7, <2>1, <2>2 DEF SeatChange
  <2> QED BY <1>1, <1>4, <1>5, <1>8, <2>2, <2>3, SeatChangeKeeps DEF TypeOK
<1>9. CASE Counted /\ Change(s, row[s], FALSE, task) /\ UNCHANGED queue
  <2>1. Change(s, is, FALSE, work)
        BY <1>2, <1>3, <1>9 DEF Change
  <2>2. SeatChange(s, is, FALSE, work)
        BY <1>3, <1>5, <1>6, <1>7, <1>9, <2>1 DEF SeatChange
  <2>3. events' \in 0..MaxEvents
        BY <1>1, <1>9, CountedTyped DEF TypeOK
  <2> QED BY <1>1, <1>4, <1>5, <1>9, <2>2, <2>3, SeatChangeKeeps DEF TypeOK
<1> QED BY <1>8, <1>9 DEF HoldExpires

LEMMA ConfirmSeatsKeeps ==
    ASSUME RealtimeInv, NEW s \in Seat, ConfirmSeats(s) PROVE RealtimeInv'
<1>1. TypeOK /\ task \in [Worker -> Task] /\ "BOOKED" \in Status
      BY DEF RealtimeInv, TypeOK, Status
<1>2. PICK work : work = task
      OBVIOUS
<1>3. Change(s, "BOOKED", TRUE, work) /\ work \in [Worker -> Task]
      BY <1>1, <1>2 DEF ConfirmSeats, Change
<1>4. /\ row[s] = "AVAILABLE" /\ s \in held
      /\ row' = [row EXCEPT ![s] = "BOOKED"] /\ sale' = [sale EXCEPT ![s] = "confirmed"]
      /\ held' \in {held, held \ {s}}
      /\ UNCHANGED <<consumerVars, queue, stream, orphaned>>
      BY DEF ConfirmSeats
<1>5. /\ row' \in [Seat -> {"AVAILABLE", "BOOKED", "BLOCKED"}] /\ row'[s] = "BOOKED"
      /\ sale' \in [Seat -> {"none", "confirmed", "freed"}] /\ sale'[s] = "confirmed"
      /\ held' \in SUBSET Seat
      BY <1>1, <1>4 DEF TypeOK
<1>6. \A x \in Seat \ {s} : row'[x] = row[x] /\ sale'[x] = sale[x] /\ (x \in held' <=> x \in held)
      BY <1>1, <1>4 DEF TypeOK
<1>7. SeatIs(s)' = "BOOKED" /\ SeatIs(s) = "HELD"
      BY <1>4, <1>5 DEF SeatIs, Truth
<1>8. s \in held' /\ s \notin held => FALSE
      BY <1>4
<1>9. SeatChange(s, "BOOKED", TRUE, work)
      BY <1>2, <1>3, <1>4, <1>5, <1>6, <1>7, <1>8 DEF SeatChange
<1>10. events' \in 0..MaxEvents
      BY <1>1, CountedTyped DEF ConfirmSeats, TypeOK
<1>11. queue' \in [Seat -> Nat]
      BY <1>1, <1>4 DEF TypeOK
<1> QED BY <1>1, <1>3, <1>4, <1>5, <1>9, <1>10, <1>11, SeatChangeKeeps

(* The row goes back to AVAILABLE. *)
LEMMA GivenBack ==
    ASSUME RealtimeInv, NEW s \in Seat, NEW announced \in BOOLEAN, row[s] = "BOOKED",
           row' = [row EXCEPT ![s] = "AVAILABLE"],
           sale' \in [Seat -> {"none", "confirmed", "freed"}], sale'[s] # "confirmed",
           \A x \in Seat \ {s} : sale'[x] = sale[x],
           announced => sale'[s] # "none",
           Change(s, Truth("AVAILABLE", s \in held), announced, task),
           events' \in 0..MaxEvents,
           UNCHANGED <<consumerVars, held, queue, stream, orphaned>>
    PROVE  RealtimeInv'
<1>1. TypeOK /\ task \in [Worker -> Task]
      BY DEF RealtimeInv, TypeOK
<1>2. PICK work : work = task
      OBVIOUS
<1>3. PICK is : is = Truth("AVAILABLE", s \in held)
      OBVIOUS
<1>4. is \in {"HELD", "AVAILABLE"} /\ is \in Status
      BY <1>3 DEF Truth, Status
<1>5. Change(s, is, announced, work) /\ work \in [Worker -> Task]
      BY <1>1, <1>2, <1>3 DEF Change
<1>6. /\ row' \in [Seat -> {"AVAILABLE", "BOOKED", "BLOCKED"}] /\ row'[s] = "AVAILABLE"
      /\ \A x \in Seat \ {s} : row'[x] = row[x]
      BY <1>1 DEF TypeOK
<1>7. SeatIs(s)' = is
      BY <1>3, <1>6 DEF SeatIs, Truth
<1>8. SeatIs(s) = "BOOKED"
      BY DEF SeatIs, Truth
<1>9. SeatChange(s, is, announced, work)
      BY <1>2, <1>4, <1>5, <1>6, <1>7, <1>8 DEF SeatChange
<1>10. queue' \in [Seat -> Nat] /\ held' \in SUBSET Seat
      BY <1>1 DEF TypeOK
<1> QED BY <1>4, <1>5, <1>6, <1>9, <1>10, SeatChangeKeeps

LEMMA CancelBookingKeeps ==
    ASSUME RealtimeInv, NEW s \in Seat, CancelBooking(s) PROVE RealtimeInv'
<1>1. sale \in [Seat -> {"none", "confirmed", "freed"}] /\ events \in 0..MaxEvents
      BY DEF RealtimeInv, TypeOK
<1>2. /\ sale' \in [Seat -> {"none", "confirmed", "freed"}] /\ sale'[s] = "freed"
      /\ \A x \in Seat \ {s} : sale'[x] = sale[x]
      BY <1>1 DEF CancelBooking
<1>3. /\ row[s] = "BOOKED" /\ row' = [row EXCEPT ![s] = "AVAILABLE"]
      /\ Change(s, Truth("AVAILABLE", s \in held), TRUE, task)
      /\ events' = events
      /\ UNCHANGED <<consumerVars, held, queue, stream, orphaned>>
      BY DEF CancelBooking, Change
<1> QED BY <1>1, <1>2, <1>3, GivenBack DEF Change

------------------------------------------------------------------------------
(* Steps that leave the seats as they are *)

LEMMA SettlementEndsKeeps ==
    ASSUME RealtimeInv, NEW s \in Seat, SettlementEnds(s) PROVE RealtimeInv'
<1>1. TypeOK /\ sale \in [Seat -> {"none", "confirmed", "freed"}]
      BY DEF RealtimeInv, TypeOK
<1>2. /\ sale' \in [Seat -> {"none", "confirmed", "freed"}] /\ sale'[s] = "none"
      /\ \A x \in Seat \ {s} : sale'[x] = sale[x]
      BY <1>1 DEF SettlementEnds
<1>3. row[s] = "BOOKED" /\ UNCHANGED <<consumerVars, held, stream, orphaned>>
      BY DEF SettlementEnds, RealtimeInv
<1>4. CASE Counted /\ row' = [row EXCEPT ![s] = "AVAILABLE"] /\ queue' = queue
           /\ Change(s, Truth("AVAILABLE", s \in held), FALSE, task)
  <2>1. events' \in 0..MaxEvents
        BY <1>1, <1>4, CountedTyped DEF TypeOK
  <2> QED BY <1>2, <1>3, <1>4, <2>1, GivenBack DEF Change
<1>5. CASE Enqueue(s) /\ UNCHANGED <<row, events, due, task, silent>>
  <2>1. /\ queue' \in [Seat -> Nat] /\ queue'[s] > 0
        /\ \A x \in Seat \ {s} : queue'[x] = queue[x]
        BY <1>1, <1>5, Enqueued
  <2>2. ConsumerTypeOK'
        BY <1>1, <1>3, ConsumerTyped DEF TypeOK
  <2>3. TypeOK'
        BY <1>1, <1>2, <1>3, <1>5, <2>1, <2>2 DEF TypeOK
  <2>4. \A x \in Seat : SeatIs(x)' = SeatIs(x)
        BY <1>3, <1>5 DEF SeatIs
  <2>5. \A t \in Worker : TaskSound(t)'
        BY <1>3, <1>5 DEF RealtimeInv, TaskSound, ReadSound, Timely, SeatIs
  <2>6. ASSUME NEW v \in Viewer, NEW x \in due'[v] \ silent' PROVE ToCome(x)' \/ Carried(v, x)'
    <3>1. x \in Seat /\ (ToCome(x) \/ Carried(v, x))
          BY <1>1, <1>5 DEF RealtimeInv, Told, TypeOK
    <3>2. ToCome(x) => ToCome(x)'
          BY <1>2, <1>5, <2>1, <2>4, <3>1 DEF ToCome, WillTell, Announces
    <3>3. Carried(v, x) => Carried(v, x)'
          BY <1>3, <2>4, <3>1 DEF Carried
    <3> QED BY <3>1, <3>2, <3>3
  <2>7. \A x \in Seat : sale'[x] = "confirmed" => row'[x] = "BOOKED"
        BY <1>2, <1>5 DEF RealtimeInv
  <2>8. \A v \in Viewer : ~stream'[v].active => due'[v] = {}
        BY <1>3, <1>5 DEF RealtimeInv
  <2> QED BY <2>3, <2>5, <2>6, <2>7, <2>8 DEF RealtimeInv, Told
<1> QED BY <1>3, <1>4, <1>5 DEF SettlementEnds

LEMMA AnnounceReleaseKeeps ==
    ASSUME RealtimeInv, NEW s \in Seat, AnnounceRelease(s) PROVE RealtimeInv'
<1>1. TypeOK
      BY DEF RealtimeInv
<1>2. /\ sale' \in [Seat -> {"none", "confirmed", "freed"}] /\ sale'[s] = "none"
      /\ \A x \in Seat \ {s} : sale'[x] = sale[x]
      BY <1>1 DEF AnnounceRelease, TypeOK
<1>3. UNCHANGED <<consumerVars, row, held, task, stream, orphaned, due>>
      BY DEF AnnounceRelease
<1>4. /\ queue' \in [Seat -> Nat] /\ events' \in 0..MaxEvents /\ silent' \in SUBSET Seat
      /\ silent \subseteq silent'
      /\ \A x \in Seat \ {s} : queue'[x] = queue[x]
      /\ queue'[s] > 0 \/ s \in silent'
  <2>1. CASE Enqueue(s) /\ UNCHANGED <<events, silent>>
        BY <1>1, <2>1, Enqueued DEF TypeOK
  <2>2. CASE Counted /\ silent' = silent \cup {s} /\ UNCHANGED queue
        BY <1>1, <2>2, CountedTyped DEF TypeOK
  <2> QED BY <2>1, <2>2 DEF AnnounceRelease
<1>5. ConsumerTypeOK'
      BY <1>1, <1>3, ConsumerTyped DEF TypeOK
<1>6. TypeOK'
      BY <1>1, <1>2, <1>3, <1>4, <1>5 DEF TypeOK
<1>7. \A x \in Seat : SeatIs(x)' = SeatIs(x)
      BY <1>3 DEF SeatIs
<1>8. \A t \in Worker : TaskSound(t)'
      BY <1>3 DEF RealtimeInv, TaskSound, ReadSound, Timely, SeatIs
<1>9. ASSUME NEW v \in Viewer, NEW x \in due'[v] \ silent' PROVE ToCome(x)' \/ Carried(v, x)'
  <2>1. x \in Seat /\ (ToCome(x) \/ Carried(v, x))
        BY <1>1, <1>3, <1>4 DEF RealtimeInv, Told, TypeOK
  <2>2. ToCome(x) => ToCome(x)'
        BY <1>2, <1>3, <1>4, <1>7, <2>1 DEF ToCome, WillTell, Announces
  <2>3. Carried(v, x) => Carried(v, x)'
        BY <1>3, <1>7, <2>1 DEF Carried
  <2> QED BY <2>1, <2>2, <2>3
<1>10. \A x \in Seat : sale'[x] = "confirmed" => row'[x] = "BOOKED"
      BY <1>2, <1>3 DEF RealtimeInv
<1>11. \A v \in Viewer : ~stream'[v].active => due'[v] = {}
      BY <1>3 DEF RealtimeInv
<1> QED BY <1>6, <1>8, <1>9, <1>10, <1>11 DEF RealtimeInv, Told

(* One task goes on: what was to come still comes, or is counted as silent. *)
LEMMA TaskGoesOn ==
    ASSUME RealtimeInv, NEW t \in Worker, NEW next \in Task, task' = [task EXCEPT ![t] = next],
           UNCHANGED <<consumerVars, seatVars, stream, orphaned, due>>,
           queue' \in [Seat -> Nat], silent' \in SUBSET Seat, silent \subseteq silent',
           events' \in 0..MaxEvents,
           TaskSound(t)',
           \A x \in Seat : queue[x] > 0 => queue'[x] > 0 \/ WillTell(t, x)',
           \A x \in Seat : WillTell(t, x) => WillTell(t, x)' \/ x \in silent'
    PROVE  RealtimeInv'
<1>1. TypeOK /\ task \in [Worker -> Task]
      BY DEF RealtimeInv, TypeOK
<1>2. UNCHANGED <<row, held, sale>>
      BY DEF seatVars
<1>3. task' \in [Worker -> Task] /\ task'[t] = next /\ \A u \in Worker \ {t} : task'[u] = task[u]
      BY <1>1
<1>4. ConsumerTypeOK'
      BY <1>1, ConsumerTyped DEF TypeOK
<1>5. TypeOK'
      BY <1>1, <1>2, <1>3, <1>4 DEF TypeOK
<1>6. \A x \in Seat : SeatIs(x)' = SeatIs(x)
      BY <1>2 DEF SeatIs
<1>7. \A u \in Worker \ {t} : TaskSound(u)'
      BY <1>2, <1>3 DEF RealtimeInv, TaskSound, ReadSound, Timely, SeatIs
<1>8. \A u \in Worker \ {t}, x \in Seat : WillTell(u, x) => WillTell(u, x)'
      BY <1>2, <1>3, <1>6 DEF WillTell, Announces
<1>9. ASSUME NEW v \in Viewer, NEW x \in due'[v] \ silent' PROVE ToCome(x)' \/ Carried(v, x)'
  <2>1. x \in Seat /\ (ToCome(x) \/ Carried(v, x))
        BY <1>1 DEF RealtimeInv, Told, TypeOK
  <2>2. ToCome(x) => ToCome(x)'
    <3>1. WillTell(t, x) => WillTell(t, x)'
          BY <2>1
    <3>2. (\E u \in Worker : WillTell(u, x)) => \E u \in Worker : WillTell(u, x)'
          BY <1>8, <2>1, <3>1
    <3>3. queue[x] > 0 => queue'[x] > 0 \/ \E u \in Worker : WillTell(u, x)'
          BY <2>1
    <3>4. sale'[x] = sale[x]
          BY <1>2
    <3> QED BY <3>2, <3>3, <3>4 DEF ToCome
  <2>3. Carried(v, x) => Carried(v, x)'
        BY <1>6, <2>1 DEF Carried
  <2> QED BY <2>1, <2>2, <2>3
<1>10. \A x \in Seat : sale'[x] = "confirmed" => row'[x] = "BOOKED"
      BY <1>2 DEF RealtimeInv
<1>11. \A v \in Viewer : ~stream'[v].active => due'[v] = {}
      BY DEF RealtimeInv
<1> QED BY <1>5, <1>7, <1>9, <1>10, <1>11 DEF RealtimeInv, Told

------------------------------------------------------------------------------
(* The handlers of mutations *)

LEMMA HoldSeatsKeeps ==
    ASSUME RealtimeInv, NEW r \in Resolver, NEW s \in Seat, HoldSeats(r, s) PROVE RealtimeInv'
<1>1. TypeOK /\ r \in Worker /\ "HELD" \in Status /\ "create" \in Steps
      BY DEF RealtimeInv, Worker, Status, Steps
<1>2. PICK next \in Task :
          /\ next.step = "create" /\ next.seat = s /\ next.status = "HELD"
          /\ task' = [task EXCEPT ![r] = next] /\ task'[r] = next
      BY <1>1, HandlingIs DEF HoldSeats
<1>3. task[r].step = "idle"
      /\ UNCHANGED <<consumerVars, seatVars, queue, stream, orphaned, due, silent>>
      BY DEF HoldSeats, Idle
<1>4. TaskSound(r)'
      BY <1>2 DEF TaskSound
<1>5. \A x \in Seat : ~WillTell(r, x)
      BY <1>3 DEF WillTell, Announces
<1>6. events' \in 0..MaxEvents /\ queue' \in [Seat -> Nat] /\ silent' \in SUBSET Seat
      BY <1>1, <1>3, CountedTyped DEF HoldSeats, TypeOK
<1> QED BY <1>1, <1>2, <1>3, <1>4, <1>5, <1>6, TaskGoesOn

(* A resolver that announces nothing any more is through. *)
LEMMA GoesIdle ==
    ASSUME RealtimeInv, NEW t \in Worker, task' = [task EXCEPT ![t] = Idle],
           UNCHANGED <<consumerVars, seatVars, queue, stream, orphaned, due>>,
           silent' \in SUBSET Seat, silent \subseteq silent', events' \in 0..MaxEvents,
           \A x \in Seat : WillTell(t, x) => x \in silent'
    PROVE  RealtimeInv'
<1>1. TypeOK /\ Idle \in Task
      BY DEF RealtimeInv, Idle, Task, Steps
<1>2. task'[t] = Idle
      BY <1>1 DEF TypeOK
<1>3. TaskSound(t)'
      BY <1>2 DEF TaskSound, Idle
<1>4. queue' \in [Seat -> Nat]
      BY <1>1 DEF TypeOK
<1> QED BY <1>1, <1>3, <1>4, TaskGoesOn

LEMMA CreateHoldKeeps ==
    ASSUME RealtimeInv, NEW r \in Resolver, CreateHold(r) PROVE RealtimeInv'
<1>1. TypeOK /\ task \in [Worker -> Task] /\ r \in Worker /\ task[r].step = "create"
      BY DEF RealtimeInv, TypeOK, Worker, CreateHold
<1>2. task[r].seat \in Seat /\ task[r].status \in {"HELD", None}
      BY <1>1 DEF RealtimeInv, TaskSound
<1>3. PICK s \in Seat : s = task[r].seat
      BY <1>2
<1>4. UNCHANGED <<consumerVars, row, sale, queue, stream, orphaned>>
      BY DEF CreateHold
<1>5. CASE /\ s \notin held /\ held' = held \cup {s} /\ UNCHANGED events
           /\ Change(s, Truth(row[s], TRUE), Awaited(r), [task EXCEPT ![r].step = "recheck"])
  <2>1. PICK next : next = [task[r] EXCEPT !.step = "recheck"]
        OBVIOUS
  <2>2. next \in Task /\ next.step = "recheck" /\ next.seat = s /\ next.status = task[r].status
        BY <1>1, <1>3, <2>1 DEF Task, Steps
  <2>3. PICK work : work = [task EXCEPT ![r] = next]
        OBVIOUS
  <2>4. /\ work \in [Worker -> Task] /\ work[r] = next
        /\ \A t \in Worker \ {r} : work[t] = task[t]
        BY <1>1, <2>2, <2>3
  <2>5. PICK is : is = Truth(row[s], TRUE)
        OBVIOUS
  <2>6. is \in Status /\ (is # SeatIs(s) => is = "HELD") /\ is = SeatIs(s)'
        BY <1>1, <1>4, <1>5, <2>5 DEF Truth, SeatIs, Status, TypeOK
  <2>7. PICK announced \in BOOLEAN : announced = Awaited(r)
        BY DEF Awaited
  <2>8. Change(s, is, announced, work)
        BY <1>1, <1>5, <2>1, <2>3, <2>5, <2>7 DEF Change
  <2>9. TakesOn(r, s, is, next)
        BY <1>1, <1>3, <2>2 DEF TakesOn, WillTell, Announces
  <2>10. is # SeatIs(s) /\ announced => Announces(next, s, is)
        BY <1>2, <2>2, <2>6, <2>7 DEF Awaited, Announces
  <2>11. sale'[s] = "confirmed" => row'[s] = "BOOKED"
        BY <1>4 DEF RealtimeInv
  <2>12. SeatChange(s, is, announced, work)
        BY <1>1, <1>4, <1>5, <2>4, <2>6, <2>8, <2>9, <2>10, <2>11 DEF SeatChange
  <2> QED BY <1>1, <1>4, <1>5, <2>4, <2>6, <2>12, SeatChangeKeeps DEF TypeOK
<1>6. CASE /\ task' = [task EXCEPT ![r] = Idle] /\ UNCHANGED <<held, due, silent>>
           /\ UNCHANGED events \/ Counted
  <2>1. \A x \in Seat : ~WillTell(r, x)
        BY <1>1 DEF WillTell, Announces
  <2>2. events' \in 0..MaxEvents /\ silent' \in SUBSET Seat
        BY <1>1, <1>6, CountedTyped DEF TypeOK
  <2> QED BY <1>1, <1>4, <1>6, <2>1, <2>2, GoesIdle DEF seatVars
<1> QED BY <1>3, <1>5, <1>6 DEF CreateHold

(* The resolver is given the reply, or gives up waiting for it. *)
LEMMA ReplyKeeps ==
    ASSUME RealtimeInv, NEW r \in Worker, task' = Replied(r),
           UNCHANGED <<consumerVars, seatVars, queue, stream, orphaned, due, silent, events>>,
           task[r].step \in {"recheck", "unhold"}
    PROVE  RealtimeInv'
<1>1. TypeOK /\ task[r].seat \in Seat
      BY DEF RealtimeInv, TaskSound
<1>2. PICK next \in Task :
          /\ task' = [task EXCEPT ![r] = next] /\ task'[r] = next
          /\ \/ /\ Awaited(r) /\ next.step = "publish" /\ next.seat = task[r].seat
                /\ next.status = task[r].status /\ next.status \in next.seen
             \/ ~Awaited(r) /\ next = Idle
      BY <1>1, RepliedIs
<1>3. TaskSound(r)'
      BY <1>1, <1>2 DEF TaskSound, Timely, Idle
<1>4. \A x \in Seat : SeatIs(x) \in Status /\ SeatIs(x)' = SeatIs(x)
      BY <1>1 DEF SeatIs, Truth, Status, TypeOK, seatVars
<1>5. ASSUME NEW x \in Seat, WillTell(r, x) PROVE WillTell(r, x)'
  <2>1. task[r].seat = x /\ task[r].status = SeatIs(x)
        BY <1>5 DEF WillTell, Announces
  <2>2. Awaited(r)
        BY <1>4, <2>1, NoneIsNoStatus DEF Awaited
  <2> QED BY <1>2, <1>4, <2>1, <2>2 DEF WillTell, Announces
<1>6. queue' \in [Seat -> Nat] /\ silent' \in SUBSET Seat /\ events' \in 0..MaxEvents
      BY <1>1 DEF TypeOK
<1> QED BY <1>1, <1>2, <1>3, <1>5, <1>6, TaskGoesOn

LEMMA RecheckHoldKeeps ==
    ASSUME RealtimeInv, NEW r \in Resolver, RecheckHold(r) PROVE RealtimeInv'
<1>1. TypeOK /\ task \in [Worker -> Task] /\ r \in Worker /\ task[r].step = "recheck"
      BY DEF RealtimeInv, TypeOK, Worker, RecheckHold
<1>2. task[r].seat \in Seat
      BY <1>1 DEF RealtimeInv, TaskSound
<1>3. UNCHANGED <<consumerVars, seatVars, queue, stream, orphaned, due>>
      BY DEF RecheckHold
<1>4. CASE task' = Replied(r) /\ UNCHANGED <<silent, events>>
      BY <1>1, <1>3, <1>4, ReplyKeeps
<1>5. CASE /\ task' = [task EXCEPT ![r].step = "discard", ![r].status = None]
           /\ UNCHANGED events \/ Counted
           /\ silent' = Unannounced(r)
  <2>1. PICK next : next = [[task[r] EXCEPT !.step = "discard"] EXCEPT !.status = None]
        OBVIOUS
  <2>2. next \in Task /\ next.step = "discard" /\ next.seat = task[r].seat
        BY <1>1, <2>1 DEF Task, Steps
  <2>3. task' = [task EXCEPT ![r] = next] /\ task'[r] = next
        BY <1>1, <1>5, <2>1
  <2>4. TaskSound(r)'
        BY <1>2, <2>2, <2>3 DEF TaskSound
  <2>5. \A x \in Seat : WillTell(r, x) => x \in silent'
        BY <1>1, <1>5 DEF WillTell, Announces, Unannounced
  <2>6. silent' \in SUBSET Seat /\ silent \subseteq silent'
        BY <1>1, <1>2, <1>5 DEF Unannounced, TypeOK
  <2>7. queue' \in [Seat -> Nat] /\ events' \in 0..MaxEvents
        BY <1>1, <1>3, <1>5, CountedTyped DEF TypeOK
  <2> QED BY <1>1, <1>3, <2>2, <2>3, <2>4, <2>5, <2>6, <2>7, TaskGoesOn
<1> QED BY <1>4, <1>5 DEF RecheckHold

(* The key of a seat is dropped, and the resolver that did it announces what it would
   have announced. *)
LEMMA DropKeyKeeps ==
    ASSUME RealtimeInv, NEW r \in Worker, NEW s \in Seat, s = task[r].seat,
           NEW next \in Task, NEW work, work = [task EXCEPT ![r] = next],
           held' = held \ {s}, Change(s, row[s], FALSE, work),
           \/ /\ next.step = "publish" /\ next.seat = s /\ next.status = task[r].status
              /\ next.status \in next.seen
           \/ next = Idle /\ \A x \in Seat : ~WillTell(r, x),
           task[r].step \in {"discard", "unhold"},
           UNCHANGED <<consumerVars, row, sale, queue, stream, orphaned, events>>
    PROVE  RealtimeInv'
<1>1. TypeOK /\ task \in [Worker -> Task] /\ row[s] \in {"AVAILABLE", "BOOKED", "BLOCKED"}
      BY DEF RealtimeInv, TypeOK
<1>2. /\ work \in [Worker -> Task] /\ work[r] = next
      /\ \A t \in Worker \ {r} : work[t] = task[t]
      BY <1>1
<1>3. PICK is : is = row[s]
      OBVIOUS
<1>4. is \in Status /\ SeatIs(s)' = is
      BY <1>1, <1>3 DEF SeatIs, Truth, Status
<1>5. Change(s, is, FALSE, work)
      BY <1>3 DEF Change
<1>6. TakesOn(r, s, is, next)
      BY DEF TakesOn, WillTell, Announces, Idle
<1>7. sale'[s] = "confirmed" => row'[s] = "BOOKED"
      BY DEF RealtimeInv
<1>8. SeatChange(s, is, FALSE, work)
      BY <1>1, <1>2, <1>4, <1>5, <1>6, <1>7 DEF SeatChange
<1> QED BY <1>1, <1>2, <1>4, <1>8, SeatChangeKeeps DEF TypeOK

LEMMA DiscardHoldKeeps ==
    ASSUME RealtimeInv, NEW r \in Resolver, DiscardHold(r) PROVE RealtimeInv'
<1>1. TypeOK /\ r \in Worker /\ task[r].step = "discard"
      BY DEF RealtimeInv, Worker, DiscardHold
<1>2. PICK s \in Seat : s = task[r].seat
      BY <1>1 DEF RealtimeInv, TaskSound
<1>3. PICK work : work = [task EXCEPT ![r] = Idle]
      OBVIOUS
<1>4. UNCHANGED <<consumerVars, row, sale, queue, stream, orphaned, events>>
      BY DEF DiscardHold
<1>5. \A x \in Seat : ~WillTell(r, x)
      BY <1>1 DEF WillTell, Announces
<1>6. CASE held' = held \ {s} /\ Change(s, row[s], FALSE, work)
  <2>1. Idle \in Task
        BY DEF Idle, Task, Steps
  <2> QED BY <1>1, <1>2, <1>3, <1>4, <1>5, <1>6, <2>1, DropKeyKeeps
<1>7. CASE task' = work /\ UNCHANGED <<held, due, silent>>
  <2>1. silent' \in SUBSET Seat /\ events' \in 0..MaxEvents
        BY <1>1, <1>4, <1>7 DEF TypeOK
  <2> QED BY <1>1, <1>3, <1>4, <1>5, <1>7, <2>1, GoesIdle DEF seatVars
<1> QED BY <1>2, <1>3, <1>6, <1>7 DEF DiscardHold, DropKey, Change

LEMMA ReleaseSeatHoldsKeeps ==
    ASSUME RealtimeInv, NEW r \in Resolver, ReleaseSeatHolds(r) PROVE RealtimeInv'
<1>1. TypeOK /\ r \in Worker /\ task[r].step = "unhold"
      BY DEF RealtimeInv, Worker, ReleaseSeatHolds
<1>2. PICK s \in Seat : s = task[r].seat
      BY <1>1 DEF RealtimeInv, TaskSound
<1>3. PICK work : work = Replied(r)
      OBVIOUS
<1>4. UNCHANGED <<consumerVars, row, sale, queue, stream, orphaned, events>>
      BY DEF ReleaseSeatHolds
<1>5. CASE held' = held \ {s} /\ Change(s, row[s], FALSE, work)
  <2>1. PICK next \in Task :
            /\ work = [task EXCEPT ![r] = next]
            /\ \/ /\ Awaited(r) /\ next.step = "publish" /\ next.seat = task[r].seat
                  /\ next.status = task[r].status /\ next.status \in next.seen
               \/ ~Awaited(r) /\ next = Idle
        BY <1>1, <1>3, RepliedIs
  <2>2. ASSUME ~Awaited(r), NEW x \in Seat PROVE ~WillTell(r, x)
    <3>1. SeatIs(x) \in Status
          BY <1>1 DEF SeatIs, Truth, Status, TypeOK
    <3>2. task[r].status # SeatIs(x)
          BY <2>2, <3>1, NoneIsNoStatus DEF Awaited
    <3> QED BY <1>1, <3>2 DEF WillTell, Announces
  <2> QED BY <1>1, <1>2, <1>4, <1>5, <2>1, <2>2, DropKeyKeeps
<1>6. CASE task' = work /\ UNCHANGED <<held, due, silent>>
      BY <1>1, <1>3, <1>4, <1>6, ReplyKeeps DEF seatVars
<1> QED BY <1>2, <1>3, <1>5, <1>6 DEF ReleaseSeatHolds, DropKey, Change

------------------------------------------------------------------------------
(* The gateway reads *)

(* What a task is after its rows are read. *)
LEMMA RowsReadIs ==
    ASSUME TypeOK, NEW t \in Worker, NEW s \in Seat, task' = RowsRead(t, s),
           UNCHANGED <<row, held>>
    PROVE  \E next \in Task :
              /\ task' = [task EXCEPT ![t] = next]
              /\ TaskSound(t)'
              /\ WillTell(t, s)'
<1>1. row[s] \in {"AVAILABLE", "BOOKED", "BLOCKED"}
      BY DEF TypeOK
<1>2. SeatIs(s) \in Status
      BY <1>1 DEF SeatIs, Truth, Status
<1>3. PICK next : next = [step |-> "holds", seat |-> s, row |-> row[s], status |-> None,
                          seen |-> {SeatIs(s)}]
      OBVIOUS
<1>4. next \in Task
      BY <1>1, <1>2, <1>3 DEF Task, Steps, Status
<1>5. task' = [task EXCEPT ![t] = next] /\ task'[t] = next
      BY <1>3 DEF RowsRead, TypeOK
<1>6. /\ task'[t].step = "holds" /\ task'[t].seat = s /\ task'[t].row = row[s]
      /\ task'[t].seen = {SeatIs(s)}
      BY <1>3, <1>5
<1>7. SeatIs(s)' = SeatIs(s)
      BY DEF SeatIs
<1>8. IF row[s] = "AVAILABLE" THEN SeatIs(s) \in {"AVAILABLE", "HELD"} ELSE SeatIs(s) = row[s]
      BY DEF SeatIs, Truth
<1>9. ReadSound(t)'
      BY <1>6, <1>7, <1>8 DEF ReadSound
<1>10. TaskSound(t)'
      BY <1>6, <1>9 DEF TaskSound
<1>11. WillTell(t, s)'
      BY <1>6 DEF WillTell
<1> QED BY <1>4, <1>5, <1>10, <1>11

LEMMA DeliverKeeps ==
    ASSUME RealtimeInv, NEW s \in Seat, Deliver(s) PROVE RealtimeInv'
<1> DEFINE bridge == "bridge"
<1>1. TypeOK /\ bridge \in Worker
      BY DEF RealtimeInv, Worker
<1>2. /\ task' = RowsRead(bridge, s) /\ task[bridge].step = "idle"
      /\ queue[s] > 0 /\ queue' = [queue EXCEPT ![s] = @ - 1]
      /\ UNCHANGED <<consumerVars, seatVars, stream, orphaned, due, silent, events>>
      BY DEF Deliver, Idle
<1>3. UNCHANGED <<row, held>>
      BY <1>2 DEF seatVars
<1> HIDE DEF bridge
<1>4. PICK next \in Task :
          task' = [task EXCEPT ![bridge] = next] /\ TaskSound(bridge)' /\ WillTell(bridge, s)'
      BY <1>1, <1>2, <1>3, RowsReadIs
<1>5. queue' \in [Seat -> Nat] /\ \A x \in Seat \ {s} : queue'[x] = queue[x]
      BY <1>1, <1>2 DEF TypeOK
<1>6. \A x \in Seat : queue[x] > 0 => queue'[x] > 0 \/ WillTell(bridge, x)'
      BY <1>4, <1>5
<1>7. \A x \in Seat : ~WillTell(bridge, x)
      BY <1>2 DEF WillTell, Announces
<1> QED BY <1>1, <1>2, <1>4, <1>5, <1>6, <1>7, TaskGoesOn DEF TypeOK

LEMMA ReadRowsKeeps ==
    ASSUME RealtimeInv, NEW r \in Resolver, ReadRows(r) PROVE RealtimeInv'
<1>1. TypeOK /\ r \in Worker /\ task[r].step = "rows"
      BY DEF RealtimeInv, Worker, ReadRows
<1>2. task[r].seat \in Seat
      BY <1>1 DEF RealtimeInv, TaskSound
<1>3. PICK s \in Seat : s = task[r].seat
      BY <1>2
<1>4. /\ task' = RowsRead(r, s)
      /\ UNCHANGED <<consumerVars, seatVars, queue, stream, orphaned, due, silent, events>>
      BY <1>3 DEF ReadRows, RowsRead
<1>5. UNCHANGED <<row, held>>
      BY <1>4 DEF seatVars
<1>6. PICK next \in Task :
          task' = [task EXCEPT ![r] = next] /\ TaskSound(r)' /\ WillTell(r, s)'
      BY <1>1, <1>4, <1>5, RowsReadIs
<1>7. \A x \in Seat : WillTell(r, x) => WillTell(r, x)'
      BY <1>3, <1>6 DEF WillTell, Announces
<1>8. queue' \in [Seat -> Nat] /\ silent' \in SUBSET Seat /\ events' \in 0..MaxEvents
      BY <1>1, <1>4 DEF TypeOK
<1> QED BY <1>1, <1>4, <1>6, <1>7, <1>8, TaskGoesOn

LEMMA ReadHoldsKeeps ==
    ASSUME RealtimeInv, NEW t \in Worker, ReadHolds(t) PROVE RealtimeInv'
<1>1. TypeOK /\ task \in [Worker -> Task] /\ task[t].step = "holds"
      BY DEF RealtimeInv, TypeOK, ReadHolds
<1>2. task[t].seat \in Seat /\ ReadSound(t)
      BY <1>1 DEF RealtimeInv, TaskSound
<1>3. PICK s \in Seat : s = task[t].seat
      BY <1>2
<1>4. PICK status : status = Shown(task[t].row, s \in held)
      OBVIOUS
<1>5. row[s] \in {"AVAILABLE", "BOOKED", "BLOCKED"}
      BY <1>1 DEF TypeOK
<1>6. \/ status \in task[t].seen
      \/ /\ task[t].seen \cap {"BOOKED", "BLOCKED"} # {}
         /\ \/ status = "AVAILABLE" /\ "HELD" \in task[t].seen
            \/ status = "HELD" /\ "AVAILABLE" \in task[t].seen
  <2>1. CASE task[t].row # "AVAILABLE"
        BY <1>2, <1>4, <2>1 DEF Shown, ReadSound
  <2>2. CASE task[t].row = "AVAILABLE" /\ row[s] = "AVAILABLE"
    <3>1. status = SeatIs(s)
          BY <1>4, <2>2 DEF Shown, SeatIs, Truth
    <3> QED BY <1>2, <1>3, <3>1 DEF ReadSound
  <2>3. CASE task[t].row = "AVAILABLE" /\ row[s] # "AVAILABLE"
    <3>1. status \in {"HELD", "AVAILABLE"}
          BY <1>4, <2>3 DEF Shown
    <3>2. row[s] \in task[t].seen /\ row[s] \in {"BOOKED", "BLOCKED"}
          BY <1>2, <1>3, <1>5, <2>3 DEF ReadSound, SeatIs, Truth
    <3>3. "AVAILABLE" \in task[t].seen \/ "HELD" \in task[t].seen
          BY <1>2, <2>3 DEF ReadSound
    <3> QED BY <3>1, <3>2, <3>3
  <2> QED BY <2>1, <2>2, <2>3
<1>7. status \in Status \cup {None}
      BY <1>1, <1>4 DEF Shown, Status, Task
<1>8. PICK next : next = [[task[t] EXCEPT !.step = "publish"] EXCEPT !.status = status]
      OBVIOUS
<1>9. /\ next \in Task
      /\ next.step = "publish" /\ next.seat = s /\ next.status = status
      /\ next.seen = task[t].seen
      BY <1>1, <1>3, <1>7, <1>8 DEF Task, Steps
<1>10. task' = [task EXCEPT ![t] = next]
      BY <1>1, <1>3, <1>4, <1>8 DEF ReadHolds
<1>11. /\ task'[t].step = "publish" /\ task'[t].seat = s /\ task'[t].status = status
       /\ task'[t].seen = task[t].seen
      BY <1>1, <1>9, <1>10
<1>12. TaskSound(t)'
      BY <1>6, <1>11 DEF TaskSound, Timely
<1>13. UNCHANGED <<consumerVars, seatVars, queue, stream, orphaned, due, silent, events>>
      BY DEF ReadHolds
<1>14. \A x \in Seat : WillTell(t, x) => WillTell(t, x)'
  <2>1. ASSUME task[t].row = row[s] PROVE WillTell(t, s)'
    <3>1. status = SeatIs(s)
          BY <1>4, <1>5, <2>1 DEF Shown, SeatIs, Truth
    <3>2. SeatIs(s)' = SeatIs(s)
          BY <1>13 DEF SeatIs, seatVars
    <3> QED BY <1>11, <3>1, <3>2 DEF WillTell, Announces
  <2> QED BY <1>1, <1>3, <2>1 DEF WillTell, Announces
<1>15. queue' \in [Seat -> Nat] /\ silent' \in SUBSET Seat /\ events' \in 0..MaxEvents
      BY <1>1, <1>13 DEF TypeOK
<1> QED BY <1>1, <1>9, <1>10, <1>12, <1>13, <1>14, <1>15, TaskGoesOn

(* A task that gives up leaves its seat to the silent ones. *)
LEMMA GivesUpKeeps ==
    ASSUME RealtimeInv, NEW t \in Worker, ReadFails(t) \/ ReplyLost(t) PROVE RealtimeInv'
<1>1. TypeOK /\ task[t].step # "idle"
      BY DEF RealtimeInv, ReadFails, ReplyLost
<1>2. task[t].seat \in Seat
      BY <1>1 DEF RealtimeInv, TaskSound
<1>3. /\ task' = [task EXCEPT ![t] = Idle]
      /\ UNCHANGED <<consumerVars, seatVars, queue, stream, orphaned, due>>
      BY DEF ReadFails, ReplyLost
<1>4. events' \in 0..MaxEvents
      BY <1>1, CountedTyped DEF ReadFails, ReplyLost, TypeOK
<1>5. silent' \in SUBSET Seat /\ silent \subseteq silent'
      BY <1>1, <1>2 DEF ReadFails, ReplyLost, Unannounced, TypeOK
<1>6. ASSUME NEW x \in Seat, WillTell(t, x) PROVE x \in silent'
  <2>1. CASE ReadFails(t)
        BY <1>6, <2>1 DEF ReadFails, WillTell, Announces
  <2>2. CASE ReplyLost(t)
        BY <1>6, <2>2 DEF ReplyLost, Unannounced, WillTell, Announces
  <2> QED BY <2>1, <2>2
<1> QED BY <1>3, <1>4, <1>5, <1>6, GoesIdle

------------------------------------------------------------------------------
(* The streams *)

\* A message is in the iterator's queue or on the websocket.
Carries(st, m) ==
    \/ \E i \in 1..Len(st.queue) : st.queue[i] = m
    \/ \E i \in 1..Len(st.wire) : st.wire[i] = m

StreamSound(st) ==
    /\ st \in Stream
    /\ Len(st.wire) <= 1
    /\ st.waiting => st.queue = <<>> /\ st.wire = <<>>

LEMMA OnEventIs ==
    ASSUME NEW st, StreamSound(st), NEW m \in Message, NEW after, after = OnEvent(st, m)
    PROVE  /\ StreamSound(after)
           /\ after.active = st.active
           /\ \A n : Carries(st, n) => Carries(after, n)
           /\ st.active => Carries(after, m)
<1>1. /\ st \in Stream /\ st.queue \in Seq(Message) /\ st.wire \in Seq(Message)
      /\ Len(st.wire) <= 1 /\ (st.waiting => st.queue = <<>> /\ st.wire = <<>>)
      BY DEF StreamSound, Stream
<1>2. CASE ~st.active
      BY <1>2 DEF OnEvent, StreamSound
<1>3. CASE st.active /\ st.waiting
  <2>1. PICK w : w = <<m>>
        OBVIOUS
  <2>2. w \in Seq(Message) /\ Len(w) = 1 /\ w[1] = m
        BY <2>1
  <2>3. after = [[st EXCEPT !.waiting = FALSE] EXCEPT !.wire = w]
        BY <1>3, <2>1 DEF OnEvent
  <2>4. /\ after \in Stream /\ after.active = st.active /\ after.queue = st.queue
        /\ after.wire = w /\ ~after.waiting
        BY <1>1, <2>2, <2>3 DEF Stream
  <2>5. StreamSound(after)
    <3>1. Len(w) <= 1
          BY <2>2
    <3> QED BY <2>4, <3>1, Zenon DEF StreamSound
  <2>6. \A n : ~Carries(st, n)
        BY <1>1, <1>3 DEF Carries
  <2>7. Carries(after, m)
        BY <2>2, <2>4 DEF Carries
  <2> QED BY <2>4, <2>5, <2>6, <2>7
<1>4. CASE st.active /\ ~st.waiting
  <2>1. PICK q : q = Append(st.queue, m)
        OBVIOUS
  <2>2. /\ q \in Seq(Message) /\ Len(q) = Len(st.queue) + 1 /\ q[Len(st.queue) + 1] = m
        /\ \A i \in 1..Len(st.queue) : q[i] = st.queue[i]
        BY <1>1, <2>1
  <2>3. after = [st EXCEPT !.queue = q]
        BY <1>4, <2>1 DEF OnEvent
  <2>4. /\ after \in Stream /\ after.active = st.active /\ after.wire = st.wire
        /\ after.queue = q /\ after.waiting = st.waiting
        BY <1>1, <2>2, <2>3 DEF Stream
  <2>5. StreamSound(after)
        BY <1>1, <1>4, <2>4 DEF StreamSound
  <2>6. Len(st.queue) \in Nat
        BY <1>1
  <2>7. \A n : Carries(st, n) => Carries(after, n)
        BY <2>2, <2>4, <2>6 DEF Carries
  <2>8. Carries(after, m)
        BY <2>2, <2>4, <2>6 DEF Carries
  <2> QED BY <2>4, <2>5, <2>7, <2>8
<1> QED BY <1>2, <1>3, <1>4

LEMMA PublishKeeps ==
    ASSUME RealtimeInv, NEW t \in Worker, Publish(t) PROVE RealtimeInv'
<1>1. TypeOK /\ task \in [Worker -> Task] /\ task[t].step = "publish"
      BY DEF RealtimeInv, TypeOK, Publish
<1>2. PICK m : m = [seat |-> task[t].seat, status |-> task[t].status]
      OBVIOUS
<1>3. m \in Message
  <2>1. task[t].seat \in Seat /\ Timely(t)
        BY <1>1 DEF RealtimeInv, TaskSound
  <2>2. task[t].status \in Status
        BY <1>1, <2>1 DEF Timely, Task, Status
  <2> QED BY <1>2, <2>1, <2>2 DEF Message
<1>4. /\ stream' = [v \in Viewer |-> OnEvent(stream[v], m)]
      /\ task' = [task EXCEPT ![t] = Idle]
      /\ UNCHANGED <<consumerVars, seatVars, queue, orphaned, due, silent, events>>
      BY <1>2 DEF Publish
<1>5. ASSUME NEW v \in Viewer
      PROVE  /\ StreamSound(stream'[v]) /\ stream'[v].active = stream[v].active
             /\ \A n : Carries(stream[v], n) => Carries(stream'[v], n)
             /\ stream[v].active => Carries(stream'[v], m)
  <2>1. PICK st : st = stream[v]
        OBVIOUS
  <2>2. PICK after : after = stream'[v]
        OBVIOUS
  <2>3. StreamSound(st)
        BY <1>1, <2>1 DEF TypeOK, StreamSound
  <2>4. after = OnEvent(st, m)
        BY <1>4, <2>1, <2>2
  <2> QED BY <1>3, <2>1, <2>2, <2>3, <2>4, OnEventIs
<1>6. Idle \in Task
      BY DEF Idle, Task, Steps
<1>7. task' \in [Worker -> Task] /\ task'[t] = Idle /\ \A u \in Worker \ {t} : task'[u] = task[u]
      BY <1>1, <1>4, <1>6
<1>8. stream' \in [Viewer -> Stream]
      BY <1>4, <1>5 DEF StreamSound
<1>9. UNCHANGED <<row, held, sale>>
      BY <1>4 DEF seatVars
<1>10. ConsumerTypeOK'
      BY <1>1, <1>4, ConsumerTyped DEF TypeOK
<1>11. TypeOK'
      BY <1>1, <1>4, <1>5, <1>7, <1>8, <1>9, <1>10 DEF TypeOK, StreamSound
<1>12. \A x \in Seat : SeatIs(x)' = SeatIs(x)
      BY <1>9 DEF SeatIs
<1>13. ASSUME NEW u \in Worker PROVE TaskSound(u)'
  <2>1. CASE u = t
        BY <1>7, <2>1 DEF TaskSound, Idle
  <2>2. CASE u # t
        BY <1>7, <1>9, <2>2 DEF RealtimeInv, TaskSound, ReadSound, Timely, SeatIs
  <2> QED BY <2>1, <2>2
<1>14. ASSUME NEW v \in Viewer, NEW x \in due'[v] \ silent' PROVE ToCome(x)' \/ Carried(v, x)'
  <2>1. x \in Seat /\ x \in due[v] \ silent /\ (ToCome(x) \/ Carried(v, x))
        BY <1>1, <1>4 DEF RealtimeInv, Told, TypeOK
  <2>2. stream[v].active
        BY <2>1 DEF RealtimeInv
  <2>3. PICK n : n = [seat |-> x, status |-> SeatIs(x)]
        OBVIOUS
  <2>4. (Carried(v, x) <=> Carries(stream[v], n)) /\ (Carried(v, x)' <=> Carries(stream'[v], n))
        BY <1>12, <2>1, <2>3 DEF Carried, Carries
  <2>5. WillTell(t, x) => m = n
        BY <1>1, <1>2, <2>3 DEF WillTell, Announces
  <2>6. \A u \in Worker \ {t} : WillTell(u, x) => WillTell(u, x)'
        BY <1>7, <1>9, <1>12, <2>1 DEF WillTell, Announces
  <2>7. ToCome(x) => ToCome(x)' \/ WillTell(t, x)
        BY <1>4, <1>9, <2>6 DEF ToCome
  <2> QED BY <1>5, <2>1, <2>2, <2>4, <2>5, <2>7
<1>15. \A x \in Seat : sale'[x] = "confirmed" => row'[x] = "BOOKED"
      BY <1>9 DEF RealtimeInv
<1>16. \A v \in Viewer : ~stream'[v].active => due'[v] = {}
      BY <1>4, <1>5 DEF RealtimeInv
<1> QED BY <1>11, <1>13, <1>14, <1>15, <1>16 DEF RealtimeInv, Told

(* A step of one viewer: what was carried still is, or is no longer due. *)
LEMMA ViewerGoesOn ==
    ASSUME RealtimeInv, NEW v \in Viewer, NEW next, StreamSound(next),
           stream' = [stream EXCEPT ![v] = next],
           UNCHANGED <<consumerVars, seatVars, queue, task, orphaned, silent>>,
           events' \in 0..MaxEvents,
           due' \in [Viewer -> SUBSET Seat], \A w \in Viewer \ {v} : due'[w] = due[w],
           due'[v] \subseteq due[v],
           ~next.active => due'[v] = {},
           \A x \in due'[v] :
               LET n == [seat |-> x, status |-> SeatIs(x)]
               IN  Carries(stream[v], n) => Carries(next, n)
    PROVE  RealtimeInv'
<1>1. TypeOK /\ stream \in [Viewer -> Stream]
      BY DEF RealtimeInv, TypeOK
<1>2. UNCHANGED <<row, held, sale>>
      BY DEF seatVars
<1>3. stream' \in [Viewer -> Stream] /\ stream'[v] = next
      BY <1>1 DEF StreamSound
<1>4. \A w \in Viewer \ {v} : stream'[w] = stream[w]
      BY <1>1
<1>5. ConsumerTypeOK'
      BY <1>1, ConsumerTyped DEF TypeOK
<1>6. TypeOK'
  <2>1. ASSUME NEW w \in Viewer
        PROVE  /\ Len(stream'[w].wire) <= 1
               /\ stream'[w].waiting => stream'[w].queue = <<>> /\ stream'[w].wire = <<>>
    <3>1. CASE w = v
          BY <1>3, <3>1 DEF StreamSound
    <3>2. CASE w # v
          BY <1>1, <1>4, <3>2 DEF TypeOK
    <3> QED BY <3>1, <3>2
  <2> QED BY <1>1, <1>2, <1>3, <1>5, <2>1 DEF TypeOK
<1>7. \A x \in Seat : SeatIs(x)' = SeatIs(x)
      BY <1>2 DEF SeatIs
<1>8. \A u \in Worker : TaskSound(u)'
      BY <1>2 DEF RealtimeInv, TaskSound, ReadSound, Timely, SeatIs
<1>9. \A x \in Seat : ToCome(x) => ToCome(x)'
      BY <1>2, <1>7 DEF ToCome, WillTell, Announces
<1>10. ASSUME NEW w \in Viewer, NEW x \in due'[w] \ silent' PROVE ToCome(x)' \/ Carried(w, x)'
  <2>1. x \in Seat /\ x \in due[w] \ silent
        BY <1>1 DEF TypeOK
  <2>2. ToCome(x) \/ Carried(w, x)
        BY <2>1 DEF RealtimeInv, Told
  <2>3. PICK n : n = [seat |-> x, status |-> SeatIs(x)]
        OBVIOUS
  <2>4. (Carried(w, x) <=> Carries(stream[w], n)) /\ (Carried(w, x)' <=> Carries(stream'[w], n))
        BY <1>7, <2>1, <2>3 DEF Carried, Carries
  <2>5. CASE w = v
    <3>1. Carries(stream[v], n) => Carries(next, n)
          BY <2>3, <2>5
    <3> QED BY <1>3, <1>9, <2>1, <2>2, <2>4, <2>5, <3>1
  <2>6. CASE w # v
        BY <1>4, <1>9, <2>1, <2>2, <2>4, <2>6
  <2> QED BY <2>5, <2>6
<1>11. \A x \in Seat : sale'[x] = "confirmed" => row'[x] = "BOOKED"
      BY <1>2 DEF RealtimeInv
<1>12. \A w \in Viewer : ~stream'[w].active => due'[w] = {}
      BY <1>3, <1>4 DEF RealtimeInv
<1> QED BY <1>6, <1>8, <1>10, <1>11, <1>12 DEF RealtimeInv, Told

LEMMA StreamIs ==
    ASSUME TypeOK, NEW v \in Viewer
    PROVE  StreamSound(stream[v]) /\ due[v] \in SUBSET Seat
BY DEF TypeOK, StreamSound

LEMMA SubscribeKeeps ==
    ASSUME RealtimeInv, NEW v \in Viewer, Subscribe(v) PROVE RealtimeInv'
<1>1. TypeOK
      BY DEF RealtimeInv
<1>2. PICK next : next = [stream[v] EXCEPT !.active = TRUE]
      OBVIOUS
<1>3. StreamSound(stream[v])
      BY <1>1, StreamIs
<1>4. next \in Stream /\ next.active /\ next.queue = stream[v].queue
      /\ next.wire = stream[v].wire /\ next.waiting = stream[v].waiting
      BY <1>2, <1>3 DEF StreamSound, Stream
<1>5. StreamSound(next) /\ \A n : Carries(stream[v], n) => Carries(next, n)
      BY <1>3, <1>4 DEF StreamSound, Carries
<1>6. stream' = [stream EXCEPT ![v] = next]
      BY <1>2 DEF Subscribe
<1>7. UNCHANGED <<consumerVars, seatVars, queue, task, orphaned, due, silent, events>>
      BY DEF Subscribe
<1>8. due' \in [Viewer -> SUBSET Seat] /\ events' \in 0..MaxEvents
      BY <1>1, <1>7 DEF TypeOK
<1> QED BY <1>4, <1>5, <1>6, <1>7, <1>8, ViewerGoesOn

LEMMA DisconnectKeeps ==
    ASSUME RealtimeInv, NEW v \in Viewer, Disconnect(v) PROVE RealtimeInv'
<1>1. TypeOK
      BY DEF RealtimeInv
<1>2. StreamSound(Off)
      BY DEF StreamSound, Off, Stream
<1>3. /\ due' \in [Viewer -> SUBSET Seat] /\ due'[v] = {}
      /\ \A w \in Viewer \ {v} : due'[w] = due[w]
      BY <1>1 DEF Disconnect, TypeOK
<1>4. events' \in 0..MaxEvents
      BY <1>1, CountedTyped DEF Disconnect, TypeOK
<1>5. /\ stream' = [stream EXCEPT ![v] = Off]
      /\ UNCHANGED <<consumerVars, seatVars, queue, task, orphaned, silent>>
      BY DEF Disconnect
<1>6. PICK next : next = Off
      OBVIOUS
<1> QED BY <1>2, <1>3, <1>4, <1>5, <1>6, ViewerGoesOn

LEMMA NextResultKeeps ==
    ASSUME RealtimeInv, NEW v \in Viewer, NextResult(v) PROVE RealtimeInv'
<1>1. TypeOK
      BY DEF RealtimeInv
<1>2. PICK st : st = stream[v]
      OBVIOUS
<1>3. /\ st \in Stream /\ st.queue \in Seq(Message) /\ st.active /\ ~st.waiting /\ st.wire = <<>>
      BY <1>1, <1>2, StreamIs DEF NextResult, StreamSound, Stream
<1>4. PICK next : next = IF st.queue = <<>> THEN [st EXCEPT !.waiting = TRUE]
                         ELSE [st EXCEPT !.wire = <<Head(st.queue)>>, !.queue = Tail(st.queue)]
      OBVIOUS
<1>5. stream' = [stream EXCEPT ![v] = next]
      BY <1>2, <1>4 DEF NextResult
<1>6. StreamSound(next) /\ next.active /\ \A n : Carries(st, n) => Carries(next, n)
  <2>1. CASE st.queue = <<>>
    <3>1. next = [st EXCEPT !.waiting = TRUE]
          BY <1>4, <2>1
    <3>2. /\ next \in Stream /\ next.active /\ next.queue = st.queue /\ next.wire = st.wire
          BY <1>3, <3>1 DEF Stream
    <3> QED BY <1>3, <2>1, <3>2 DEF StreamSound, Carries
  <2>2. CASE st.queue # <<>>
    <3>1. PICK w, q : w = <<Head(st.queue)>> /\ q = Tail(st.queue)
          OBVIOUS
    <3>2. Head(st.queue) \in Message /\ Head(st.queue) = st.queue[1] /\ Len(st.queue) \in Nat \ {0}
          BY <1>3, <2>2
    <3>3. w \in Seq(Message) /\ Len(w) = 1 /\ w[1] = st.queue[1]
          BY <3>1, <3>2
    <3>4. /\ q \in Seq(Message) /\ Len(q) = Len(st.queue) - 1
          /\ \A i \in 1..Len(q) : q[i] = st.queue[i + 1]
          BY <1>3, <2>2, <3>1
    <3>5. next = [[st EXCEPT !.wire = w] EXCEPT !.queue = q]
          BY <1>4, <2>2, <3>1
    <3>6. /\ next \in Stream /\ next.active /\ next.wire = w /\ next.queue = q /\ ~next.waiting
          BY <1>3, <3>3, <3>4, <3>5 DEF Stream
    <3>7. StreamSound(next)
      <4>1. Len(w) <= 1
            BY <3>3
      <4> QED BY <3>6, <4>1, Zenon DEF StreamSound
    <3>8. ASSUME NEW n, Carries(st, n) PROVE Carries(next, n)
      <4>1. PICK i \in 1..Len(st.queue) : st.queue[i] = n
            BY <1>3, <3>8 DEF Carries
      <4>2. CASE i = 1
        <5>1. 1 \in 1..Len(w) /\ w[1] = n
              BY <3>3, <4>1, <4>2
        <5> QED BY <3>6, <5>1 DEF Carries
      <4>3. CASE i # 1
        <5>1. i - 1 \in 1..Len(q) /\ q[i - 1] = n
          <6>1. i - 1 \in 1..Len(q)
                BY <3>2, <3>4, <4>3
          <6>2. (i - 1) + 1 = i
                OBVIOUS
          <6> QED BY <3>4, <4>1, <6>1, <6>2
        <5> QED BY <3>6, <5>1 DEF Carries
      <4> QED BY <4>2, <4>3
    <3> QED BY <3>6, <3>7, <3>8
  <2> QED BY <2>1, <2>2
<1>7. UNCHANGED <<consumerVars, seatVars, queue, task, orphaned, due, silent, events>>
      BY DEF NextResult
<1>8. due' \in [Viewer -> SUBSET Seat] /\ events' \in 0..MaxEvents
      BY <1>1, <1>7 DEF TypeOK
<1> QED BY <1>2, <1>5, <1>6, <1>7, <1>8, ViewerGoesOn

LEMMA ReceiveKeeps ==
    ASSUME RealtimeInv, NEW v \in Viewer, Receive(v) PROVE RealtimeInv'
<1>1. TypeOK /\ due \in [Viewer -> SUBSET Seat]
      BY DEF RealtimeInv, TypeOK
<1>2. PICK st : st = stream[v]
      OBVIOUS
<1>3. PICK m : m = Head(st.wire)
      OBVIOUS
<1>4. StreamSound(st) /\ st \in Stream /\ st.wire \in Seq(Message) /\ st.wire # <<>>
      BY <1>1, <1>2, StreamIs DEF Receive, StreamSound, Stream
<1>5. Len(st.wire) = 1 /\ st.wire[1] = m
  <2>1. Len(st.wire) \in Nat \ {0} /\ Head(st.wire) = st.wire[1]
        BY <1>4
  <2>2. Len(st.wire) <= 1
        BY <1>4 DEF StreamSound
  <2>3. Len(st.wire) = 1
    <3>1. PICK k \in Nat \ {0} : k = Len(st.wire)
          BY <2>1
    <3>2. k <= 1
          BY <2>2, <3>1, Zenon
    <3>3. k = 1
          BY <3>2
    <3> QED BY <3>1, <3>3
  <2> QED BY <1>3, <2>1, <2>3
<1>6. PICK next : next = [st EXCEPT !.wire = <<>>]
      OBVIOUS
<1>7. /\ next \in Stream /\ next.active = st.active /\ next.queue = st.queue
      /\ next.wire = <<>> /\ next.waiting = st.waiting
  <2>1. PICK e : e = <<>>
        OBVIOUS
  <2>2. e \in Seq(Message)
        BY <2>1
  <2>3. next = [st EXCEPT !.wire = e]
        BY <1>6, <2>1
  <2>4. /\ next \in Stream /\ next.active = st.active /\ next.queue = st.queue
        /\ next.wire = e /\ next.waiting = st.waiting
        BY <1>4, <2>2, <2>3 DEF Stream
  <2> QED BY <2>1, <2>4
<1>8. StreamSound(next)
      BY <1>4, <1>7 DEF StreamSound
<1>9. stream' = [stream EXCEPT ![v] = next]
      BY <1>2, <1>6 DEF Receive
<1>10. due' = IF m.status = SeatIs(m.seat) THEN [due EXCEPT ![v] = @ \ {m.seat}] ELSE due
      BY <1>2, <1>3 DEF Receive
<1>11. /\ due' \in [Viewer -> SUBSET Seat] /\ due'[v] \subseteq due[v]
       /\ \A w \in Viewer \ {v} : due'[w] = due[w]
      BY <1>1, <1>10
<1>12. ASSUME NEW x \in due'[v], NEW n, n = [seat |-> x, status |-> SeatIs(x)], Carries(st, n)
       PROVE  Carries(next, n)
  <2>1. m # n
    <3>1. SUFFICES ASSUME m = n PROVE FALSE
          OBVIOUS
    <3>2. m.seat = x /\ m.status = SeatIs(x)
          BY <1>12, <3>1
    <3>3. m.status = SeatIs(m.seat)
          BY <3>2
    <3>4. due'[v] = due[v] \ {x}
          BY <1>1, <1>10, <3>2, <3>3
    <3> QED BY <1>12, <3>4
  <2>2. PICK i \in 1..Len(st.queue) : st.queue[i] = n
        BY <1>5, <1>12, <2>1 DEF Carries
  <2> QED BY <1>7, <2>2 DEF Carries
<1>13. ~next.active => due'[v] = {}
      BY <1>2, <1>7, <1>11 DEF RealtimeInv
<1>14. /\ UNCHANGED <<consumerVars, seatVars, queue, task, orphaned, silent>>
       /\ events' \in 0..MaxEvents
      BY <1>1 DEF Receive, TypeOK
<1> QED BY <1>2, <1>8, <1>9, <1>11, <1>12, <1>13, <1>14, ViewerGoesOn

------------------------------------------------------------------------------
(* Links and processes *)

LEMMA Redelivered ==
    ASSUME TypeOK, Redeliver
    PROVE  /\ queue' \in [Seat -> Nat]
           /\ \A x \in Seat : queue[x] > 0 => queue'[x] > 0
           /\ task["bridge"] # Idle /\ task["bridge"].seat \in Seat =>
                 queue'[task["bridge"].seat] > 0
BY DEF TypeOK, Redeliver, InHand

LEMMA LinkClosesKeeps == ASSUME RealtimeInv, LinkCloses PROVE RealtimeInv'
<1> DEFINE bridge == "bridge"
<1>1. TypeOK /\ task \in [Worker -> Task] /\ bridge \in Worker
      BY DEF RealtimeInv, TypeOK, Worker
<1>2. /\ LinkLost /\ Counted /\ Redeliver /\ task' = [task EXCEPT ![bridge] = Idle]
      /\ orphaned' = (orphaned \/ task[bridge] # Idle)
      /\ UNCHANGED <<row, held, sale, stream, due, silent>>
      BY DEF LinkCloses, seatVars
<1>3. /\ queue' \in [Seat -> Nat]
      /\ \A x \in Seat : queue[x] > 0 => queue'[x] > 0
      /\ task[bridge] # Idle /\ task[bridge].seat \in Seat => queue'[task[bridge].seat] > 0
      BY <1>1, <1>2, Redelivered
<1> HIDE DEF bridge
<1>4. Idle \in Task
      BY DEF Idle, Task, Steps
<1>5. /\ task' \in [Worker -> Task] /\ task'[bridge] = Idle
      /\ \A u \in Worker \ {bridge} : task'[u] = task[u]
      BY <1>1, <1>2, <1>4
<1>6. ConsumerTypeOK'
      BY <1>1, <1>2, ConsumerTyped DEF TypeOK, ConsumerNext
<1>7. events' \in 0..MaxEvents /\ orphaned' \in BOOLEAN
      BY <1>1, <1>2, CountedTyped DEF TypeOK
<1>8. TypeOK'
      BY <1>1, <1>2, <1>3, <1>5, <1>6, <1>7 DEF TypeOK
<1>9. \A x \in Seat : SeatIs(x)' = SeatIs(x)
      BY <1>2 DEF SeatIs
<1>10. ASSUME NEW u \in Worker PROVE TaskSound(u)'
  <2>1. CASE u = bridge
        BY <1>5, <2>1 DEF TaskSound, Idle
  <2>2. CASE u # bridge
        BY <1>2, <1>5, <2>2 DEF RealtimeInv, TaskSound, ReadSound, Timely, SeatIs
  <2> QED BY <2>1, <2>2
<1>11. ASSUME NEW v \in Viewer, NEW x \in due'[v] \ silent' PROVE ToCome(x)' \/ Carried(v, x)'
  <2>1. x \in Seat /\ (ToCome(x) \/ Carried(v, x))
        BY <1>1, <1>2 DEF RealtimeInv, Told, TypeOK
  <2>2. WillTell(bridge, x) => queue'[x] > 0
        BY <1>3, <2>1 DEF WillTell, Announces, Idle
  <2>3. \A u \in Worker \ {bridge} : WillTell(u, x) => WillTell(u, x)'
        BY <1>2, <1>5, <1>9, <2>1 DEF WillTell, Announces
  <2>4. ToCome(x) => ToCome(x)'
        BY <1>2, <1>3, <2>1, <2>2, <2>3 DEF ToCome
  <2>5. Carried(v, x) => Carried(v, x)'
        BY <1>2, <1>9, <2>1 DEF Carried
  <2> QED BY <2>1, <2>4, <2>5
<1>12. \A x \in Seat : sale'[x] = "confirmed" => row'[x] = "BOOKED"
      BY <1>2 DEF RealtimeInv
<1>13. \A v \in Viewer : ~stream'[v].active => due'[v] = {}
      BY <1>2 DEF RealtimeInv
<1> QED BY <1>8, <1>10, <1>11, <1>12, <1>13 DEF RealtimeInv, Told

LEMMA GatewayDiesKeeps ==
    ASSUME RealtimeInv, GatewayDies, events' \in 0..MaxEvents PROVE RealtimeInv'
<1>1. TypeOK /\ task \in [Worker -> Task]
      BY DEF RealtimeInv, TypeOK
<1>2. /\ Restart /\ Redeliver /\ silent' = silent \cup UNION {InHand(r) : r \in Resolver}
      /\ task' = [t \in Worker |->
                     IF task[t].step \in {"create", "recheck", "discard", "unhold"}
                     THEN [task[t] EXCEPT !.status = None] ELSE Idle]
      /\ stream' = [v \in Viewer |-> Off]
      /\ orphaned' = FALSE /\ due' = [v \in Viewer |-> {}]
      /\ UNCHANGED <<row, held, sale>>
      BY <1>1 DEF GatewayDies, seatVars
<1>3. queue' \in [Seat -> Nat]
      BY <1>1, <1>2, Redelivered
<1>4. silent' \in SUBSET Seat
  <2>1. ASSUME NEW r \in Resolver PROVE InHand(r) \subseteq Seat
    <3>1. r \in Worker
          BY DEF Worker
    <3>2. task[r] # Idle => task[r].seat \in Seat
          BY <3>1 DEF RealtimeInv, TaskSound
    <3> QED BY <3>2 DEF InHand
  <2> QED BY <1>1, <1>2, <2>1 DEF TypeOK
<1>5. Idle \in Task /\ Off \in Stream
      BY DEF Idle, Task, Steps, Off, Stream
<1>6. ConsumerTypeOK'
      BY <1>1, <1>2, ConsumerTyped DEF TypeOK, ConsumerNext
<1>7. \A v \in Viewer : Len(stream'[v].wire) <= 1 /\ ~stream'[v].waiting
      BY <1>2 DEF Off
<1>8. ASSUME NEW t \in Worker PROVE task'[t] \in Task /\ TaskSound(t)'
  <2>1. CASE task[t].step \in {"create", "recheck", "discard", "unhold"}
    <3>1. PICK next : next = [task[t] EXCEPT !.status = None]
          OBVIOUS
    <3>2. /\ next \in Task /\ next.step = task[t].step /\ next.seat = task[t].seat
          /\ next.status = None
          BY <1>1, <3>1 DEF Task
    <3>3. task[t].seat \in Seat
          BY <2>1 DEF RealtimeInv, TaskSound
    <3> QED BY <1>2, <2>1, <3>1, <3>2, <3>3 DEF TaskSound
  <2>2. CASE task[t].step \notin {"create", "recheck", "discard", "unhold"}
        BY <1>2, <1>5, <2>2 DEF TaskSound, Idle
  <2> QED BY <2>1, <2>2
<1>9. task' \in [Worker -> Task]
      BY <1>2, <1>8
<1>10. TypeOK'
      BY <1>1, <1>2, <1>3, <1>4, <1>5, <1>6, <1>7, <1>9 DEF TypeOK
<1>11. \A x \in Seat : sale'[x] = "confirmed" => row'[x] = "BOOKED"
      BY <1>2 DEF RealtimeInv
<1>12. \A v \in Viewer : due'[v] = {}
      BY <1>2
<1> QED BY <1>8, <1>10, <1>11, <1>12 DEF RealtimeInv, Told

LEMMA UnaffectedKeeps ==
    ASSUME RealtimeInv, [ConsumerNext]_consumerVars, Unaffected, events' \in 0..MaxEvents PROVE RealtimeInv'
<1>1. TypeOK
      BY DEF RealtimeInv
<1>2. UNCHANGED <<row, held, sale, queue, task, stream, orphaned, due, silent>>
      BY DEF Unaffected, seatVars
<1>3. ConsumerTypeOK'
      BY <1>1, ConsumerTyped DEF TypeOK
<1>4. TypeOK'
      BY <1>1, <1>2, <1>3 DEF TypeOK
<1>5. \A x \in Seat : SeatIs(x)' = SeatIs(x)
      BY <1>2 DEF SeatIs
<1>6. \A t \in Worker : TaskSound(t)'
      BY <1>2 DEF RealtimeInv, TaskSound, ReadSound, Timely, SeatIs
<1>7. ASSUME NEW v \in Viewer, NEW x \in due'[v] \ silent' PROVE ToCome(x)' \/ Carried(v, x)'
  <2>1. x \in Seat /\ (ToCome(x) \/ Carried(v, x))
        BY <1>1, <1>2 DEF RealtimeInv, Told, TypeOK
  <2>2. ToCome(x) => ToCome(x)'
        BY <1>2, <1>5, <2>1 DEF ToCome, WillTell, Announces
  <2>3. Carried(v, x) => Carried(v, x)'
        BY <1>2, <1>5, <2>1 DEF Carried
  <2> QED BY <2>1, <2>2, <2>3
<1>8. \A x \in Seat : sale'[x] = "confirmed" => row'[x] = "BOOKED"
      BY <1>2 DEF RealtimeInv
<1>9. \A v \in Viewer : ~stream'[v].active => due'[v] = {}
      BY <1>2 DEF RealtimeInv
<1> QED BY <1>4, <1>6, <1>7, <1>8, <1>9 DEF RealtimeInv, Told

------------------------------------------------------------------------------
LEMMA StepKeeps == RealtimeInv /\ [Next]_vars => RealtimeInv'
<1> SUFFICES ASSUME RealtimeInv, [Next]_vars PROVE RealtimeInv'
    OBVIOUS
<1>1. events \in 0..MaxEvents /\ DOMAIN task = Worker
      BY DEF RealtimeInv, TypeOK
<1>2. ASSUME NEW s \in Seat, SeatStep(s) PROVE RealtimeInv'
      BY <1>2, HoldSeatsKeeps, ReleaseSeatHoldKeeps, BlockSeatsKeeps, HoldExpiresKeeps,
         ConfirmSeatsKeeps, SettlementEndsKeeps, CancelBookingKeeps, AnnounceReleaseKeeps,
         DeliverKeeps
      DEF SeatStep
<1>3. ASSUME NEW t \in Worker, TaskStep(t) PROVE RealtimeInv'
      BY <1>3, ReadHoldsKeeps, GivesUpKeeps, PublishKeeps DEF TaskStep
<1>4. ASSUME NEW r \in Resolver, ResolverStep(r) PROVE RealtimeInv'
  <2>1. r \in Worker
        BY DEF Worker
  <2> QED BY <1>4, <2>1, CreateHoldKeeps, RecheckHoldKeeps, DiscardHoldKeeps,
             ReleaseSeatHoldsKeeps, ReadRowsKeeps, GivesUpKeeps
      DEF ResolverStep
<1>5. ASSUME NEW v \in Viewer, ViewerStep(v) PROVE RealtimeInv'
      BY <1>5, SubscribeKeeps, DisconnectKeeps, NextResultKeeps, ReceiveKeeps DEF ViewerStep
<1>6. CASE LinkCloses
      BY <1>6, LinkClosesKeeps
<1>7. CASE Crash
      BY <1>1, <1>7, CountedTyped, GatewayDiesKeeps DEF Crash
<1>8. CASE OrphanEnds
      BY <1>1, <1>8, GatewayDiesKeeps DEF OrphanEnds
<1>9. [Next]_vars => [ConsumerNext]_consumerVars
      BY GatewayStep
<1>10. CASE Reconnect
      BY <1>1, <1>9, <1>10, UnaffectedKeeps DEF Reconnect
<1>11. CASE AttemptBreaks
      BY <1>1, <1>9, <1>11, CountedTyped, UnaffectedKeeps DEF AttemptBreaks
<1>12. CASE UNCHANGED vars
      BY <1>1, <1>9, <1>12, UnaffectedKeeps DEF vars, Unaffected
<1> QED BY <1>1, <1>2, <1>3, <1>4, <1>5, <1>6, <1>7, <1>8, <1>10, <1>11, <1>12 DEF Next

\* The inductive invariant: what is owed to a viewer is on its way to that viewer, and
\* an answer under way will be timely.
THEOREM RealtimeInvariant == Spec => []RealtimeInv
BY Initially, StepKeeps, PTL DEF Spec

\* Whatever overtakes what, when the gateway, the queue and the websockets are quiet,
\* every subscribed browser has been told what each seat became by its last change,
\* unless a lost event, reply or message left that change without an announcement.
THEOREM EverybodyTold == Spec => []ViewersTold
<1>1. RealtimeInv => ViewersTold
  <2> SUFFICES ASSUME RealtimeInv, Quiet, NEW v \in Viewer, NEW s \in due[v] \ silent PROVE FALSE
      BY DEF ViewersTold
  <2>1. s \in Seat /\ DOMAIN task = Worker
        BY DEF RealtimeInv, TypeOK
  <2>2. ~ToCome(s)
        BY <2>1 DEF Quiet, ToCome, WillTell, Announces, Idle
  <2>3. ~Carried(v, s)
        BY DEF Quiet, Carried
  <2> QED BY <2>2, <2>3 DEF RealtimeInv, Told
<1> QED BY <1>1, RealtimeInvariant, PTL

\* The answer of GetSeatMap, read from two stores while seats change, is a status that
\* the seat had during the call; or the seat was sold or blocked meanwhile, and it is
\* called free that was held before, or held that was free.
THEOREM TornWhenTakenOnly == Spec => []TornOnlyWhenTaken
<1>1. RealtimeInv => TornOnlyWhenTaken
  <2>1. DOMAIN task = Worker \/ ~RealtimeInv
        BY DEF RealtimeInv, TypeOK
  <2> QED BY <2>1 DEF RealtimeInv, TaskSound, Timely, TornOnlyWhenTaken
<1> QED BY <1>1, RealtimeInvariant, PTL

------------------------------------------------------------------------------
(* The circuit breaker *)

\* Calls started in the past and have not outlived their deadline.
InTime ==
    \A c \in Call : InFlight(c) =>
        /\ call[c].started <= now
        /\ now <= call[c].started + Timeout

\* A breaker that is open while a trial is still in flight was opened, last,
\* by a call that ended after the trial began.
OpenedSinceTrial ==
    /\ openedAt <= now
    /\ state = "open" => \A c \in Trials : call[c].started <= openedAt

BreakerInv ==
    /\ BreakerTypeOK
    /\ InTime
    /\ OpenedSinceTrial
    /\ SingleTrial
    /\ NeverJammed
    /\ NoPileUp

(* The breaker starts closed with no call in flight. *)
LEMMA BreakerInitially == BreakerInit => BreakerInv
<1> SUFFICES ASSUME BreakerInit PROVE BreakerInv
  OBVIOUS
<1>1. call = [c \in Call |-> [started |-> 0, kind |-> "none"]]
  BY DEF BreakerInit, NoCall
<1>2. \A c \in Call : ~InFlight(c) /\ call[c].kind # "ordinary"
  BY <1>1 DEF InFlight
<1>3. Trials = {}
  BY <1>1 DEF Trials
<1>4. BreakerTypeOK
  <2>1. failures \in 0..Threshold /\ now \in Nat /\ openedAt \in Nat
    BY ThresholdIsPositive DEF BreakerInit
  <2>2. call \in [Call -> Calls]
    BY <1>1 DEF Calls
  <2>3. state \in {"closed", "open", "half-open"} /\ halfOpenInFlight \in BOOLEAN
    BY Zenon DEF BreakerInit
  <2> QED BY <2>1, <2>2, <2>3, Zenon DEF BreakerTypeOK
<1>5. InTime /\ OpenedSinceTrial /\ SingleTrial /\ NeverJammed /\ NoPileUp
  BY <1>2, <1>3 DEF BreakerInit, InTime, OpenedSinceTrial, SingleTrial, NeverJammed, NoPileUp
<1> QED BY <1>4, <1>5 DEF BreakerInv

(* A deadline that has come keeps the clock from moving. *)
LEMMA TickKeeps == BreakerInv /\ Tick => BreakerInv'
  BY TimesAreNat
  DEF Tick, BreakerInv, BreakerTypeOK, InTime, OpenedSinceTrial, SingleTrial, NeverJammed, NoPileUp,
      breaker, Calls, InFlight, Trials

(* When the cooldown is over no earlier trial can be in flight: it would have
   begun before the breaker opened, and have lived longer than its deadline. *)
LEMMA CooldownOutlivesTrials ==
    ASSUME Timeout < Cooldown, BreakerInv, state = "open", now - openedAt >= Cooldown
    PROVE  Trials = {}
  BY TimesAreNat DEF BreakerInv, BreakerTypeOK, InTime, OpenedSinceTrial, Calls, InFlight, Trials

(* Admitting a call, as an ordinary one or as the trial. *)
LEMMA AdmitKeeps ==
    ASSUME Timeout < Cooldown, BreakerInv, NEW c \in Call, Admit(c)
    PROVE  BreakerInv'
<1>1. CASE state # "open" /\ Send(c, "ordinary") /\ UNCHANGED breaker /\ now' = now
           /\ ~(state = "half-open" /\ halfOpenInFlight)
  <2>1. state = "closed"
    BY <1>1 DEF BreakerInv, BreakerTypeOK, NeverJammed
  <2>2. call' = [call EXCEPT ![c] = [started |-> now, kind |-> "ordinary"]]
    BY <1>1 DEF Send
  <2>3. BreakerTypeOK'
    BY <1>1, <2>2 DEF BreakerInv, BreakerTypeOK, Calls, breaker
  <2>4. Trials' \subseteq Trials /\ \A d \in Trials' : call'[d] = call[d]
    BY <2>2 DEF BreakerInv, BreakerTypeOK, Trials
  <2>5. InTime'
    BY <1>1, <2>2, TimesAreNat DEF BreakerInv, BreakerTypeOK, InTime, InFlight, Calls
  <2>6. OpenedSinceTrial' /\ SingleTrial' /\ NeverJammed' /\ NoPileUp'
    BY <1>1, <2>1, <2>4
    DEF BreakerInv, OpenedSinceTrial, SingleTrial, NeverJammed, NoPileUp, breaker
  <2> QED BY <2>3, <2>5, <2>6 DEF BreakerInv
<1>2. CASE /\ state = "open" /\ now - openedAt >= Cooldown
           /\ state' = "half-open" /\ halfOpenInFlight' = TRUE
           /\ Send(c, "trial") /\ UNCHANGED <<failures, openedAt, now>>
  <2>1. Trials = {}
    BY <1>2, CooldownOutlivesTrials
  <2>2. call' = [call EXCEPT ![c] = [started |-> now, kind |-> "trial"]]
    BY <1>2 DEF Send
  <2>3. BreakerTypeOK'
    BY <1>2, <2>2 DEF BreakerInv, BreakerTypeOK, Calls
  <2>4. Trials' = {c}
    BY <2>1, <2>2 DEF BreakerInv, BreakerTypeOK, Trials
  <2>5. InTime'
    BY <1>2, <2>2, TimesAreNat DEF BreakerInv, BreakerTypeOK, InTime, InFlight, Calls
  <2>6. OpenedSinceTrial' /\ SingleTrial' /\ NeverJammed'
    BY <1>2, <2>4 DEF BreakerInv, OpenedSinceTrial, SingleTrial, NeverJammed
  <2>7. NoPileUp'
    BY <1>2, <2>2 DEF BreakerInv, BreakerTypeOK, NoPileUp
  <2> QED BY <2>3, <2>5, <2>6, <2>7 DEF BreakerInv
<1> QED BY <1>1, <1>2 DEF Admit

(* A call that ends is no longer in flight; the others are as before. *)
LEMMA ReturnKeeps ==
    ASSUME BreakerInv, NEW c \in Call, Return(c), now' = now
    PROVE  /\ call' \in [Call -> Calls]
           /\ Trials' \subseteq Trials
           /\ \A d \in Call : InFlight(d)' => InFlight(d) /\ call'[d] = call[d]
           /\ InTime'
           /\ SingleTrial'
<1>1. call' = [call EXCEPT ![c] = NoCall]
  BY DEF Return
<1>2. call' \in [Call -> Calls]
  BY <1>1 DEF BreakerInv, BreakerTypeOK, Calls, NoCall
<1>3. \A d \in Call : InFlight(d)' => InFlight(d) /\ call'[d] = call[d]
  BY <1>1 DEF BreakerInv, BreakerTypeOK, InFlight, NoCall
<1>4. Trials' \subseteq Trials
  BY <1>1 DEF BreakerInv, BreakerTypeOK, Trials, NoCall
<1>5. InTime'
  BY <1>3 DEF BreakerInv, InTime
<1>6. SingleTrial'
  BY <1>4 DEF BreakerInv, SingleTrial
<1> QED BY <1>2, <1>3, <1>4, <1>5, <1>6

(* A success closes the breaker, whatever it was. *)
LEMMA SucceedKeeps ==
    ASSUME BreakerInv, NEW c \in Call, Succeed(c)
    PROVE  BreakerInv'
<1>1. /\ Return(c) /\ now' = now /\ openedAt' = openedAt
      /\ state' = "closed" /\ failures' = 0 /\ halfOpenInFlight' = FALSE
  BY DEF Succeed
<1>2. BreakerTypeOK'
  <2>1. failures' \in 0..Threshold /\ now' \in Nat /\ openedAt' \in Nat
    BY <1>1, ThresholdIsPositive DEF BreakerInv, BreakerTypeOK
  <2>2. call' \in [Call -> Calls]
    BY <1>1, ReturnKeeps
  <2>3. state' \in {"closed", "open", "half-open"} /\ halfOpenInFlight' \in BOOLEAN
    BY <1>1, Zenon
  <2> QED BY <2>1, <2>2, <2>3, Zenon DEF BreakerTypeOK
<1>3. OpenedSinceTrial' /\ NeverJammed' /\ NoPileUp'
  BY <1>1 DEF BreakerInv, OpenedSinceTrial, NeverJammed, NoPileUp
<1> QED BY <1>1, <1>2, <1>3, ReturnKeeps DEF BreakerInv

(* A failure opens the breaker now, or leaves its state alone. *)
LEMMA FailKeeps ==
    ASSUME BreakerInv, NEW c \in Call, Fail(c)
    PROVE  BreakerInv'
<1>1. Return(c) /\ now' = now /\ halfOpenInFlight' = FALSE
  BY DEF Fail
<1>2. failures' \in 0..Threshold
  BY ThresholdIsPositive DEF Fail, BreakerInv, BreakerTypeOK
<1>3. \/ state' = "open" /\ openedAt' = now
      \/ state # "half-open" /\ state' = state /\ openedAt' = openedAt
  BY DEF Fail
<1>4. BreakerTypeOK'
  BY <1>1, <1>2, <1>3, ReturnKeeps DEF BreakerInv, BreakerTypeOK
<1>5. \A d \in Trials' : d \in Trials /\ call'[d] = call[d] /\ call[d].started <= now
  BY <1>1, ReturnKeeps DEF BreakerInv, InTime, InFlight, Trials
<1>6. OpenedSinceTrial'
  BY <1>1, <1>3, <1>5 DEF BreakerInv, BreakerTypeOK, OpenedSinceTrial
<1>7. NeverJammed'
  BY <1>3 DEF BreakerInv, NeverJammed
<1>8. ASSUME NEW d \in Call, call'[d].kind = "ordinary"
      PROVE  call'[d] = call[d] /\ call[d].kind = "ordinary" /\ call[d].started <= now
  BY <1>1, <1>8, ReturnKeeps DEF BreakerInv, InTime, InFlight
<1>9. NoPileUp'
  BY <1>3, <1>8 DEF BreakerInv, NoPileUp
<1> QED BY <1>1, <1>4, <1>6, <1>7, <1>9, ReturnKeeps DEF BreakerInv

(* The inductive invariant, for a deadline shorter than the cooldown. *)
THEOREM BreakerInvariant == ASSUME Timeout < Cooldown PROVE BreakerSpec => []BreakerInv
<1>1. BreakerInv /\ [BreakerNext]_breakerVars => BreakerInv'
  <2> SUFFICES ASSUME BreakerInv, [BreakerNext]_breakerVars PROVE BreakerInv'
    OBVIOUS
  <2>1. CASE Tick
    BY <2>1, TickKeeps
  <2>2. ASSUME NEW c \in Call, Admit(c) PROVE BreakerInv'
    BY <2>2, AdmitKeeps
  <2>3. ASSUME NEW c \in Call, Succeed(c) PROVE BreakerInv'
    BY <2>3, SucceedKeeps
  <2>4. ASSUME NEW c \in Call, Fail(c) PROVE BreakerInv'
    BY <2>4, FailKeeps
  <2>5. CASE UNCHANGED breakerVars
    BY <2>5
    DEF breakerVars, breaker, BreakerInv, BreakerTypeOK, InTime, OpenedSinceTrial, SingleTrial,
                NeverJammed, NoPileUp, InFlight, Trials
  <2> QED BY <2>1, <2>2, <2>3, <2>4, <2>5 DEF BreakerNext
<1> QED BY <1>1, BreakerInitially, PTL DEF BreakerSpec

(* A half-open breaker has a trial in flight that will move it, and never two
   ("A single trial call is already probing the downstream", call.js). *)
THEOREM OneTrial == ASSUME Timeout < Cooldown PROVE BreakerSpec => []TrialsOrderly
<1>1. BreakerInv => TrialsOrderly
  BY DEF BreakerInv, TrialsOrderly
<1> QED BY <1>1, BreakerInvariant, PTL

(* No call but the trial is sent to a service whose breaker is not closed. *)
THEOREM DownServiceSpared == ASSUME Timeout < Cooldown PROVE BreakerSpec => []NoPileUp
<1>1. BreakerInv => NoPileUp
  BY DEF BreakerInv
<1> QED BY <1>1, BreakerInvariant, PTL

------------------------------------------------------------------------------
(* The pools *)

Bookings == {c \in Booker \cup Dispatcher : Holds(c)}
Edits == {c \in Editor : Holds(c)}

CallSteps == {"new", "connect", "lock", "ask", "work", "render", "reply", "reread", "over"}
HasConnection == {"lock", "ask", "work", "render", "reread"}

Details == {b \in Booker : detail[b] \in Querying}

\* No handler is left over from before a call asks for one.
NoneAskedYet == \A b \in Booker : step[b] \in {"new", "connect", "lock"} => detail[b] = "none"

PoolsInv ==
    /\ PoolsTypeOK
    /\ IsFiniteSet(Bookings) /\ IsFiniteSet(Edits) /\ IsFiniteSet(Details)
    /\ PoolsAccounted
    /\ NoneAskedYet

LEMMA PoolsInitially == PoolsInit => PoolsInv
<1> SUFFICES ASSUME PoolsInit PROVE PoolsInv
    OBVIOUS
<1>1. Bookings = {} /\ Edits = {} /\ Details = {}
      BY DEF PoolsInit, Bookings, Edits, Details, Holds, Caller, Querying
<1>2. IsFiniteSet({}) /\ Cardinality({}) = 0
      BY FS_EmptySet
<1>3. free["booking"] = BookingMax /\ free["trip"] = TripMax
      BY DEF PoolsInit, Service
<1>4. PoolsAccounted
  <2>1. Cardinality(Bookings) = 0 /\ Cardinality(Edits) = 0 /\ Cardinality(Details) = 0
        BY <1>1, <1>2
  <2>2. /\ free["booking"] + Cardinality(Bookings) = BookingMax
        /\ free["trip"] + Cardinality(Edits) + Cardinality(Details) = TripMax
        BY <1>3, <2>1, PoolsAreTyped
  <2> QED BY <2>2 DEF PoolsAccounted, Bookings, Edits, Details
<1>5. PoolsTypeOK
      BY PoolsAreTyped DEF PoolsInit, PoolsTypeOK, Service
<1>6. NoneAskedYet
      BY DEF PoolsInit, NoneAskedYet
<1> QED BY <1>1, <1>2, <1>4, <1>5, <1>6 DEF PoolsInv

(* A pool and those who have its connections, when one comes or goes. *)
LEMMA OneMore ==
    ASSUME NEW S, IsFiniteSet(S), NEW c, c \notin S
    PROVE  IsFiniteSet(S \cup {c}) /\ Cardinality(S \cup {c}) = Cardinality(S) + 1
BY FS_AddElement

LEMMA OneLess ==
    ASSUME NEW S, IsFiniteSet(S), NEW c \in S
    PROVE  IsFiniteSet(S \ {c}) /\ Cardinality(S \ {c}) = Cardinality(S) - 1
BY FS_RemoveElement

LEMMA Counts ==
    ASSUME PoolsInv
    PROVE  /\ Cardinality(Bookings) \in Nat /\ Cardinality(Edits) \in Nat
           /\ Cardinality(Details) \in Nat
           /\ free["booking"] \in Nat /\ free["trip"] \in Nat
           /\ free["booking"] + Cardinality(Bookings) = BookingMax
           /\ free["trip"] + Cardinality(Edits) + Cardinality(Details) = TripMax
<1>1. Cardinality(Bookings) \in Nat /\ Cardinality(Edits) \in Nat /\ Cardinality(Details) \in Nat
      BY FS_CardinalityType DEF PoolsInv
<1>2. free["booking"] \in Nat /\ free["trip"] \in Nat
      BY PoolsAreTyped DEF PoolsInv, PoolsTypeOK, Service
<1> QED BY <1>1, <1>2 DEF PoolsInv, PoolsAccounted, Bookings, Edits, Details

(* The sums determine that the free connections are within the size of the pools. *)
LEMMA Balanced ==
    ASSUME IsFiniteSet(Bookings)', IsFiniteSet(Edits)', IsFiniteSet(Details)',
           free' \in [Service -> Nat],
           free'["booking"] + Cardinality(Bookings)' = BookingMax,
           free'["trip"] + Cardinality(Edits)' + Cardinality(Details)' = TripMax
    PROVE  PoolsAccounted' /\ free' \in [Service -> 0..(BookingMax + TripMax)]
<1>1. Cardinality(Bookings)' \in Nat /\ Cardinality(Edits)' \in Nat /\ Cardinality(Details)' \in Nat
      BY FS_CardinalityType
<1>2. PoolsAccounted'
      BY DEF PoolsAccounted, Bookings, Edits, Details
<1>3. free'["booking"] \in Nat /\ free'["trip"] \in Nat
      BY DEF Service
<1>4. free'["booking"] \in 0..(BookingMax + TripMax) /\ free'["trip"] \in 0..(BookingMax + TripMax)
      BY <1>1, <1>3, PoolsAreTyped
<1>5. free' \in [Service -> 0..(BookingMax + TripMax)]
      BY <1>4 DEF Service
<1> QED BY <1>2, <1>5

(* A call goes from step to step: who has a connection, and so what is left. *)
LEMMA CallStep ==
    ASSUME PoolsInv, NEW c \in Caller,
           NEW next \in CallSteps,
           To(c, next)
    PROVE  /\ step' \in [Caller -> CallSteps]
           /\ step'[c] = next /\ \A d \in Caller \ {c} : step'[d] = step[d]
           /\ \A d \in Caller \ {c} : Holds(d)' <=> Holds(d)
           /\ Holds(c)' <=> next \in HasConnection
<1>1. step \in [Caller -> CallSteps]
      BY DEF PoolsInv, PoolsTypeOK, CallSteps
<1>2. /\ step' \in [Caller -> CallSteps]
      /\ step'[c] = next /\ \A d \in Caller \ {c} : step'[d] = step[d]
      BY <1>1 DEF To
<1> QED BY <1>2 DEF Holds, HasConnection

(* CallSteps that leave the pools alone *)
LEMMA SameKeeps ==
    ASSUME PoolsInv, NEW c \in Caller,
           NEW next \in CallSteps,
           To(c, next), Holds(c) <=> next \in HasConnection,
           next \notin {"new", "connect", "lock"}
             \/ (step[c] \in {"new", "connect", "lock"} /\ UNCHANGED detail),
           detail' \in [Booker -> Querying \cup {"none", "trip", "stops", "answer", "error"}],
           \A b \in Booker : detail'[b] \in Querying <=> detail[b] \in Querying,
           \A b \in Booker : b # c => detail'[b] = detail[b],
           lock' \in Caller \cup {Nobody}, UNCHANGED free
    PROVE  PoolsInv'
<1>1. /\ step' \in [Caller -> CallSteps]
      /\ step'[c] = next /\ \A d \in Caller \ {c} : step'[d] = step[d]
      /\ \A d \in Caller : Holds(d)' <=> Holds(d)
      BY CallStep
<1>2. Bookings' = Bookings /\ Edits' = Edits
      BY <1>1 DEF Bookings, Edits, Caller
<1>3. Details' = Details
      BY DEF Details
<1>4. NoneAskedYet'
  <2>1. NoneAskedYet
        BY DEF PoolsInv
  <2>2. ASSUME NEW b \in Booker, step'[b] \in {"new", "connect", "lock"} PROVE detail'[b] = "none"
    <3>1. CASE b = c
          BY <1>1, <2>1, <2>2, <3>1 DEF NoneAskedYet
    <3>2. CASE b # c
          BY <1>1, <2>1, <2>2, <3>2 DEF NoneAskedYet, Caller
    <3> QED BY <3>1, <3>2
  <2> QED BY <2>2 DEF NoneAskedYet
<1>5. PoolsAccounted'
      BY <1>2, <1>3 DEF PoolsInv, PoolsAccounted, Bookings, Edits, Details
<1>6. PoolsTypeOK'
      BY <1>1 DEF PoolsInv, PoolsTypeOK, CallSteps
<1> QED BY <1>2, <1>3, <1>4, <1>5, <1>6 DEF PoolsInv

(* COMMIT or ROLLBACK gives the connection of the call back. *)
LEMMA EndedKeeps ==
    ASSUME PoolsInv, NEW c \in Caller, Holds(c), Give(Of(c)),
           NEW next \in {"reply", "over"}, To(c, next),
           detail' \in [Booker -> Querying \cup {"none", "trip", "stops", "answer", "error"}],
           \A b \in Booker : detail'[b] \in Querying <=> detail[b] \in Querying,
           \A b \in Booker : b # c => detail'[b] = detail[b],
           lock' \in Caller \cup {Nobody}
    PROVE  PoolsInv'
<1>1. /\ step' \in [Caller -> CallSteps]
      /\ step'[c] = next /\ \A d \in Caller \ {c} : step'[d] = step[d]
      /\ \A d \in Caller \ {c} : Holds(d)' <=> Holds(d)
      /\ ~Holds(c)'
      BY CallStep DEF CallSteps, HasConnection
<1>2. Details' = Details
      BY DEF Details
<1>3. /\ Cardinality(Bookings) \in Nat /\ Cardinality(Edits) \in Nat
      /\ Cardinality(Details) \in Nat
      /\ free["booking"] \in Nat /\ free["trip"] \in Nat
      /\ free["booking"] + Cardinality(Bookings) = BookingMax
      /\ free["trip"] + Cardinality(Edits) + Cardinality(Details) = TripMax
      BY Counts
<1>4. IsFiniteSet(Bookings) /\ IsFiniteSet(Edits) /\ IsFiniteSet(Details)
      BY DEF PoolsInv
<1>5. free \in [Service -> Nat] /\ free' = [free EXCEPT ![Of(c)] = @ + 1]
      BY PoolsAreTyped DEF PoolsInv, PoolsTypeOK, Give
<1>6. /\ IsFiniteSet(Bookings)' /\ IsFiniteSet(Edits)' /\ IsFiniteSet(Details)'
      /\ free' \in [Service -> Nat]
      /\ free'["booking"] + Cardinality(Bookings)' = BookingMax
      /\ free'["trip"] + Cardinality(Edits)' + Cardinality(Details)' = TripMax
  <2>1. CASE c \in Editor
    <3>1. Bookings' = Bookings /\ Edits' = Edits \ {c} /\ c \in Edits
          BY <1>1, <2>1, CallersDiffer DEF Bookings, Edits, Caller
    <3>2. IsFiniteSet(Edits \ {c}) /\ Cardinality(Edits \ {c}) = Cardinality(Edits) - 1
          BY <1>4, <3>1, OneLess
    <3>3. /\ free' \in [Service -> Nat] /\ free'["booking"] = free["booking"]
          /\ free'["trip"] = free["trip"] + 1
          BY <1>5, <2>1 DEF Of, Service
    <3>4. free'["trip"] + Cardinality(Edits \ {c}) + Cardinality(Details) = TripMax
          BY <1>3, <3>2, <3>3
    <3>5. free'["booking"] + Cardinality(Bookings) = BookingMax
          BY <1>3, <3>3
    <3> QED BY <1>2, <1>4, <3>1, <3>2, <3>3, <3>4, <3>5
  <2>2. CASE c \notin Editor
    <3>1. Edits' = Edits /\ Bookings' = Bookings \ {c} /\ c \in Bookings
          BY <1>1, <2>2 DEF Bookings, Edits, Caller
    <3>2. IsFiniteSet(Bookings \ {c}) /\ Cardinality(Bookings \ {c}) = Cardinality(Bookings) - 1
          BY <1>4, <3>1, OneLess
    <3>3. /\ free' \in [Service -> Nat] /\ free'["trip"] = free["trip"]
          /\ free'["booking"] = free["booking"] + 1
          BY <1>5, <2>2 DEF Of, Service
    <3>4. free'["trip"] + Cardinality(Edits) + Cardinality(Details) = TripMax
          BY <1>3, <3>3
    <3>5. free'["booking"] + Cardinality(Bookings \ {c}) = BookingMax
      <4>1. PICK n \in Nat : n = Cardinality(Bookings)
            BY <1>3
      <4>2. PICK f \in Nat : f = free["booking"]
            BY <1>3
      <4>3. f + n = BookingMax /\ (f + 1) + (n - 1) = f + n
            BY <1>3, <4>1, <4>2
      <4> QED BY <3>2, <3>3, <4>1, <4>2, <4>3
    <3> QED BY <1>2, <1>4, <3>1, <3>2, <3>3, <3>4, <3>5
  <2> QED BY <2>1, <2>2
<1>7. PoolsAccounted' /\ free' \in [Service -> 0..(BookingMax + TripMax)]
      BY <1>6, Balanced
<1>8. NoneAskedYet'
  <2>1. ASSUME NEW b \in Booker, step'[b] \in {"new", "connect", "lock"} PROVE detail'[b] = "none"
    <3>1. b # c
          BY <1>1, <2>1
    <3> QED BY <1>1, <2>1, <3>1 DEF PoolsInv, NoneAskedYet, Caller
  <2> QED BY <2>1 DEF NoneAskedYet
<1>9. PoolsTypeOK'
      BY <1>1, <1>7 DEF PoolsTypeOK, CallSteps
<1> QED BY <1>6, <1>7, <1>8, <1>9 DEF PoolsInv

(* A call takes a connection from the pool of its service. *)
LEMMA TakenKeeps ==
    ASSUME PoolsInv, NEW c \in Caller, ~Holds(c), Take(Of(c)),
           NEW next \in {"work", "lock", "reread"}, To(c, next),
           next = "lock" => step[c] = "connect", UNCHANGED <<detail, lock>>
    PROVE  PoolsInv'
<1>2. free[Of(c)] > 0 /\ free' = [free EXCEPT ![Of(c)] = @ - 1]
      BY DEF Take
<1>3. /\ step' \in [Caller -> CallSteps]
      /\ step'[c] = next /\ \A d \in Caller \ {c} : step'[d] = step[d]
      /\ \A d \in Caller \ {c} : Holds(d)' <=> Holds(d)
      /\ Holds(c)'
      BY CallStep DEF CallSteps, HasConnection
<1>5. Details' = Details
      BY DEF Details
<1>6. /\ Cardinality(Bookings) \in Nat /\ Cardinality(Edits) \in Nat
      /\ Cardinality(Details) \in Nat
      /\ free["booking"] \in Nat /\ free["trip"] \in Nat
      /\ free["booking"] + Cardinality(Bookings) = BookingMax
      /\ free["trip"] + Cardinality(Edits) + Cardinality(Details) = TripMax
      BY Counts
<1>7. IsFiniteSet(Bookings) /\ IsFiniteSet(Edits) /\ IsFiniteSet(Details)
      BY DEF PoolsInv
<1>8. free \in [Service -> Nat]
      BY PoolsAreTyped DEF PoolsInv, PoolsTypeOK
<1>9. /\ IsFiniteSet(Bookings)' /\ IsFiniteSet(Edits)' /\ IsFiniteSet(Details)'
      /\ free' \in [Service -> Nat]
      /\ free'["booking"] + Cardinality(Bookings)' = BookingMax
      /\ free'["trip"] + Cardinality(Edits)' + Cardinality(Details)' = TripMax
  <2>1. CASE c \in Editor
    <3>1. Bookings' = Bookings /\ Edits' = Edits \cup {c} /\ c \notin Edits
          BY <1>3, <2>1, CallersDiffer DEF Bookings, Edits, Caller
    <3>2. IsFiniteSet(Edits \cup {c}) /\ Cardinality(Edits \cup {c}) = Cardinality(Edits) + 1
          BY <1>7, <3>1, OneMore
    <3>3. /\ free' \in [Service -> Nat] /\ free'["booking"] = free["booking"]
          /\ free'["trip"] = free["trip"] - 1
          BY <1>2, <1>8, <2>1 DEF Of, Service
    <3>4. free'["trip"] + Cardinality(Edits \cup {c}) + Cardinality(Details) = TripMax
          BY <1>6, <3>2, <3>3
    <3>5. free'["booking"] + Cardinality(Bookings) = BookingMax
          BY <1>6, <3>3
    <3> QED BY <1>5, <1>7, <3>1, <3>2, <3>3, <3>4, <3>5
  <2>2. CASE c \notin Editor
    <3>1. Edits' = Edits /\ Bookings' = Bookings \cup {c} /\ c \notin Bookings
          BY <1>3, <2>2 DEF Bookings, Edits, Caller
    <3>2. /\ IsFiniteSet(Bookings \cup {c})
          /\ Cardinality(Bookings \cup {c}) = Cardinality(Bookings) + 1
          BY <1>7, <3>1, OneMore
    <3>3. /\ free' \in [Service -> Nat] /\ free'["trip"] = free["trip"]
          /\ free'["booking"] = free["booking"] - 1
          BY <1>2, <1>8, <2>2 DEF Of, Service
    <3>4. free'["trip"] + Cardinality(Edits) + Cardinality(Details) = TripMax
          BY <1>6, <3>3
    <3>5. free'["booking"] + Cardinality(Bookings \cup {c}) = BookingMax
      <4>1. PICK n \in Nat : n = Cardinality(Bookings)
            BY <1>6
      <4>2. PICK f \in Nat : f = free["booking"]
            BY <1>6
      <4>3. f + n = BookingMax /\ (f - 1) + (n + 1) = f + n
            BY <1>6, <4>1, <4>2
      <4> QED BY <3>2, <3>3, <4>1, <4>2, <4>3
    <3> QED BY <1>5, <1>7, <3>1, <3>2, <3>3, <3>4, <3>5
  <2> QED BY <2>1, <2>2
<1>10. PoolsAccounted' /\ free' \in [Service -> 0..(BookingMax + TripMax)]
      BY <1>9, Balanced
<1>11. NoneAskedYet'
  <2>1. ASSUME NEW b \in Booker, step'[b] \in {"new", "connect", "lock"} PROVE detail'[b] = "none"
    <3>1. b \in Caller /\ step[b] \in {"new", "connect", "lock"}
          BY <1>3, <2>1 DEF Caller
    <3> QED BY <3>1 DEF PoolsInv, NoneAskedYet
  <2> QED BY <2>1 DEF NoneAskedYet
<1>12. PoolsTypeOK'
      BY <1>2, <1>3, <1>10 DEF PoolsInv, PoolsTypeOK, CallSteps
<1> QED BY <1>9, <1>10, <1>11, <1>12 DEF PoolsInv

LEMMA ConnectedKeeps ==
    ASSUME PoolsInv, NEW c \in Caller, Connected(c) PROVE PoolsInv'
<1>1. PICK next \in {"work", "lock"} : next = IF c \in Dispatcher THEN "work" ELSE "lock"
      OBVIOUS
<1>2. ~Holds(c) /\ step[c] = "connect" /\ Take(Of(c)) /\ To(c, next) /\ UNCHANGED <<detail, lock>>
      BY <1>1 DEF Connected, Holds
<1> QED BY <1>2, TakenKeeps

(* updateTripStatus and updateTrip read the trip for their reply. *)
LEMMA ReadBackKeeps ==
    ASSUME PoolsInv, NEW e \in Editor, ReadBack(e) \/ Reply(e) PROVE PoolsInv'
<1>1. e \in Caller /\ Of(e) = "trip"
      BY DEF Caller, Of
<1>2. CASE ReadBack(e)
  <2>1. ~Holds(e) /\ Take(Of(e)) /\ To(e, "reread") /\ UNCHANGED <<detail, lock>>
        BY <1>1, <1>2 DEF ReadBack, Holds
  <2> QED BY <1>1, <2>1, TakenKeeps
<1>3. CASE Reply(e)
  <2>1. Holds(e) /\ Give(Of(e)) /\ To(e, "over") /\ UNCHANGED <<detail, lock>>
        BY <1>1, <1>3 DEF Reply, Holds
  <2> QED BY <1>1, <2>1, EndedKeeps DEF PoolsInv, PoolsTypeOK
<1> QED BY <1>2, <1>3

(* A query of GetTripDetail takes a connection of Trip Service, or gives it back. *)
LEMMA DetailMoves ==
    ASSUME PoolsInv, NEW b \in Booker,
           NEW next \in Querying \cup {"trip", "stops", "answer", "error"},
           detail[b] # "none", detail' = [detail EXCEPT ![b] = next],
           UNCHANGED <<step, lock>>,
           \/ b \notin Details /\ next \in Querying /\ Take("trip")
           \/ b \in Details /\ next \notin Querying /\ Give("trip")
           \/ b \notin Details /\ next \notin Querying /\ UNCHANGED free
    PROVE  PoolsInv'
<1>1. detail \in [Booker -> Querying \cup {"none", "trip", "stops", "answer", "error"}]
      BY DEF PoolsInv, PoolsTypeOK
<1>2. /\ detail' \in [Booker -> Querying \cup {"none", "trip", "stops", "answer", "error"}]
      /\ detail'[b] = next /\ \A d \in Booker \ {b} : detail'[d] = detail[d]
      BY <1>1
<1>3. Bookings' = Bookings /\ Edits' = Edits
      BY DEF Bookings, Edits, Holds
<1>4. /\ Cardinality(Bookings) \in Nat /\ Cardinality(Edits) \in Nat
      /\ Cardinality(Details) \in Nat
      /\ free["booking"] \in Nat /\ free["trip"] \in Nat
      /\ free["booking"] + Cardinality(Bookings) = BookingMax
      /\ free["trip"] + Cardinality(Edits) + Cardinality(Details) = TripMax
      BY Counts
<1>5. IsFiniteSet(Bookings) /\ IsFiniteSet(Edits) /\ IsFiniteSet(Details)
      BY DEF PoolsInv
<1>6. free \in [Service -> Nat]
      BY PoolsAreTyped DEF PoolsInv, PoolsTypeOK
<1>7. /\ IsFiniteSet(Details)' /\ free' \in [Service -> Nat]
      /\ free'["booking"] = free["booking"]
      /\ free'["trip"] + Cardinality(Edits) + Cardinality(Details)' = TripMax
  <2>1. CASE b \notin Details /\ next \in Querying /\ Take("trip")
    <3>1. Details' = Details \cup {b}
          BY <1>2, <2>1 DEF Details
    <3>2. IsFiniteSet(Details \cup {b}) /\ Cardinality(Details \cup {b}) = Cardinality(Details) + 1
          BY <1>5, <2>1, OneMore
    <3>3. /\ free' \in [Service -> Nat] /\ free'["booking"] = free["booking"]
          /\ free'["trip"] = free["trip"] - 1
          BY <1>6, <2>1 DEF Take, Service
    <3>4. free'["trip"] + Cardinality(Edits) + Cardinality(Details \cup {b}) = TripMax
          BY <1>4, <3>2, <3>3
    <3> QED BY <3>1, <3>2, <3>3, <3>4
  <2>2. CASE b \in Details /\ next \notin Querying /\ Give("trip")
    <3>1. Details' = Details \ {b}
          BY <1>2, <2>2 DEF Details
    <3>2. IsFiniteSet(Details \ {b}) /\ Cardinality(Details \ {b}) = Cardinality(Details) - 1
          BY <1>5, <2>2, OneLess
    <3>3. /\ free' \in [Service -> Nat] /\ free'["booking"] = free["booking"]
          /\ free'["trip"] = free["trip"] + 1
          BY <1>6, <2>2 DEF Give, Service
    <3>4. free'["trip"] + Cardinality(Edits) + Cardinality(Details \ {b}) = TripMax
          BY <1>4, <3>2, <3>3
    <3> QED BY <3>1, <3>2, <3>3, <3>4
  <2>3. CASE b \notin Details /\ next \notin Querying /\ UNCHANGED free
    <3>1. Details' = Details
          BY <1>2, <2>3 DEF Details
    <3> QED BY <1>4, <1>5, <1>6, <2>3, <3>1
  <2> QED BY <2>1, <2>2, <2>3
<1>8. PoolsAccounted' /\ free' \in [Service -> 0..(BookingMax + TripMax)]
  <2>1. /\ IsFiniteSet(Bookings)' /\ IsFiniteSet(Edits)' /\ IsFiniteSet(Details)'
        /\ free' \in [Service -> Nat]
        /\ free'["booking"] + Cardinality(Bookings)' = BookingMax
        /\ free'["trip"] + Cardinality(Edits)' + Cardinality(Details)' = TripMax
        BY <1>3, <1>4, <1>5, <1>7
  <2> QED BY <2>1, Balanced
<1>9. NoneAskedYet'
      BY <1>2 DEF PoolsInv, NoneAskedYet
<1>10. PoolsTypeOK'
      BY <1>2, <1>8 DEF PoolsInv, PoolsTypeOK
<1> QED BY <1>3, <1>5, <1>7, <1>8, <1>9, <1>10 DEF PoolsInv

LEMMA DetailStepKeeps ==
    ASSUME PoolsInv, NEW b \in Booker, DetailStep(b) PROVE PoolsInv'
<1> USE DEF Querying
<1>1. CASE DetailConnected(b)
  <2>1. PICK next \in Querying : next = IF detail[b] = "trip" THEN "reads trip" ELSE "reads stops"
        OBVIOUS
  <2>2. /\ detail[b] \in {"trip", "stops"} /\ Take("trip") /\ UNCHANGED <<step, lock>>
        /\ detail' = [detail EXCEPT ![b] = next]
        BY <1>1, <2>1 DEF DetailConnected, Waits
  <2>3. b \notin Details
        BY <2>2 DEF Details
  <2> QED BY <2>2, <2>3, DetailMoves
<1>2. CASE DetailTimeout(b)
  <2>1. /\ detail[b] \in {"trip", "stops"} /\ UNCHANGED <<step, lock, free>>
        /\ detail' = [detail EXCEPT ![b] = "error"]
        BY <1>2 DEF DetailTimeout, Waits
  <2>2. b \notin Details
        BY <2>1 DEF Details
  <2> QED BY <2>1, <2>2, DetailMoves
<1>3. CASE DetailRead(b)
  <2>1. PICK next \in {"stops", "answer", "error"} : detail' = [detail EXCEPT ![b] = next]
        BY <1>3 DEF DetailRead
  <2>2. detail[b] \in Querying /\ Give("trip") /\ UNCHANGED <<step, lock>>
        BY <1>3 DEF DetailRead
  <2>3. b \in Details
        BY <2>2 DEF Details
  <2> QED BY <2>1, <2>2, <2>3, DetailMoves
<1> QED BY <1>1, <1>2, <1>3 DEF DetailStep

LEMMA BeginKeeps ==
    ASSUME PoolsInv, NEW c \in Caller, Begin(c) PROVE PoolsInv'
<1>1. step[c] = "new" /\ To(c, "connect") /\ UNCHANGED <<detail, lock, free>>
      BY DEF Begin
<1>2. ~Holds(c)
      BY <1>1 DEF Holds
<1> QED BY <1>1, <1>2, SameKeeps DEF PoolsInv, PoolsTypeOK, CallSteps, HasConnection

LEMMA StopsKeeps ==
    ASSUME PoolsInv, NEW c \in Caller, ConnectTimeout(c) \/ ReadBackTimeout(c) PROVE PoolsInv'
<1>1. step[c] \in {"connect", "reply"} /\ To(c, "over") /\ UNCHANGED <<detail, lock, free>>
      BY DEF ConnectTimeout, ReadBackTimeout
<1>2. ~Holds(c)
      BY <1>1 DEF Holds
<1> QED BY <1>1, <1>2, SameKeeps DEF PoolsInv, PoolsTypeOK, CallSteps, HasConnection

LEMMA TakeLockKeeps ==
    ASSUME PoolsInv, NEW c \in Caller, TakeLock(c) PROVE PoolsInv'
<1>1. step[c] = "lock" /\ lock' \in Caller \cup {Nobody} /\ UNCHANGED free /\ Holds(c)
      BY DEF TakeLock, Holds
<1>2. detail \in [Booker -> Querying \cup {"none", "trip", "stops", "answer", "error"}]
      BY DEF PoolsInv, PoolsTypeOK
<1>3. CASE c \in Booker
  <2>1. To(c, "ask") /\ detail' = [detail EXCEPT ![c] = "trip"]
        BY <1>3 DEF TakeLock
  <2>2. detail[c] = "none"
        BY <1>1, <1>3 DEF PoolsInv, NoneAskedYet
  <2>3. /\ detail' \in [Booker -> Querying \cup {"none", "trip", "stops", "answer", "error"}]
        /\ \A b \in Booker : detail'[b] \in Querying <=> detail[b] \in Querying
        /\ \A b \in Booker : b # c => detail'[b] = detail[b]
        BY <1>2, <1>3, <2>1, <2>2 DEF Querying
  <2> QED BY <1>1, <2>1, <2>3, SameKeeps DEF CallSteps, HasConnection
<1>4. CASE c \notin Booker
  <2>1. To(c, "work") /\ UNCHANGED detail
        BY <1>4 DEF TakeLock
  <2> QED BY <1>1, <1>2, <2>1, SameKeeps DEF CallSteps, HasConnection
<1> QED BY <1>3, <1>4

LEMMA EndsKeeps ==
    ASSUME PoolsInv, NEW c \in Caller, Holds(c), Ended(c),
           detail' \in [Booker -> Querying \cup {"none", "trip", "stops", "answer", "error"}],
           \A b \in Booker : detail'[b] \in Querying <=> detail[b] \in Querying,
           \A b \in Booker : b # c => detail'[b] = detail[b]
    PROVE  PoolsInv'
<1>1. Give(Of(c)) /\ To(c, "over")
      BY DEF Ended
<1>2. lock' \in Caller \cup {Nobody}
      BY DEF Ended, PoolsInv, PoolsTypeOK
<1> QED BY <1>1, <1>2, EndedKeeps

LEMMA LockTimeoutKeeps ==
    ASSUME PoolsInv, NEW e \in Editor, LockTimeout(e) PROVE PoolsInv'
<1>1. e \in Caller /\ Holds(e) /\ Ended(e) /\ UNCHANGED detail
      BY DEF LockTimeout, Holds, Caller
<1> QED BY <1>1, EndsKeeps DEF PoolsInv, PoolsTypeOK

LEMMA WorkKeeps ==
    ASSUME PoolsInv, NEW c \in Caller, Work(c) PROVE PoolsInv'
<1>1. Holds(c)
      BY DEF Work, Holds
<1>2. /\ detail \in [Booker -> Querying \cup {"none", "trip", "stops", "answer", "error"}]
      /\ lock \in Caller \cup {Nobody}
      BY DEF PoolsInv, PoolsTypeOK
<1>3. CASE Ended(c) /\ UNCHANGED detail
      BY <1>1, <1>2, <1>3, EndsKeeps
<1>4. CASE /\ c \in Booker /\ detail[c] = "none" /\ To(c, "render")
           /\ detail' = [detail EXCEPT ![c] = "trip"] /\ UNCHANGED <<lock, free>>
  <2>1. /\ detail' \in [Booker -> Querying \cup {"none", "trip", "stops", "answer", "error"}]
        /\ \A b \in Booker : detail'[b] \in Querying <=> detail[b] \in Querying
        /\ \A b \in Booker : b # c => detail'[b] = detail[b]
        BY <1>2, <1>4 DEF Querying
  <2> QED BY <1>1, <1>2, <1>4, <2>1, SameKeeps DEF CallSteps, HasConnection
<1>5. CASE c \in Editor /\ Give(Of(c)) /\ lock' = Nobody /\ To(c, "reply") /\ UNCHANGED detail
      BY <1>1, <1>2, <1>5, EndedKeeps
<1> QED BY <1>3, <1>4, <1>5 DEF Work

LEMMA DetailAnsweredKeeps ==
    ASSUME PoolsInv, NEW b \in Booker, DetailAnswered(b) PROVE PoolsInv'
<1>1. b \in Caller /\ Holds(b)
      BY DEF DetailAnswered, Asking, Holds, Caller
<1>2. detail \in [Booker -> Querying \cup {"none", "trip", "stops", "answer", "error"}]
      BY DEF PoolsInv, PoolsTypeOK
<1>3. detail[b] \in {"answer", "error"} /\ detail' = [detail EXCEPT ![b] = "none"]
      BY DEF DetailAnswered
<1>4. /\ detail' \in [Booker -> Querying \cup {"none", "trip", "stops", "answer", "error"}]
      /\ \A d \in Booker : detail'[d] \in Querying <=> detail[d] \in Querying
      /\ \A d \in Booker : d # b => detail'[d] = detail[d]
      BY <1>2, <1>3 DEF Querying
<1>5. CASE To(b, "work") /\ UNCHANGED <<lock, free>>
  <2>1. lock' \in Caller \cup {Nobody}
        BY <1>5 DEF PoolsInv, PoolsTypeOK
  <2> QED BY <1>1, <1>4, <1>5, <2>1, SameKeeps DEF CallSteps, HasConnection
<1>6. CASE Ended(b)
      BY <1>1, <1>4, <1>6, EndsKeeps
<1> QED BY <1>5, <1>6 DEF DetailAnswered

LEMMA DetailDeadlineKeeps ==
    ASSUME PoolsInv, NEW b \in Booker, DetailDeadline(b) PROVE PoolsInv'
<1>1. b \in Caller /\ Holds(b) /\ Ended(b) /\ UNCHANGED detail
      BY DEF DetailDeadline, Asking, Holds, Caller
<1> QED BY <1>1, EndsKeeps DEF PoolsInv, PoolsTypeOK

LEMMA PoolsStepKeeps == PoolsInv /\ [PoolsNext]_poolsVars => PoolsInv'
<1> SUFFICES ASSUME PoolsInv, [PoolsNext]_poolsVars PROVE PoolsInv'
    OBVIOUS
<1>1. ASSUME NEW c \in Caller,
             Begin(c) \/ Connected(c) \/ ConnectTimeout(c) \/ TakeLock(c) \/ Work(c)
      PROVE  PoolsInv'
      BY <1>1, BeginKeeps, ConnectedKeeps, StopsKeeps, TakeLockKeeps, WorkKeeps
<1>2. ASSUME NEW b \in Booker, DetailAnswered(b) \/ DetailDeadline(b) \/ DetailStep(b)
      PROVE  PoolsInv'
      BY <1>2, DetailAnsweredKeeps, DetailDeadlineKeeps, DetailStepKeeps
<1>3. ASSUME NEW e \in Editor,
             LockTimeout(e) \/ ReadBack(e) \/ ReadBackTimeout(e) \/ Reply(e)
      PROVE  PoolsInv'
      BY <1>3, LockTimeoutKeeps, ReadBackKeeps, StopsKeeps DEF Caller
<1>4. CASE UNCHANGED poolsVars
      BY <1>4 DEF poolsVars, PoolsInv, PoolsTypeOK, PoolsAccounted, NoneAskedYet, Bookings, Edits,
                  Details, Holds
<1> QED BY <1>1, <1>2, <1>3, <1>4 DEF PoolsNext, Progress

\* No error, timeout or deadline loses a connection (transaction of db.js, GetTripDetail): the
\* free ones and those of running calls are always the whole pool.
THEOREM ConnectionsAccounted == PoolsSpec => []PoolsAccounted
<1>1. PoolsInv => PoolsAccounted
      BY DEF PoolsInv
<1> QED BY <1>1, PoolsInitially, PoolsStepKeeps, PTL DEF PoolsSpec

------------------------------------------------------------------------------
(* The union *)

LEMMA BreakerTyped == BreakerTypeOK /\ [BreakerNext]_breakerVars => BreakerTypeOK'
<1> SUFFICES ASSUME BreakerTypeOK, [BreakerNext]_breakerVars PROVE BreakerTypeOK'
    OBVIOUS
<1>1. CASE Tick
      BY <1>1, TimesAreNat DEF Tick, BreakerTypeOK, breaker
<1>2. ASSUME NEW c \in Call, Admit(c) PROVE BreakerTypeOK'
  <2>1. PICK kind \in {"ordinary", "trial"} :
            call' = [call EXCEPT ![c] = [started |-> now, kind |-> kind]]
        BY <1>2 DEF Admit, Send
  <2>2. call' \in [Call -> Calls]
        BY <2>1 DEF BreakerTypeOK, Calls
  <2>3. failures' \in 0..Threshold /\ now' \in Nat /\ openedAt' \in Nat
        BY <1>2 DEF Admit, BreakerTypeOK, breaker
  <2>4. state' \in {"closed", "open", "half-open"} /\ halfOpenInFlight' \in BOOLEAN
        BY <1>2 DEF Admit, BreakerTypeOK, breaker
  <2> QED BY <2>2, <2>3, <2>4, Zenon DEF BreakerTypeOK
<1>3. ASSUME NEW c \in Call, Succeed(c) PROVE BreakerTypeOK'
  <2>1. failures' \in 0..Threshold /\ now' \in Nat /\ openedAt' \in Nat
        BY <1>3, ThresholdIsPositive DEF Succeed, BreakerTypeOK
  <2>2. call' \in [Call -> Calls]
        BY <1>3 DEF Succeed, Return, BreakerTypeOK, Calls, NoCall
  <2>3. state' \in {"closed", "open", "half-open"} /\ halfOpenInFlight' \in BOOLEAN
        BY <1>3, Zenon DEF Succeed
  <2> QED BY <2>1, <2>2, <2>3, Zenon DEF BreakerTypeOK
<1>4. ASSUME NEW c \in Call, Fail(c) PROVE BreakerTypeOK'
  <2>1. failures' \in 0..Threshold /\ now' \in Nat /\ openedAt' \in Nat
        BY <1>4, ThresholdIsPositive DEF Fail, BreakerTypeOK
  <2>2. call' \in [Call -> Calls]
        BY <1>4 DEF Fail, Return, BreakerTypeOK, Calls, NoCall
  <2>3. state' \in {"closed", "open", "half-open"} /\ halfOpenInFlight' \in BOOLEAN
        BY <1>4 DEF Fail, BreakerTypeOK
  <2> QED BY <2>1, <2>2, <2>3, Zenon DEF BreakerTypeOK
<1>5. CASE UNCHANGED breakerVars
      BY <1>5 DEF breakerVars, breaker, BreakerTypeOK
<1> QED BY <1>1, <1>2, <1>3, <1>4, <1>5 DEF BreakerNext

LEMMA BreakerTypedInitially == BreakerInit => BreakerTypeOK
BY BreakerInitially DEF BreakerInv

\* Variables keep their types in all three parts, and connections are accounted for,
\* for any calls, seats, viewers, resolvers and pools.
THEOREM AllPartsSound == PartsSpec => []PartsSound
<1> DEFINE Inv == BreakerTypeOK /\ RealtimeInv /\ PoolsInv
<1>1. PartsInit => Inv
      BY BreakerTypedInitially, Initially, PoolsInitially DEF PartsInit
<1>2. Inv /\ [PartsNext]_allVars => Inv'
  <2>1. [PartsNext]_allVars =>
            [BreakerNext]_breakerVars /\ [Next]_vars /\ [PoolsNext]_poolsVars
        BY DEF PartsNext, BreakerStep, BridgeStep, PoolsStep, allVars
  <2> QED BY <2>1, BreakerTyped, StepKeeps, PoolsStepKeeps
<1>3. Inv => PartsSound
      BY DEF PoolsInv, RealtimeInv, PartsSound
<1> QED BY <1>1, <1>2, <1>3, PTL DEF PartsSpec
==============================================================================
