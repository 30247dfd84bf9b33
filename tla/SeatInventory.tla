---------------------------- MODULE SeatInventory ----------------------------
(***************************************************************************)
(* The RPC handlers of Seat Inventory and its booking.expired /            *)
(* booking.cancelled consumer, interleaved at every await: a handler       *)
(* reads PostgreSQL, reads or writes Redis, and other handlers, a TTL or   *)
(* an administrator act in between.  A call slot is one handler running.   *)
(*                                                                         *)
(* Postgres: a transaction that selected rows FOR UPDATE owns rowLock of   *)
(* those rows until it ends; plain reads see committed rows only.          *)
(* A handler whose guards reject it replies with an error and has changed  *)
(* nothing, so those replies are not steps unless the call was running.    *)
(*                                                                         *)
(* What Trip Service answers and whether its maintenance key exists are    *)
(* inputs here: any answer at any time.                                    *)
(***************************************************************************)
EXTENDS SeatStore

CONSTANT Call      \* slots for concurrently running handlers

ASSUME NoneIsNoCall == None \notin Call

VARIABLES
    rowLock,       \* which call's transaction has the seat row FOR UPDATE
    call,          \* the handler running in each slot
    granted,       \* tokens a client received from HoldSeats
    bookingSeats   \* seats of the booking bound to a token, {} when there is none

vars == <<storeVars, rowLock, call, granted, bookingSeats>>
callerVars == <<granted, bookingSeats>>
rowVars == <<seatStatus, seatBooking>>
redisVars == <<hold, tokenIndex>>

HoldSteps == {"hold.load", "hold.create", "hold.recheck", "hold.reply"}
ReleaseSteps == {"release.get", "release.mget", "release.del",
                 "release.index", "release.scan", "release.scandel", "release.scanindex"}
ConfirmSteps == {"confirm.validate", "confirm.update"}
BlockSteps == {"block.mget", "block.del"}
Steps == {"idle", "validate.load", "release.failed"}
            \cup HoldSteps \cup ReleaseSteps \cup ConfirmSteps \cup BlockSteps

\* seats and token are the request; keys and tokens are what the handler has
\* read from Redis and is about to delete.
Handler == [step : Steps, seats : SUBSET Seat, token : Token \cup {None},
            keys : SUBSET Seat, tokens : SUBSET Token]

Idle == [step |-> "idle", seats |-> {}, token |-> None, keys |-> {}, tokens |-> {}]

Running(step, S, t) == [step |-> step, seats |-> S, token |-> t, keys |-> {}, tokens |-> {}]

TypeOK ==
    /\ StoreTypeOK
    /\ rowLock \in [Seat -> Call \cup {None}]
    /\ call \in [Call -> Handler]
    /\ granted \in SUBSET Token
    /\ bookingSeats \in [Token -> SUBSET Seat]

Init ==
    /\ StoreInit
    /\ rowLock = [s \in Seat |-> None]
    /\ call = [c \in Call |-> Idle]
    /\ granted = {}
    /\ bookingSeats = [t \in Token |-> {}]

At(c, step) == call[c].step = step

Goto(c, step) == call' = [call EXCEPT ![c].step = step]

\* The next step works on the keys just read.
GotoWith(c, step, keys) ==
    call' = [call EXCEPT ![c] = [Running(step, @.seats, @.token) EXCEPT !.keys = keys]]

Finish(c) == call' = [call EXCEPT ![c] = Idle]

Unlocked(S) == \A s \in S : rowLock[s] = None

Lock(c, S) == rowLock' = [s \in Seat |-> IF s \in S THEN c ELSE rowLock[s]]

Unlock(c) == rowLock' = [s \in Seat |-> IF rowLock[s] = c THEN None ELSE rowLock[s]]

\* randomUUID: a token no hold was created with and no running call has drawn.
Unissued(t) ==
    /\ t \notin granted
    /\ tokenIndex[t] = {}
    /\ HeldBy(t) = {}
    /\ \A c \in Call : call[c].token # t

------------------------------------------------------------------------------
(* HoldSeats *)

\* The first Trip Service check passed; the token is drawn here.
HoldStart(c, t, S) ==
    /\ At(c, "idle")
    /\ S # {}
    /\ Unissued(t)
    /\ call' = [call EXCEPT ![c] = Running("hold.load", S, t)]
    /\ UNCHANGED <<storeVars, rowLock, callerVars>>

HoldLoad(c) ==
    /\ At(c, "hold.load")
    /\ IF Sellable(call[c].seats) THEN Goto(c, "hold.create") ELSE Finish(c)
    /\ UNCHANGED <<storeVars, rowLock, callerVars>>

\* holdSeatsScript: -1 under maintenance, 0 on a conflict, 1 when all are set.
HoldCreate(c) ==
    /\ At(c, "hold.create")
    /\ \E saleLocked \in BOOLEAN :
          IF ~saleLocked /\ \A s \in call[c].seats : hold[s] = None
          THEN CreateHold(call[c].token, call[c].seats) /\ Goto(c, "hold.recheck")
          ELSE Finish(c) /\ UNCHANGED redisVars
    /\ UNCHANGED <<rowVars, rowLock, callerVars>>

\* Mutant form: the reply is sent without reading the rows again.
HoldRecheckSkipped(c) ==
    /\ At(c, "hold.recheck")
    /\ Goto(c, "hold.reply")
    /\ UNCHANGED <<storeVars, rowLock, callerVars>>

\* The rows are read again after the Redis write.
HoldRecheck(c) ==
    /\ At(c, "hold.recheck")
    /\ Goto(c, IF Sellable(call[c].seats) THEN "hold.reply" ELSE "release.get")
    /\ UNCHANGED <<storeVars, rowLock, callerVars>>

\* The second Trip Service check, then the reply; otherwise discardHold.
HoldReply(c) ==
    /\ At(c, "hold.reply")
    /\ \E tripActive \in BOOLEAN :
          IF tripActive
          THEN Finish(c) /\ granted' = granted \cup {call[c].token}
          ELSE Goto(c, "release.get") /\ UNCHANGED granted
    /\ UNCHANGED <<storeVars, rowLock, bookingSeats>>

------------------------------------------------------------------------------
(* releaseHoldByToken: the ReleaseHold RPC, the booking.expired consumer,  *)
(* discardHold and the clean-up after ConfirmSeats all run it.             *)

\* The ReleaseHold RPC, or the consumer of booking.expired.
ReleaseStart(c, t) ==
    /\ At(c, "idle")
    /\ t \in granted
    /\ call' = [call EXCEPT ![c] = Running("release.get", {}, t)]
    /\ UNCHANGED <<storeVars, rowLock, callerVars>>

\* Mutant form: no scan when the index is missing.
ReleaseGetNoScan(c) ==
    /\ At(c, "release.get")
    /\ LET keys == tokenIndex[call[c].token]
       IN  IF keys = {}
           THEN Finish(c)
           ELSE GotoWith(c, "release.mget", keys)
    /\ UNCHANGED <<storeVars, rowLock, callerVars>>

ReleaseGet(c) ==
    /\ At(c, "release.get")
    /\ LET keys == tokenIndex[call[c].token]
       IN  IF keys = {}
           THEN Goto(c, "release.scan")
           ELSE GotoWith(c, "release.mget", keys)
    /\ UNCHANGED <<storeVars, rowLock, callerVars>>

\* Keep the keys whose payload still carries the token.
ReleaseMget(c) ==
    /\ At(c, "release.mget")
    /\ LET own == call[c].keys \cap HeldBy(call[c].token)
       IN  GotoWith(c, IF own = {} THEN "release.index" ELSE "release.del", own)
    /\ UNCHANGED <<storeVars, rowLock, callerVars>>

\* DEL of those keys and the index: by name, not by what they hold by now.
\* A count of 0 sends releaseHoldByToken to the scan.
ReleaseDel(c) ==
    /\ At(c, "release.del")
    /\ LET t == call[c].token
           deleted == tokenIndex[t] # {} \/ \E s \in call[c].keys : hold[s] # None
       IN  /\ DeleteKeys(call[c].keys, {t})
           /\ IF deleted THEN Finish(c) ELSE Goto(c, "release.scan")
    /\ UNCHANGED <<rowVars, rowLock, callerVars>>

\* No key of the index carries the token any more: DEL of the index alone.
ReleaseIndex(c) ==
    /\ At(c, "release.index")
    /\ DeleteKeys({}, {call[c].token})
    /\ Goto(c, "release.scan")
    /\ UNCHANGED <<rowVars, rowLock, callerVars>>

\* SCAN and MGET over all hold keys of the trip.
ReleaseScan(c) ==
    /\ At(c, "release.scan")
    /\ LET own == HeldBy(call[c].token)
       IN  IF own = {}
           THEN Finish(c)
           ELSE GotoWith(c, "release.scandel", own)
    /\ UNCHANGED <<storeVars, rowLock, callerVars>>

\* DEL of the keys found; the index follows only if any was still there.
ReleaseScanDel(c) ==
    /\ At(c, "release.scandel")
    /\ DeleteKeys(call[c].keys, {})
    /\ IF \E s \in call[c].keys : hold[s] # None
       THEN Goto(c, "release.scanindex")
       ELSE Finish(c)
    /\ UNCHANGED <<rowVars, rowLock, callerVars>>

ReleaseScanIndex(c) ==
    /\ At(c, "release.scanindex")
    /\ DeleteKeys({}, {call[c].token})
    /\ Finish(c)
    /\ UNCHANGED <<rowVars, rowLock, callerVars>>

\* Redis fails: the caller logs it or reports it; the TTL remains.
ReleaseFail(c) ==
    /\ call[c].step \in ReleaseSteps
    /\ Goto(c, "release.failed")
    /\ UNCHANGED <<storeVars, rowLock, callerVars>>

ReleaseReport(c) ==
    /\ At(c, "release.failed")
    /\ Finish(c)
    /\ UNCHANGED <<storeVars, rowLock, callerVars>>

------------------------------------------------------------------------------
(* ValidateHold, on the way to CreateBooking. *)

ValidateHold(c, t, S) ==
    /\ At(c, "idle")
    /\ t \in granted
    /\ bookingSeats[t] = {}
    /\ S # {}
    /\ Covers(t, S)
    /\ call' = [call EXCEPT ![c] = Running("validate.load", S, t)]
    /\ UNCHANGED <<storeVars, rowLock, callerVars>>

\* The rows are still free: Booking Service inserts the booking, once.
ValidateLoad(c) ==
    /\ At(c, "validate.load")
    /\ LET t == call[c].token
           S == call[c].seats
       IN  bookingSeats' = IF Sellable(S) /\ bookingSeats[t] = {}
                           THEN [bookingSeats EXCEPT ![t] = S]
                           ELSE bookingSeats
    /\ Finish(c)
    /\ UNCHANGED <<storeVars, rowLock, granted>>

------------------------------------------------------------------------------
(* ConfirmSeats for the booking bound to t. *)

\* Rows selected FOR UPDATE and checked.  Rejections and the idempotent reply
\* for seats the booking already has end the transaction unchanged.
ConfirmLock(c, t) ==
    LET S == bookingSeats[t]
    IN  /\ At(c, "idle")
        /\ S # {}
        /\ Unlocked(S)
        /\ ~TakenByOther(t, S)
        /\ ~ \A s \in S : BookedFor(t, s)
        /\ Lock(c, S)
        /\ call' = [call EXCEPT ![c] = Running("confirm.validate", S, t)]
        /\ UNCHANGED <<storeVars, callerVars>>

\* validateHold reads Redis inside the transaction.
ConfirmValidate(c) ==
    /\ At(c, "confirm.validate")
    /\ IF Covers(call[c].token, call[c].seats)
       THEN Goto(c, "confirm.update") /\ UNCHANGED rowLock
       ELSE Finish(c) /\ Unlock(c)
    /\ UNCHANGED <<storeVars, callerVars>>

\* Mutant form: the rows still free are updated one by one, no count checked.
ConfirmUpdatePartial(c) ==
    /\ At(c, "confirm.update")
    /\ \E s \in call[c].seats : BookRows(call[c].token, {s})
    /\ Unlock(c)
    /\ Goto(c, "release.get")
    /\ UNCHANGED <<redisVars, callerVars>>

\* UPDATE, row count check, COMMIT; then the hold is cleaned up.
ConfirmUpdate(c) ==
    /\ At(c, "confirm.update")
    /\ IF TakenByOther(call[c].token, call[c].seats)
       THEN Finish(c) /\ UNCHANGED rowVars
       ELSE BookRows(call[c].token, call[c].seats) /\ Goto(c, "release.get")
    /\ Unlock(c)
    /\ UNCHANGED <<redisVars, callerVars>>

\* The database or the process fails before COMMIT.
ConfirmAbort(c) ==
    /\ call[c].step \in ConfirmSteps
    /\ Finish(c)
    /\ Unlock(c)
    /\ UNCHANGED <<storeVars, callerVars>>

------------------------------------------------------------------------------
(* ReleaseBookedSeats: one UPDATE statement.  It waits for the rows it      *)
(* matches; rows it does not match when it starts are skipped.             *)

ReleaseBookedSeats(t) ==
    LET S == bookingSeats[t]
    IN  /\ ReleasableRows(t, S) # {}
        /\ Unlocked(ReleasableRows(t, S))
        /\ FreeRows(t, S)
        /\ UNCHANGED <<redisVars, rowLock, call, callerVars>>

------------------------------------------------------------------------------
(* BlockSeats *)

Blockable(S) == S # {} /\ \A s \in S : seatStatus[s] # "BOOKED"

\* Lock, check, update and commit; nothing outside PostgreSQL is awaited.
BlockSeats(c, S) ==
    /\ At(c, "idle")
    /\ Unlocked(S)
    /\ Blockable(S)
    /\ BlockRows(S)
    /\ call' = [call EXCEPT ![c] = Running("block.mget", S, None)]
    /\ UNCHANGED <<redisVars, rowLock, callerVars>>

\* releaseSeatHolds: which tokens hold the blocked seats?
BlockMget(c) ==
    /\ At(c, "block.mget")
    /\ LET tokens == {t \in Token : \E s \in call[c].seats : hold[s] = t}
       IN  call' = [call EXCEPT ![c] = [Running("block.del", @.seats, None)
                                           EXCEPT !.tokens = tokens]]
    /\ UNCHANGED <<storeVars, rowLock, callerVars>>

BlockDel(c) ==
    /\ At(c, "block.del")
    /\ DeleteKeys(call[c].seats, call[c].tokens)
    /\ Finish(c)
    /\ UNCHANGED <<rowVars, rowLock, callerVars>>

BlockCleanupFail(c) ==
    /\ call[c].step \in BlockSteps
    /\ Finish(c)
    /\ UNCHANGED <<storeVars, rowLock, callerVars>>

------------------------------------------------------------------------------
\* The TTL of a key of the hold, or of its index, runs out.
HoldExpires(t) ==
    /\ DropExpired(t)
    /\ UNCHANGED <<rowVars, rowLock, call, callerVars>>

HandlerStep(c) ==
    \/ HoldLoad(c)
    \/ HoldCreate(c)
    \/ HoldRecheck(c)
    \/ HoldReply(c)
    \/ ReleaseGet(c)
    \/ ReleaseMget(c)
    \/ ReleaseDel(c)
    \/ ReleaseIndex(c)
    \/ ReleaseScan(c)
    \/ ReleaseScanDel(c)
    \/ ReleaseScanIndex(c)
    \/ ReleaseFail(c)
    \/ ReleaseReport(c)
    \/ ValidateLoad(c)
    \/ ConfirmValidate(c)
    \/ ConfirmUpdate(c)
    \/ ConfirmAbort(c)
    \/ BlockMget(c)
    \/ BlockDel(c)
    \/ BlockCleanupFail(c)

\* Every step but the release of sold seats.
OtherNext ==
    \/ \E c \in Call : HandlerStep(c)
    \/ \E c \in Call, t \in Token, S \in SUBSET Seat : HoldStart(c, t, S)
    \/ \E c \in Call, t \in Token, S \in SUBSET Seat : ValidateHold(c, t, S)
    \/ \E c \in Call, t \in Token : ReleaseStart(c, t)
    \/ \E c \in Call, t \in Token : ConfirmLock(c, t)
    \/ \E c \in Call, S \in SUBSET Seat : BlockSeats(c, S)
    \/ \E t \in Token : HoldExpires(t)

Next == OtherNext \/ \E t \in Token : ReleaseBookedSeats(t)

Spec == Init /\ [][Next]_vars

------------------------------------------------------------------------------
(* Properties. *)

(* "The update is all-or-none" (README of the service): the seats a booking
   owns are all the seats it asked for or none, whatever confirmations,
   releases and blocks interleave with its ConfirmSeats. *)
AllOrNone == \A t \in Token : BookedBy(t) \in {{}, bookingSeats[t]}

(* releaseHoldByToken that ends without an error has removed every hold of
   its token: also when a BlockSeats of some of its seats took the index
   away, when some keys expired, and when two releases run at once. *)
ReleaseIsComplete ==
    [][\A c \in Call :
          (call[c].step \in ReleaseSteps /\ call'[c].step = "idle") =>
             \A s \in Seat : hold'[s] # call[c].token]_vars
==============================================================================
