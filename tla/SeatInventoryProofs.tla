------------------------ MODULE SeatInventoryProofs ------------------------
(***************************************************************************)
(* For every set of seats, tokens and concurrent calls: the types of       *)
(* SeatInventory, ConfirmSeats is all-or-none, a sold seat leaves its      *)
(* booking by that booking's release only, releases are complete, and no   *)
(* client gets a hold written over a seat sold or blocked meanwhile.       *)
(*                                                                         *)
(* AllOrNone is not inductive: a confirmation decides on the rows in one   *)
(* step and writes them in another.  ConfirmInv says what the row locks    *)
(* guarantee in between.  Nor is what is said of holds: a release deletes  *)
(* the keys it read some steps ago.  TokenInv and RedisInv say that nobody *)
(* adds to them meanwhile.                                                 *)
(***************************************************************************)
EXTENDS SeatInventoryHistory, TLAPS

\* Every running call that works for a token has one.
CallInv ==
    \A c \in Call :
        call[c].step \notin {"idle", "block.mget", "block.del"} => call[c].token \in Token

\* Between locking and updating, a confirmation owns the rows of its booking
\* and each of them is free or already sold to that booking.
OwnsRows(c) ==
    /\ call[c].seats = bookingSeats[call[c].token]
    /\ call[c].seats # {}
    /\ \A s \in call[c].seats : rowLock[s] = c
    /\ ~TakenByOther(call[c].token, call[c].seats)

ConfirmInv == \A c \in Call : call[c].step \in ConfirmSteps => OwnsRows(c)

IInv == TypeOK /\ CallInv /\ ConfirmInv /\ AllOrNone

USE NoneIsNoToken, NoneIsNoCall

\* A step of call c that leaves the rows, their locks and the bookings alone
\* and does not bring c into ConfirmSeats.
Quiet(c) ==
    /\ UNCHANGED <<rowVars, rowLock, bookingSeats>>
    /\ \A d \in Call \ {c} : call'[d] = call[d]
    /\ call'[c].step \notin ConfirmSteps

LEMMA IdleType == Idle \in Handler
  BY DEF Idle, Handler, Steps

\* The initial states satisfy the inductive invariant.
LEMMA InitInv == Init => IInv
  <1> SUFFICES ASSUME Init PROVE IInv
    OBVIOUS
  <1>1. TypeOK
    BY IdleType DEF Init, StoreInit, TypeOK, StoreTypeOK, SeatStates
  <1>2. CallInv /\ ConfirmInv
    BY DEF Init, CallInv, ConfirmInv, OwnsRows, ConfirmSteps, Idle
  <1>3. AllOrNone
    BY DEF Init, StoreInit, AllOrNone, BookedBy, BookedFor
  <1> QED
    BY <1>1, <1>2, <1>3 DEF IInv

\* Quiet steps keep what the invariant says of rows and confirmations.
LEMMA QuietKeeps ==
    ASSUME IInv, NEW c \in Call, Quiet(c)
    PROVE  ConfirmInv' /\ AllOrNone'
  <1>1. ConfirmInv'
    BY DEF IInv, ConfirmInv, OwnsRows, Quiet, rowVars, TakenByOther
  <1>2. AllOrNone'
    BY DEF IInv, AllOrNone, BookedBy, BookedFor, Quiet, rowVars
  <1> QED
    BY <1>1, <1>2

\* What a quiet step may do to the call of its handler.
Moves(c) ==
    \/ \E step \in Steps \ ConfirmSteps : Goto(c, step)
    \/ \E step \in Steps \ ConfirmSteps, keys \in SUBSET Seat : GotoWith(c, step, keys)
    \/ Finish(c)

LEMMA MovesKeep ==
    ASSUME IInv, NEW c \in Call, Moves(c), call[c].token \in Token
    PROVE  /\ call' \in [Call -> Handler]
           /\ CallInv'
           /\ \A d \in Call \ {c} : call'[d] = call[d]
           /\ call'[c].step \notin ConfirmSteps
  <1> USE DEF IInv, CallInv, TypeOK, Handler
  <1>1. CASE \E step \in Steps \ ConfirmSteps : Goto(c, step)
    BY <1>1 DEF Goto
  <1>2. CASE \E step \in Steps \ ConfirmSteps, keys \in SUBSET Seat : GotoWith(c, step, keys)
    BY <1>2 DEF GotoWith, Running
  <1>3. CASE Finish(c)
    BY <1>3, IdleType DEF Finish, Idle, ConfirmSteps
  <1> QED
    BY <1>1, <1>2, <1>3 DEF Moves

LEMMA DeleteKeysType ==
    ASSUME TypeOK, NEW S, NEW T, DeleteKeys(S, T)
    PROVE  hold' \in [Seat -> Token \cup {None}] /\ tokenIndex' \in [Token -> SUBSET Seat]
  BY DEF TypeOK, StoreTypeOK, DeleteKeys

LEMMA CreateHoldType ==
    ASSUME TypeOK, NEW t \in Token, NEW S \in SUBSET Seat, CreateHold(t, S)
    PROVE  hold' \in [Seat -> Token \cup {None}] /\ tokenIndex' \in [Token -> SUBSET Seat]
  BY DEF TypeOK, StoreTypeOK, CreateHold

\* The Redis part of a quiet step.
RedisStep ==
    /\ hold' \in [Seat -> Token \cup {None}]
    /\ tokenIndex' \in [Token -> SUBSET Seat]

\* The steps of HoldSeats and releaseHoldByToken move their call and touch
\* Redis and granted only.
LEMMA HandlerShape ==
    ASSUME IInv, NEW c \in Call,
           \/ HoldLoad(c) \/ HoldCreate(c) \/ HoldRecheck(c) \/ HoldReply(c)
           \/ ReleaseGet(c) \/ ReleaseMget(c) \/ ReleaseDel(c) \/ ReleaseIndex(c)
           \/ ReleaseScan(c) \/ ReleaseScanDel(c) \/ ReleaseScanIndex(c)
           \/ ReleaseFail(c) \/ ReleaseReport(c)
    PROVE  /\ Moves(c)
           /\ call[c].token \in Token
           /\ UNCHANGED <<rowVars, rowLock, bookingSeats>>
           /\ RedisStep
           /\ granted' \in SUBSET Token
  <1> DEFINE Shape == /\ Moves(c)
                      /\ call[c].token \in Token
                      /\ UNCHANGED <<rowVars, rowLock, bookingSeats>>
                      /\ RedisStep
                      /\ granted' \in SUBSET Token
  <1> USE DEF IInv, CallInv, At, TypeOK, StoreTypeOK, Handler, storeVars, callerVars, rowVars,
              redisVars, Moves, RedisStep, Steps, HoldSteps, ReleaseSteps, ConfirmSteps
  <1>1. CASE HoldLoad(c)
    <2>1. Goto(c, "hold.create") \/ Finish(c)
      BY <1>1 DEF HoldLoad
    <2> QED
      BY <1>1, <2>1 DEF HoldLoad
  <1>2. CASE HoldCreate(c)
    <2>1. CASE CreateHold(call[c].token, call[c].seats) /\ Goto(c, "hold.recheck")
      BY <1>2, <2>1, CreateHoldType DEF HoldCreate
    <2>2. CASE Finish(c) /\ UNCHANGED redisVars
      BY <1>2, <2>2 DEF HoldCreate
    <2> QED
      BY <1>2, <2>1, <2>2 DEF HoldCreate
  <1>3. CASE HoldRecheck(c)
    BY <1>3 DEF HoldRecheck
  <1>4. CASE HoldReply(c)
    BY <1>4 DEF HoldReply
  <1>5. CASE ReleaseGet(c)
    <2>1. \/ Goto(c, "release.scan")
          \/ GotoWith(c, "release.mget", tokenIndex[call[c].token])
      BY <1>5 DEF ReleaseGet
    <2> QED
      BY <1>5, <2>1 DEF ReleaseGet
  <1>6. CASE ReleaseMget(c)
    BY <1>6 DEF ReleaseMget
  <1>7. CASE ReleaseDel(c)
    <2>1. Finish(c) \/ Goto(c, "release.scan")
      BY <1>7 DEF ReleaseDel
    <2>2. RedisStep
      BY <1>7, DeleteKeysType DEF ReleaseDel
    <2> QED
      BY <1>7, <2>1, <2>2 DEF ReleaseDel
  <1>8. CASE ReleaseIndex(c)
    BY <1>8, DeleteKeysType DEF ReleaseIndex
  <1>9. CASE ReleaseScan(c)
    <2>1. Finish(c) \/ GotoWith(c, "release.scandel", HeldBy(call[c].token))
      BY <1>9 DEF ReleaseScan
    <2>2. HeldBy(call[c].token) \in SUBSET Seat
      BY DEF HeldBy
    <2> QED
      BY <1>9, <2>1, <2>2 DEF ReleaseScan
  <1>10. CASE ReleaseScanDel(c)
    <2>1. Finish(c) \/ Goto(c, "release.scanindex")
      BY <1>10 DEF ReleaseScanDel
    <2>2. RedisStep
      BY <1>10, DeleteKeysType DEF ReleaseScanDel
    <2> QED
      BY <1>10, <2>1, <2>2 DEF ReleaseScanDel
  <1>11. CASE ReleaseFail(c)
    BY <1>11 DEF ReleaseFail
  <1>12. CASE ReleaseReport(c)
    BY <1>12 DEF ReleaseReport
  <1>13. CASE ReleaseScanIndex(c)
    BY <1>13, DeleteKeysType DEF ReleaseScanIndex
  <1> QED
    BY <1>1, <1>2, <1>3, <1>4, <1>5, <1>6, <1>7, <1>8, <1>9, <1>10, <1>11, <1>12, <1>13

\* Any step that moves a call into a quiet step and leaves rows, locks and
\* bookings alone keeps the invariant.
LEMMA QuietInv ==
    ASSUME IInv, NEW c \in Call, Quiet(c),
           call' \in [Call -> Handler],
           call'[c].step \notin {"idle", "block.mget", "block.del"} => call'[c].token \in Token,
           RedisStep, granted' \in SUBSET Token
    PROVE  IInv'
  <1>1. TypeOK'
    BY DEF IInv, TypeOK, StoreTypeOK, Quiet, rowVars, RedisStep
  <1>2. CallInv'
    BY DEF IInv, CallInv, Quiet
  <1> QED
    BY <1>1, <1>2, QuietKeeps DEF IInv

LEMMA HandlerInv ==
    ASSUME IInv, NEW c \in Call,
           \/ HoldLoad(c) \/ HoldCreate(c) \/ HoldRecheck(c) \/ HoldReply(c)
           \/ ReleaseGet(c) \/ ReleaseMget(c) \/ ReleaseDel(c) \/ ReleaseIndex(c)
           \/ ReleaseScan(c) \/ ReleaseScanDel(c) \/ ReleaseScanIndex(c)
           \/ ReleaseFail(c) \/ ReleaseReport(c)
    PROVE  IInv'
  <1>1. /\ Moves(c)
        /\ call[c].token \in Token
        /\ UNCHANGED <<rowVars, rowLock, bookingSeats>>
        /\ RedisStep
        /\ granted' \in SUBSET Token
    BY HandlerShape
  <1>2. /\ call' \in [Call -> Handler]
        /\ CallInv'
        /\ \A d \in Call \ {c} : call'[d] = call[d]
        /\ call'[c].step \notin ConfirmSteps
    BY <1>1, MovesKeep
  <1>3. Quiet(c)
    BY <1>1, <1>2 DEF Quiet
  <1> QED
    BY <1>1, <1>2, <1>3, QuietInv DEF CallInv

\* The clean-up after BlockSeats.
LEMMA BlockCleanupInv ==
    ASSUME IInv, NEW c \in Call, BlockMget(c) \/ BlockDel(c) \/ BlockCleanupFail(c)
    PROVE  IInv'
  <1>1. CASE BlockMget(c)
    <2> DEFINE h == [Running("block.del", call[c].seats, None)
                     EXCEPT !.tokens = {t \in Token : \E s \in call[c].seats : hold[s] = t}]
    <2>1. call' = [call EXCEPT ![c] = h]
      BY <1>1 DEF BlockMget
    <2>2. h \in Handler /\ h.step = "block.del"
      BY DEF IInv, TypeOK, Running, Handler, Steps, BlockSteps
    <2>3. Quiet(c) /\ call' \in [Call -> Handler] /\ call'[c].step = "block.del"
      <3> HIDE DEF h
      <3> QED
        BY <1>1, <2>1, <2>2
           DEF BlockMget, IInv, TypeOK, Quiet, ConfirmSteps, storeVars, rowVars, callerVars
    <2>4. RedisStep /\ granted' \in SUBSET Token
      BY <1>1 DEF BlockMget, IInv, TypeOK, StoreTypeOK, RedisStep, storeVars, callerVars
    <2> QED
      BY <2>3, <2>4, QuietInv
  <1>2. CASE BlockDel(c) \/ BlockCleanupFail(c)
    <2>1. Finish(c) /\ UNCHANGED <<rowVars, rowLock, callerVars>>
      BY <1>2 DEF BlockDel, BlockCleanupFail, storeVars, rowVars
    <2>2. Quiet(c) /\ call' \in [Call -> Handler] /\ call'[c].step = "idle"
      BY <2>1, IdleType
         DEF Finish, IInv, TypeOK, Quiet, Idle, ConfirmSteps, rowVars, callerVars
    <2>3. RedisStep
      BY <1>2, DeleteKeysType
         DEF BlockDel, BlockCleanupFail, IInv, TypeOK, StoreTypeOK, RedisStep, storeVars
    <2>4. granted' \in SUBSET Token
      BY <2>1 DEF IInv, TypeOK, callerVars
    <2> QED
      BY <2>2, <2>3, <2>4, QuietInv
  <1> QED
    BY <1>1, <1>2

\* A booking is bound to a token at most once, and never while one of its
\* confirmations runs.
LEMMA ValidateLoadInv ==
    ASSUME IInv, NEW c \in Call, ValidateLoad(c)
    PROVE  IInv'
  <1> DEFINE t == call[c].token
  <1>1. t \in Token /\ call[c].seats \in SUBSET Seat
    BY DEF IInv, CallInv, TypeOK, Handler, ValidateLoad, At
  <1>2. bookingSeats' \in [Token -> SUBSET Seat]
    BY <1>1 DEF IInv, TypeOK, ValidateLoad
  <1>3. \A x \in Token : bookingSeats[x] # {} => bookingSeats'[x] = bookingSeats[x]
    BY <1>1 DEF IInv, TypeOK, ValidateLoad
  <1>4. /\ call' \in [Call -> Handler]
        /\ call'[c].step = "idle"
        /\ \A d \in Call \ {c} : call'[d] = call[d]
    BY IdleType DEF ValidateLoad, Finish, IInv, TypeOK, Idle
  <1>5. UNCHANGED <<rowVars, redisVars, rowLock, granted>>
    BY DEF ValidateLoad, storeVars, rowVars, redisVars
  <1>6. TypeOK'
    BY <1>2, <1>4, <1>5 DEF IInv, TypeOK, StoreTypeOK, rowVars, redisVars
  <1>7. CallInv'
    BY <1>4 DEF IInv, CallInv
  <1>8. ConfirmInv'
    BY <1>3, <1>4, <1>5
       DEF IInv, CallInv, ConfirmInv, OwnsRows, ConfirmSteps, TakenByOther, rowVars
  <1>9. AllOrNone'
    BY <1>3, <1>5 DEF IInv, AllOrNone, BookedBy, BookedFor, rowVars
  <1> QED
    BY <1>6, <1>7, <1>8, <1>9 DEF IInv

\* ROLLBACK, or a rejected validation: the locks of c are given up.
LEMMA ConfirmStopInv ==
    ASSUME IInv, NEW c \in Call, call[c].step \in ConfirmSteps,
           Finish(c), Unlock(c), UNCHANGED <<storeVars, callerVars>>
    PROVE  IInv'
  <1>1. /\ call' \in [Call -> Handler]
        /\ call'[c].step = "idle"
        /\ \A d \in Call \ {c} : call'[d] = call[d]
    BY IdleType DEF Finish, IInv, TypeOK, Idle
  <1>2. rowLock' \in [Seat -> Call \cup {None}]
    BY DEF Unlock, IInv, TypeOK
  <1>3. TypeOK'
    BY <1>1, <1>2 DEF IInv, TypeOK, StoreTypeOK, storeVars, callerVars
  <1>4. CallInv'
    BY <1>1 DEF IInv, CallInv
  <1>5. ConfirmInv'
    <2> SUFFICES ASSUME NEW d \in Call, call'[d].step \in ConfirmSteps
                 PROVE  OwnsRows(d)'
      BY DEF ConfirmInv
    <2>1. d # c /\ call'[d] = call[d]
      BY <1>1 DEF ConfirmSteps
    <2>2. call[d].seats \in SUBSET Seat
      BY DEF IInv, TypeOK, Handler
    <2> QED
      BY <2>1, <2>2 DEF IInv, ConfirmInv, OwnsRows, TypeOK, TakenByOther, Unlock, storeVars, callerVars
  <1>6. AllOrNone'
    BY DEF IInv, AllOrNone, BookedBy, BookedFor, storeVars, callerVars
  <1> QED
    BY <1>3, <1>4, <1>5, <1>6 DEF IInv

LEMMA ConfirmValidateInv ==
    ASSUME IInv, NEW c \in Call, ConfirmValidate(c)
    PROVE  IInv'
  <1>1. CASE Goto(c, "confirm.update") /\ UNCHANGED rowLock
    <2>1. /\ call' \in [Call -> Handler]
          /\ \A d \in Call : /\ call'[d].token = call[d].token
                             /\ call'[d].seats = call[d].seats
                             /\ d # c => call'[d] = call[d]
      BY <1>1 DEF Goto, IInv, TypeOK, Handler, Steps, ConfirmSteps
    <2>2. call[c].step \in ConfirmSteps
      BY DEF ConfirmValidate, At, ConfirmSteps
    <2>3. UNCHANGED <<storeVars, callerVars, rowLock>>
      BY <1>1 DEF ConfirmValidate
    <2>4. TypeOK'
      BY <2>1, <2>3 DEF IInv, TypeOK, StoreTypeOK, storeVars, callerVars
    <2>5. CallInv'
      BY <2>1, <2>2 DEF IInv, CallInv, ConfirmSteps
    <2>6. ConfirmInv'
      BY <2>1, <2>2, <2>3 DEF IInv, ConfirmInv, OwnsRows, TakenByOther, storeVars, callerVars
    <2>7. AllOrNone'
      BY <2>3 DEF IInv, AllOrNone, BookedBy, BookedFor, storeVars, callerVars
    <2> QED
      BY <2>4, <2>5, <2>6, <2>7 DEF IInv
  <1>2. CASE Finish(c) /\ Unlock(c)
    BY <1>2, ConfirmStopInv DEF ConfirmValidate, At, ConfirmSteps
  <1> QED
    BY <1>1, <1>2 DEF ConfirmValidate

\* The UPDATE: the locks have kept the rows as ConfirmLock found them, so every
\* row is written, none of them was another booking's, and no confirmation
\* still running looks at them.
LEMMA ConfirmUpdateInv ==
    ASSUME IInv, NEW c \in Call, ConfirmUpdate(c)
    PROVE  IInv'
  <1> DEFINE t == call[c].token
  <1> DEFINE S == call[c].seats
  <1>1. /\ call[c].step \in ConfirmSteps
        /\ t \in Token
        /\ S \in SUBSET Seat
        /\ S = bookingSeats[t]
        /\ \A s \in S : rowLock[s] = c
        /\ ~TakenByOther(t, S)
    BY DEF ConfirmUpdate, At, IInv, CallInv, ConfirmInv, OwnsRows, ConfirmSteps, TypeOK, Handler
  <1>2. BookRows(t, S) /\ Goto(c, "release.get") /\ Unlock(c)
    BY <1>1 DEF ConfirmUpdate
  <1>3. UNCHANGED <<redisVars, callerVars>>
    BY DEF ConfirmUpdate
  <1>4. /\ call' \in [Call -> Handler]
        /\ call'[c].step = "release.get"
        /\ call'[c].token = t
        /\ \A d \in Call \ {c} : call'[d] = call[d]
    BY <1>2 DEF Goto, IInv, TypeOK, Handler, Steps, ReleaseSteps
  <1>5. TypeOK'
    <2>1. /\ seatStatus' \in [Seat -> SeatStates]
          /\ seatBooking' \in [Seat -> Token \cup {None}]
      BY <1>1, <1>2 DEF BookRows, IInv, TypeOK, StoreTypeOK, SeatStates
    <2>2. rowLock' \in [Seat -> Call \cup {None}]
      BY <1>2 DEF Unlock, IInv, TypeOK
    <2> QED
      BY <1>3, <1>4, <2>1, <2>2 DEF IInv, TypeOK, StoreTypeOK, redisVars, callerVars
  <1>6. CallInv'
    BY <1>1, <1>4 DEF IInv, CallInv
  <1>7. ConfirmInv'
    <2> SUFFICES ASSUME NEW d \in Call, call'[d].step \in ConfirmSteps
                 PROVE  OwnsRows(d)'
      BY DEF ConfirmInv
    <2>1. d # c /\ call'[d] = call[d]
      BY <1>4 DEF ConfirmSteps
    <2>2. /\ call[d].seats \in SUBSET Seat
          /\ call[d].seats = bookingSeats[call[d].token]
          /\ call[d].seats # {}
          /\ \A s \in call[d].seats : rowLock[s] = d
          /\ ~TakenByOther(call[d].token, call[d].seats)
      BY <2>1 DEF IInv, ConfirmInv, OwnsRows, TypeOK, Handler
    <2>3. \A s \in call[d].seats : s \notin S
      BY <1>1, <2>1, <2>2
    <2>4. \A s \in call[d].seats : /\ rowLock'[s] = d
                                   /\ seatStatus'[s] = seatStatus[s]
                                   /\ seatBooking'[s] = seatBooking[s]
      BY <1>2, <2>1, <2>2, <2>3 DEF Unlock, BookRows
    <2> QED
      BY <1>3, <2>1, <2>2, <2>4 DEF OwnsRows, TakenByOther, callerVars
  <1>8. AllOrNone'
    <2> SUFFICES ASSUME NEW x \in Token
                 PROVE  BookedBy(x)' \in {{}, bookingSeats[x]}
      BY <1>3 DEF AllOrNone, callerVars
    <2>1. BookedBy(x) \in {{}, bookingSeats[x]}
      BY DEF IInv, AllOrNone
    <2>2. CASE x = t
      <3>1. BookedBy(x)' = BookedBy(x) \cup S
        BY <1>1, <1>2, <2>2 DEF BookedBy, BookedFor, BookRows
      <3> QED
        BY <1>1, <2>1, <2>2, <3>1
    <2>3. CASE x # t
      <3>1. \A s \in S : ~BookedFor(x, s)
        BY <1>1, <2>3 DEF TakenByOther, BookedFor
      <3>2. BookedBy(x)' = BookedBy(x)
        BY <1>1, <1>2, <2>3, <3>1 DEF BookedBy, BookedFor, BookRows
      <3> QED
        BY <2>1, <3>2
    <2> QED
      BY <2>2, <2>3
  <1> QED
    BY <1>5, <1>6, <1>7, <1>8 DEF IInv

LEMMA RunningType ==
    ASSUME NEW step \in Steps, NEW S \in SUBSET Seat, NEW t \in Token \cup {None}
    PROVE  Running(step, S, t) \in Handler
  BY DEF Running, Handler

\* A call that starts HoldSeats, ReleaseHold or ValidateHold.
LEMMA StartInv ==
    ASSUME IInv, NEW c \in Call, NEW t \in Token, NEW S \in SUBSET Seat,
           NEW step \in Steps \ ConfirmSteps,
           call' = [call EXCEPT ![c] = Running(step, S, t)],
           UNCHANGED <<storeVars, rowLock, callerVars>>
    PROVE  IInv'
  <1>1. /\ call' \in [Call -> Handler]
        /\ call'[c].step = step
        /\ call'[c].token = t
        /\ \A d \in Call \ {c} : call'[d] = call[d]
    BY RunningType DEF IInv, TypeOK, Running
  <1>2. Quiet(c)
    BY <1>1 DEF Quiet, storeVars, rowVars, callerVars
  <1>3. RedisStep /\ granted' \in SUBSET Token
    BY DEF IInv, TypeOK, StoreTypeOK, RedisStep, storeVars, callerVars
  <1> QED
    BY <1>1, <1>2, <1>3, QuietInv

\* Confirmations that are running keep their rows when other rows change.
LEMMA ConfirmKeeps ==
    ASSUME IInv, NEW d \in Call, call[d].step \in ConfirmSteps, call'[d] = call[d],
           UNCHANGED bookingSeats,
           \A s \in Seat : rowLock[s] = d =>
               /\ rowLock'[s] = d
               /\ seatStatus'[s] = seatStatus[s]
               /\ seatBooking'[s] = seatBooking[s]
    PROVE  OwnsRows(d)'
  BY DEF IInv, ConfirmInv, OwnsRows, TypeOK, Handler, TakenByOther

LEMMA ConfirmLockInv ==
    ASSUME IInv, NEW c \in Call, NEW t \in Token, ConfirmLock(c, t)
    PROVE  IInv'
  <1> DEFINE S == bookingSeats[t]
  <1>1. /\ S \in SUBSET Seat
        /\ S # {}
        /\ Unlocked(S)
        /\ ~TakenByOther(t, S)
        /\ Lock(c, S)
        /\ call' = [call EXCEPT ![c] = Running("confirm.validate", S, t)]
        /\ UNCHANGED <<storeVars, callerVars>>
    BY DEF ConfirmLock, IInv, TypeOK
  <1>2. "confirm.validate" \in ConfirmSteps /\ "confirm.validate" \in Steps
    BY DEF Steps, ConfirmSteps
  <1>3. /\ call' \in [Call -> Handler]
        /\ call'[c].step = "confirm.validate"
        /\ call'[c].token = t
        /\ call'[c].seats = S
        /\ \A d \in Call \ {c} : call'[d] = call[d]
    <2>1. Running("confirm.validate", S, t) \in Handler
      BY <1>1, <1>2, RunningType
    <2> QED
      BY <1>1, <2>1 DEF IInv, TypeOK, Running
  <1>4. TypeOK'
    BY <1>1, <1>3 DEF IInv, TypeOK, StoreTypeOK, storeVars, callerVars, Lock
  <1>5. CallInv'
    BY <1>3 DEF IInv, CallInv
  <1>6. ConfirmInv'
    <2> SUFFICES ASSUME NEW d \in Call, call'[d].step \in ConfirmSteps
                 PROVE  OwnsRows(d)'
      BY DEF ConfirmInv
    <2>1. CASE d = c
      BY <1>1, <1>3, <2>1 DEF OwnsRows, TakenByOther, Lock, storeVars, callerVars
    <2>2. CASE d # c
      <3>1. \A s \in Seat : rowLock[s] = d => rowLock'[s] = d
        BY <1>1 DEF Lock, Unlocked
      <3> QED
        BY <1>1, <1>3, <2>2, <3>1, ConfirmKeeps DEF storeVars, callerVars
    <2> QED
      BY <2>1, <2>2
  <1>7. AllOrNone'
    BY <1>1 DEF IInv, AllOrNone, BookedBy, BookedFor, storeVars, callerVars
  <1> QED
    BY <1>4, <1>5, <1>6, <1>7 DEF IInv

LEMMA ReleaseBookedInv ==
    ASSUME IInv, NEW t \in Token, ReleaseBookedSeats(t)
    PROVE  IInv'
  <1> DEFINE R == ReleasableRows(t, bookingSeats[t])
  <1>1. /\ Unlocked(R)
        /\ FreeRows(t, bookingSeats[t])
        /\ UNCHANGED <<redisVars, rowLock, call, callerVars>>
        /\ R = BookedBy(t)
    <2>1. bookingSeats[t] \in SUBSET Seat /\ BookedBy(t) \in {{}, bookingSeats[t]}
      BY DEF IInv, TypeOK, AllOrNone
    <2>2. R = BookedBy(t)
      BY <2>1 DEF ReleasableRows, BookedBy
    <2> QED
      BY <2>2 DEF ReleaseBookedSeats
  <1>2. /\ seatStatus' = [s \in Seat |-> IF s \in R THEN "AVAILABLE" ELSE seatStatus[s]]
        /\ seatBooking' = [s \in Seat |-> IF s \in R THEN None ELSE seatBooking[s]]
    BY <1>1 DEF FreeRows
  <1> HIDE DEF R
  <1>3. TypeOK'
    BY <1>1, <1>2 DEF IInv, TypeOK, StoreTypeOK, SeatStates, redisVars, callerVars
  <1>4. CallInv'
    BY <1>1 DEF IInv, CallInv
  <1>5. ConfirmInv'
    <2> SUFFICES ASSUME NEW d \in Call, call[d].step \in ConfirmSteps
                 PROVE  OwnsRows(d)'
      BY <1>1 DEF ConfirmInv
    <2>1. \A s \in Seat : rowLock[s] = d => s \notin R
      BY <1>1 DEF Unlocked
    <2> QED
      BY <1>1, <1>2, <2>1, ConfirmKeeps DEF callerVars
  <1>6. AllOrNone'
    <2> SUFFICES ASSUME NEW x \in Token
                 PROVE  BookedBy(x)' \in {{}, bookingSeats[x]}
      BY <1>1 DEF AllOrNone, callerVars
    <2>1. BookedBy(x) \in {{}, bookingSeats[x]}
      BY DEF IInv, AllOrNone
    <2>2. BookedBy(x)' = BookedBy(x) \ R
      BY <1>2 DEF BookedBy, BookedFor
    <2>3. x # t => BookedBy(x) \cap R = {}
      BY <1>1 DEF BookedBy, BookedFor
    <2> QED
      BY <1>1, <2>1, <2>2, <2>3
  <1> QED
    BY <1>3, <1>4, <1>5, <1>6 DEF IInv

LEMMA BlockSeatsInv ==
    ASSUME IInv, NEW c \in Call, NEW S \in SUBSET Seat, BlockSeats(c, S)
    PROVE  IInv'
  <1>1. /\ Unlocked(S)
        /\ \A s \in S : seatStatus[s] # "BOOKED"
        /\ BlockRows(S)
        /\ call' = [call EXCEPT ![c] = Running("block.mget", S, None)]
        /\ UNCHANGED <<redisVars, rowLock, callerVars>>
    BY DEF BlockSeats, Blockable
  <1>2. "block.mget" \in Steps \ ConfirmSteps
    BY DEF Steps, BlockSteps, ConfirmSteps
  <1>3. /\ call' \in [Call -> Handler]
        /\ call'[c].step = "block.mget"
        /\ \A d \in Call \ {c} : call'[d] = call[d]
    <2>1. Running("block.mget", S, None) \in Handler
      BY <1>2, RunningType
    <2> QED
      BY <1>1, <2>1 DEF IInv, TypeOK, Running
  <1>4. TypeOK'
    BY <1>1, <1>3 DEF IInv, TypeOK, StoreTypeOK, SeatStates, BlockRows, redisVars, callerVars
  <1>5. CallInv'
    BY <1>3 DEF IInv, CallInv
  <1>6. ConfirmInv'
    <2> SUFFICES ASSUME NEW d \in Call, call'[d].step \in ConfirmSteps
                 PROVE  OwnsRows(d)'
      BY DEF ConfirmInv
    <2>1. d # c /\ call'[d] = call[d]
      BY <1>2, <1>3
    <2>2. \A s \in Seat : rowLock[s] = d => s \notin S
      BY <1>1 DEF Unlocked
    <2> QED
      BY <1>1, <2>1, <2>2, ConfirmKeeps DEF BlockRows, callerVars
  <1>7. AllOrNone'
    <2>1. \A x \in Token : BookedBy(x)' = BookedBy(x)
      BY <1>1 DEF BookedBy, BookedFor, BlockRows
    <2> QED
      BY <1>1, <2>1 DEF IInv, AllOrNone, callerVars
  <1> QED
    BY <1>4, <1>5, <1>6, <1>7 DEF IInv

LEMMA HoldExpiresInv ==
    ASSUME IInv, NEW t \in Token, HoldExpires(t)
    PROVE  IInv'
  <1>1. RedisStep
    <2>1. TypeOK
      BY DEF IInv
    <2>2. CASE \E s \in HeldBy(t) : DeleteKeys({s}, {})
      BY <2>1, <2>2, DeleteKeysType DEF HeldBy, RedisStep
    <2>3. CASE DeleteKeys({}, {t})
      BY <2>1, <2>3, DeleteKeysType DEF RedisStep
    <2> QED
      BY <2>2, <2>3 DEF HoldExpires, DropExpired
  <1>2. UNCHANGED <<rowVars, rowLock, call, callerVars>>
    BY DEF HoldExpires
  <1>3. TypeOK'
    BY <1>1, <1>2 DEF IInv, TypeOK, StoreTypeOK, RedisStep, rowVars, callerVars
  <1>4. CallInv' /\ ConfirmInv' /\ AllOrNone'
    BY <1>2 DEF IInv, CallInv, ConfirmInv, OwnsRows, TakenByOther, AllOrNone, BookedBy,
                BookedFor, rowVars, callerVars
  <1> QED
    BY <1>3, <1>4 DEF IInv

LEMMA NextInv == IInv /\ [Next]_vars => IInv'
  <1> SUFFICES ASSUME IInv, [Next]_vars PROVE IInv'
    OBVIOUS
  <1>1. ASSUME NEW c \in Call, HandlerStep(c) PROVE IInv'
    <2>1. CASE ConfirmAbort(c)
      BY <2>1, ConfirmStopInv DEF ConfirmAbort
    <2> QED
      BY <1>1, <2>1, HandlerInv, BlockCleanupInv, ValidateLoadInv, ConfirmValidateInv,
         ConfirmUpdateInv DEF HandlerStep
  <1>2. ASSUME NEW c \in Call, NEW t \in Token, NEW S \in SUBSET Seat,
               HoldStart(c, t, S) \/ ValidateHold(c, t, S)
        PROVE  IInv'
    BY <1>2, StartInv DEF HoldStart, ValidateHold, Steps, HoldSteps, ConfirmSteps
  <1>3. ASSUME NEW c \in Call, NEW t \in Token, ReleaseStart(c, t) PROVE IInv'
    BY <1>3, StartInv DEF ReleaseStart, Steps, ReleaseSteps, ConfirmSteps
  <1>4. CASE UNCHANGED vars
    BY <1>4 DEF vars, storeVars, IInv, TypeOK, StoreTypeOK, CallInv, ConfirmInv, OwnsRows,
                TakenByOther, AllOrNone, BookedBy, BookedFor
  <1> QED
    BY <1>1, <1>2, <1>3, <1>4, ConfirmLockInv, BlockSeatsInv, ReleaseBookedInv, HoldExpiresInv
       DEF Next, OtherNext

THEOREM InvariantHolds == Spec => []IInv
  BY InitInv, NextInv, PTL DEF Spec

(* The variables keep their types in every reachable state. *)
THEOREM TypeCorrect == Spec => []TypeOK
  BY InvariantHolds, PTL DEF IInv

(* "The update is all-or-none": at any time, the rows a booking owns are all
   the seats it asked for or none of them. *)
THEOREM ConfirmsAllOrNone == Spec => []AllOrNone
  BY InvariantHolds, PTL DEF IInv

\* Only ReleaseBookedSeats frees a sold seat, and only for the booking it is
\* called for; no step sells or frees a blocked one.
Kept(s) ==
    /\ seatStatus[s] = "BOOKED" => seatStatus'[s] = "BOOKED" /\ seatBooking'[s] = seatBooking[s]
    /\ seatStatus[s] = "BLOCKED" => seatStatus'[s] = "BLOCKED"

LEMMA ReleasedStep ==
    ASSUME IInv, NEW t \in Token, ReleaseBookedSeats(t), NEW s \in Seat
    PROVE  \/ Kept(s)
           \/ seatStatus[s] = "BOOKED" /\ seatStatus'[s] = "AVAILABLE" /\ seatBooking[s] = t
  <1> DEFINE R == ReleasableRows(t, bookingSeats[t])
  <1>1. /\ seatStatus' = [x \in Seat |-> IF x \in R THEN "AVAILABLE" ELSE seatStatus[x]]
        /\ seatBooking' = [x \in Seat |-> IF x \in R THEN None ELSE seatBooking[x]]
    BY DEF ReleaseBookedSeats, FreeRows
  <1>2. s \in R => seatStatus[s] = "BOOKED" /\ seatBooking[s] = t
    BY DEF ReleasableRows, BookedFor
  <1>3. CASE s \in R
    BY <1>1, <1>2, <1>3
  <1>4. CASE s \notin R
    <2>1. seatStatus'[s] = seatStatus[s] /\ seatBooking'[s] = seatBooking[s]
      BY <1>1, <1>4
    <2> QED
      BY <2>1 DEF Kept
  <1> QED
    BY <1>3, <1>4

LEMMA OtherStep ==
    ASSUME IInv, OtherNext, NEW s \in Seat
    PROVE  Kept(s)
  <1>1. ASSUME NEW c \in Call, ConfirmUpdate(c) PROVE Kept(s)
    <2>1. /\ ~TakenByOther(call[c].token, call[c].seats)
          /\ BookRows(call[c].token, call[c].seats)
      BY <1>1 DEF ConfirmUpdate, At, IInv, ConfirmInv, OwnsRows, ConfirmSteps
    <2> QED
      BY <2>1 DEF BookRows, TakenByOther, Kept
  <1>2. ASSUME NEW c \in Call, NEW S \in SUBSET Seat, BlockSeats(c, S) PROVE Kept(s)
    BY <1>2 DEF BlockSeats, Blockable, BlockRows, Kept
  <1>3. CASE UNCHANGED rowVars
    BY <1>3 DEF rowVars, Kept
  <1>4. \/ \E c \in Call : ConfirmUpdate(c)
        \/ \E c \in Call, S \in SUBSET Seat : BlockSeats(c, S)
        \/ UNCHANGED rowVars
    <2>1. ASSUME NEW c \in Call, HandlerStep(c) PROVE ConfirmUpdate(c) \/ UNCHANGED rowVars
      <3>1. CASE ValidateLoad(c) \/ ConfirmValidate(c) \/ ConfirmAbort(c)
                 \/ BlockMget(c) \/ BlockDel(c) \/ BlockCleanupFail(c)
        BY <3>1 DEF ValidateLoad, ConfirmValidate, ConfirmAbort, BlockMget, BlockDel,
                    BlockCleanupFail, storeVars, rowVars
      <3> QED
        BY <2>1, <3>1, HandlerShape DEF HandlerStep
    <2> QED
      BY <2>1 DEF OtherNext, HoldStart, ValidateHold, ReleaseStart, ConfirmLock, HoldExpires,
                  storeVars, rowVars
  <1> QED
    BY <1>1, <1>2, <1>3, <1>4

LEMMA SoldStep ==
    ASSUME IInv, HistoryNext, NEW s \in Seat
    PROVE  /\ seatStatus[s] = "BOOKED" =>
                \/ seatStatus'[s] = "AVAILABLE" /\ releaser' = seatBooking[s]
                \/ seatStatus'[s] = "BOOKED" /\ seatBooking'[s] = seatBooking[s]
           /\ seatStatus[s] = "BLOCKED" => seatStatus'[s] = "BLOCKED"
  <1>1. CASE OtherNext
    BY <1>1, OtherStep DEF Kept
  <1>2. ASSUME NEW t \in Token, ReleaseBookedSeats(t), releaser' = t
        PROVE  \/ Kept(s)
               \/ /\ seatStatus[s] = "BOOKED" /\ seatStatus'[s] = "AVAILABLE"
                  /\ releaser' = seatBooking[s]
    BY <1>2, ReleasedStep
  <1> QED
    BY <1>1, <1>2 DEF HistoryNext, Kept

\* A history leaves the system what it is.
LEMMA HistoryOfSpec == HistorySpec => Spec
  <1>1. HistoryInit => Init
    BY DEF HistoryInit
  <1>2. [HistoryNext]_historyVars => [Next]_vars
    BY DEF HistoryNext, historyVars, Next
  <1> QED
    BY <1>1, <1>2, PTL DEF HistorySpec, Spec

(* "A different booking may never claim those seats": whatever calls run, a
   sold seat stays sold to its booking until ReleaseBookedSeats is called for
   that booking. *)
THEOREM SoldStays == HistorySpec => SoldSeatsStay
  <1> DEFINE Stays == \A s \in Seat :
                 /\ seatStatus[s] = "BOOKED" =>
                       \/ seatStatus'[s] = "AVAILABLE" /\ releaser' = seatBooking[s]
                       \/ seatStatus'[s] = "BOOKED" /\ seatBooking'[s] = seatBooking[s]
                 /\ seatStatus[s] = "BLOCKED" => seatStatus'[s] = "BLOCKED"
  <1>1. IInv /\ [HistoryNext]_historyVars => [Stays]_rowVars
    BY SoldStep DEF historyVars, vars, storeVars, rowVars
  <1>2. HistorySpec => []IInv
    BY HistoryOfSpec, InvariantHolds, PTL
  <1> QED
    BY <1>1, <1>2, PTL DEF HistorySpec, SoldSeatsStay

------------------------------------------------------------------------------
(* Holds.  What follows is about the tokens of calls and what they know of  *)
(* Redis; rows matter only to the last theorem.                             *)

\* A token between its drawing and its reply belongs to one call, and to no
\* client and no booking.
Drawn(c) ==
    /\ call[c].token \notin granted
    /\ \A d \in Call \ {c} : call[d].token # call[c].token

\* Bookings, and the validations on the way to them, are of granted tokens.
TokenInv ==
    /\ \A c \in Call : call[c].step \in HoldSteps => Drawn(c)
    /\ \A c \in Call : call[c].step = "validate.load" => call[c].token \in granted
    /\ \A t \in Token : bookingSeats[t] # {} => t \in granted

\* What a handler knows about the holds of its token: which keys still carry it
\* at most.
HoldsKnown(h) ==
    /\ h.step \in {"hold.load", "hold.create", "release.scanindex"} => HeldBy(h.token) = {}
    /\ h.step \in {"release.mget", "release.del", "release.scandel"} => HeldBy(h.token) \subseteq h.keys

\* An index that is there lists all the keys of its token.
RedisInv ==
    /\ \A t \in Token : tokenIndex[t] # {} => HeldBy(t) \subseteq tokenIndex[t]
    /\ \A c \in Call : HoldsKnown(call[c])

HoldInv == IInv /\ TokenInv /\ RedisInv

\* A hold over a taken seat belongs to a call that will find out, or to none.
Discards(c, s) ==
    /\ call[c].step \notin {"hold.load", "hold.create", "hold.reply"}
    /\ call[c].step = "hold.recheck" => s \in call[c].seats

HistoryInv ==
    /\ heldTaken \subseteq Token \X Seat
    /\ \A p \in heldTaken :
          /\ p[1] \notin granted
          /\ ~Unissued(p[1])
          /\ seatStatus[p[2]] # "AVAILABLE"
          /\ \A c \in Call : call[c].token = p[1] => Discards(c, p[2])

LEMMA HandlerFacts ==
    ASSUME IInv, NEW c \in Call
    PROVE  /\ call[c] \in Handler
           /\ call[c].seats \in SUBSET Seat /\ call[c].keys \in SUBSET Seat
           /\ call[c].token \in Token \cup {None}
           /\ call[c].step \notin {"idle", "block.mget", "block.del"} => call[c].token \in Token
  BY DEF IInv, TypeOK, CallInv, Handler

\* A step of call c that draws no token.
Proceeds(c) ==
    /\ \A d \in Call \ {c} : call'[d] = call[d]
    /\ call'[c].token \in {call[c].token, None} \cup granted
    /\ call'[c].step \in HoldSteps => call[c].step \in HoldSteps /\ call'[c].token = call[c].token
    /\ \/ granted' = granted
       \/ /\ granted' = granted \cup {call[c].token}
          /\ call[c].step \in HoldSteps /\ call'[c].step \notin HoldSteps
    /\ \A t \in Token : bookingSeats'[t] # bookingSeats[t] => t \in granted
    /\ call'[c].step = "validate.load" => call'[c].token \in granted

LEMMA TokensKeep ==
    ASSUME IInv, TokenInv, granted \in SUBSET Token, NEW c \in Call, Proceeds(c)
    PROVE  TokenInv'
  <1>1. granted \subseteq granted'
    BY DEF Proceeds
  <1>2. ASSUME NEW d \in Call, call'[d].step \in HoldSteps
        PROVE  Drawn(d)'
    <2>1. call[d].step \in HoldSteps /\ call'[d].token = call[d].token /\ Drawn(d)
      BY <1>2 DEF Proceeds, TokenInv
    <2>2. call[d].token \in Token /\ call[d].token # None
      BY <2>1, HandlerFacts DEF HoldSteps
    <2>3. call'[d].token \notin granted'
      BY <1>2, <2>1 DEF Proceeds, Drawn
    <2>4. ASSUME NEW e \in Call \ {d} PROVE call'[e].token # call'[d].token
      BY <2>1, <2>2 DEF Proceeds, Drawn
    <2> QED
      BY <2>3, <2>4 DEF Drawn
  <1>3. ASSUME NEW d \in Call, call'[d].step = "validate.load"
        PROVE  call'[d].token \in granted'
    BY <1>1, <1>3 DEF Proceeds, TokenInv
  <1>4. \A t \in Token : bookingSeats'[t] # {} => t \in granted'
    BY <1>1 DEF Proceeds, TokenInv
  <1> QED
    BY <1>2, <1>3, <1>4 DEF TokenInv

\* Keys and indexes only go.
Shrinks ==
    /\ \A s \in Seat : hold'[s] \in {hold[s], None}
    /\ \A t \in Token : tokenIndex'[t] \in {tokenIndex[t], {}}

LEMMA ShrinksFacts ==
    ASSUME TypeOK, Shrinks, NEW t \in Token
    PROVE  \A s \in Seat : hold'[s] = t => hold[s] = t
  BY NoneIsNoToken DEF Shrinks

LEMMA KnownStays ==
    ASSUME TypeOK, Shrinks, NEW h, HoldsKnown(h),
           h.step \notin {"idle", "block.mget", "block.del"} => h.token \in Token
    PROVE  HoldsKnown(h)'
  <1>1. h.token \in Token => \A s \in Seat : hold'[s] = h.token => hold[s] = h.token
    BY ShrinksFacts
  <1> QED
    BY <1>1 DEF HoldsKnown, HeldBy

LEMMA RedisKeeps ==
    ASSUME IInv, RedisInv, Shrinks, NEW c \in Call,
           \A d \in Call \ {c} : call'[d] = call[d],
           NEW h, h = call'[c], HoldsKnown(h)'
    PROVE  RedisInv'
  <1>1. ASSUME NEW t \in Token, tokenIndex'[t] # {}
        PROVE  \A s \in Seat : hold'[s] = t => s \in tokenIndex'[t]
    BY <1>1, ShrinksFacts DEF RedisInv, HeldBy, Shrinks, IInv
  <1>2. ASSUME NEW d \in Call PROVE HoldsKnown(call[d])'
    <2>1. PICK g : g = call'[d]
      OBVIOUS
    <2>2. CASE d = c
      BY <2>1, <2>2
    <2>3. CASE d # c
      <3>1. g = call[d] /\ HoldsKnown(g)
        BY <2>1, <2>3 DEF RedisInv
      <3>2. HoldsKnown(g)'
        BY <3>1, KnownStays, HandlerFacts DEF IInv
      <3> QED
        BY <2>1, <3>2
    <2> QED
      BY <2>2, <2>3
  <1> QED
    BY <1>1, <1>2 DEF RedisInv, HeldBy

LEMMA DeleteShrinks ==
    ASSUME TypeOK, NEW S, NEW T, DeleteKeys(S, T)
    PROVE  /\ Shrinks
           /\ \A s \in Seat : hold'[s] = IF s \in S THEN None ELSE hold[s]
  BY DEF DeleteKeys, Shrinks, TypeOK, StoreTypeOK

LEMMA ExpiryShrinks ==
    ASSUME TypeOK, NEW t \in Token, DropExpired(t)
    PROVE  Shrinks
  BY DeleteShrinks DEF DropExpired

LEMMA RedisStill ==
    ASSUME UNCHANGED redisVars
    PROVE  Shrinks
  BY DEF redisVars, Shrinks

\* Where Goto, GotoWith and Finish leave the call.
LEMMA GotoFacts ==
    ASSUME TypeOK, NEW c \in Call, NEW step \in Steps, Goto(c, step)
    PROVE  /\ \A d \in Call \ {c} : call'[d] = call[d]
           /\ call'[c].step = step /\ call'[c].token = call[c].token
           /\ call'[c].seats = call[c].seats /\ call'[c].keys = call[c].keys
  BY DEF Goto, TypeOK, Handler

LEMMA GotoWithFacts ==
    ASSUME TypeOK, NEW c \in Call, NEW step \in Steps, NEW keys \in SUBSET Seat, GotoWith(c, step, keys)
    PROVE  /\ \A d \in Call \ {c} : call'[d] = call[d]
           /\ call'[c].step = step /\ call'[c].token = call[c].token
           /\ call'[c].seats = call[c].seats /\ call'[c].keys = keys
  BY DEF GotoWith, Running, TypeOK, Handler

LEMMA FinishFacts ==
    ASSUME TypeOK, NEW c \in Call, Finish(c)
    PROVE  /\ \A d \in Call \ {c} : call'[d] = call[d]
           /\ call'[c].step = "idle" /\ call'[c].token = None
  BY DEF Finish, Idle, TypeOK

\* A step of a call that deletes keys at most, and draws no token.
LEMMA ProceedKeeps ==
    ASSUME HoldInv, NEW c \in Call, Proceeds(c), Shrinks, IInv',
           NEW h, h = call'[c], HoldsKnown(h)'
    PROVE  HoldInv'
  <1>1. granted \in SUBSET Token
    BY DEF HoldInv, IInv, TypeOK
  <1>2. TokenInv'
    BY <1>1, TokensKeep DEF HoldInv
  <1>3. RedisInv'
    BY RedisKeeps DEF HoldInv, Proceeds
  <1> QED
    BY <1>2, <1>3 DEF HoldInv

LEMMA HoldStepsKeep ==
    ASSUME HoldInv, IInv', NEW c \in Call, HoldLoad(c) \/ HoldRecheck(c) \/ HoldReply(c)
    PROVE  HoldInv'
  <1>1. TypeOK
    BY DEF HoldInv, IInv
  <1>2. /\ UNCHANGED <<storeVars, rowLock, bookingSeats>>
        /\ \/ Finish(c) \/ Goto(c, "hold.create") \/ Goto(c, "hold.reply") \/ Goto(c, "release.get")
        /\ Goto(c, "hold.create") \/ Goto(c, "hold.reply") => UNCHANGED granted
        /\ granted' = granted \/ granted' = granted \cup {call[c].token}
        /\ call[c].step \in HoldSteps
        /\ Goto(c, "hold.create") => call[c].step = "hold.load"
    <2>1. CASE HoldLoad(c)
      BY <1>1, <2>1, GotoFacts, FinishFacts
         DEF HoldLoad, At, HoldSteps, callerVars, Steps, ReleaseSteps
    <2>2. CASE HoldRecheck(c)
      BY <1>1, <2>2, GotoFacts, FinishFacts
         DEF HoldRecheck, At, HoldSteps, callerVars, Steps, ReleaseSteps
    <2>3. CASE HoldReply(c)
      BY <1>1, <2>3, GotoFacts, FinishFacts
         DEF HoldReply, At, HoldSteps, Steps, ReleaseSteps
    <2> QED
      BY <2>1, <2>2, <2>3
  <1>3. /\ \A d \in Call \ {c} : call'[d] = call[d]
        /\ call'[c].step \in {"idle", "hold.create", "hold.reply", "release.get"}
        /\ call'[c].token = call[c].token \/ (call'[c].token = None /\ call'[c].step = "idle")
        /\ call'[c].step \in {"hold.create", "hold.reply"} => granted' = granted
        /\ call'[c].step = "hold.create" => call[c].step = "hold.load"
    BY <1>1, <1>2, GotoFacts, FinishFacts DEF Steps, HoldSteps, ReleaseSteps
  <1>4. Proceeds(c)
    BY <1>2, <1>3 DEF Proceeds, HoldSteps
  <1>5. Shrinks
    BY <1>2, RedisStill DEF storeVars, redisVars
  <1>6. PICK h : h = call'[c]
    OBVIOUS
  <1>7. HoldsKnown(h)
    BY <1>3, <1>6 DEF HoldInv, RedisInv, HoldsKnown
  <1>8. HoldsKnown(h)'
    BY <1>2, <1>7 DEF HoldsKnown, HeldBy, storeVars
  <1> QED
    BY <1>4, <1>5, <1>6, <1>8, ProceedKeeps

\* The keys of a new hold are those of its index, and nobody else has its token.
LEMMA HoldCreateKeeps ==
    ASSUME HoldInv, IInv', NEW c \in Call, HoldCreate(c)
    PROVE  HoldInv'
  <1> DEFINE t == call[c].token
             S == call[c].seats
  <1>1. /\ TypeOK /\ TypeOK' /\ At(c, "hold.create") /\ call[c].step = "hold.create"
        /\ t \in Token /\ S \in SUBSET Seat
        /\ HeldBy(t) = {} /\ Drawn(c)
        /\ UNCHANGED <<rowVars, rowLock, callerVars>>
    BY HandlerFacts DEF HoldCreate, At, HoldInv, IInv, TokenInv, RedisInv, HoldsKnown, HoldSteps
  <1>2. CASE Finish(c) /\ UNCHANGED redisVars
    <2>1. Proceeds(c)
      BY <1>1, <1>2, FinishFacts DEF Proceeds, HoldSteps, callerVars
    <2>2. PICK h : h = call'[c] /\ h.step = "idle"
      BY <1>1, <1>2, FinishFacts
    <2>3. HoldsKnown(h)'
      BY <2>2 DEF HoldsKnown
    <2> QED
      BY <1>2, <2>1, <2>2, <2>3, RedisStill, ProceedKeeps
  <1>3. CASE CreateHold(t, S) /\ Goto(c, "hold.recheck")
    <2>1. /\ \A d \in Call \ {c} : call'[d] = call[d]
          /\ call'[c].step = "hold.recheck" /\ call'[c].token = t
      BY <1>1, <1>3, GotoFacts DEF Steps, HoldSteps
    <2>2. Proceeds(c)
      BY <1>1, <2>1 DEF Proceeds, HoldSteps, callerVars
    <2>3. TokenInv'
      BY <1>1, <2>2, TokensKeep DEF HoldInv, IInv, TypeOK
    <2>4. /\ \A s \in S : hold'[s] = t
          /\ \A s \in Seat \ S : hold'[s] = hold[s]
          /\ tokenIndex'[t] = S
          /\ \A x \in Token \ {t} : tokenIndex'[x] = tokenIndex[x]
          /\ \A s \in Seat : hold[s] # t
      BY <1>1, <1>3 DEF CreateHold, TypeOK, StoreTypeOK, HeldBy
    <2>5. \A x \in Token \ {t} : \A s \in Seat : hold'[s] = x => hold[s] = x
      BY <1>1, <2>4
    <2>6. ASSUME NEW x \in Token, tokenIndex'[x] # {}
          PROVE  \A s \in Seat : hold'[s] = x => s \in tokenIndex'[x]
      BY <2>4, <2>5, <2>6 DEF HoldInv, RedisInv, HeldBy
    <2>7. ASSUME NEW d \in Call PROVE HoldsKnown(call[d])'
      <3>1. PICK g : g = call'[d]
        OBVIOUS
      <3>2. CASE d = c
        BY <2>1, <3>1, <3>2 DEF HoldsKnown
      <3>3. CASE d # c
        <4>1. g = call[d] /\ HoldsKnown(g) /\ g.token # t
          BY <1>1, <2>1, <3>1, <3>3 DEF HoldInv, RedisInv, Drawn
        <4>2. g.step \notin {"idle", "block.mget", "block.del"} => g.token \in Token \ {t}
          BY <4>1, HandlerFacts DEF HoldInv
        <4>3. HoldsKnown(g)'
          BY <2>5, <4>1, <4>2 DEF HoldsKnown, HeldBy
        <4> QED
          BY <3>1, <4>3
      <3> QED
        BY <3>2, <3>3
    <2>8. RedisInv'
      BY <2>6, <2>7 DEF RedisInv, HeldBy
    <2> QED
      BY <2>3, <2>8 DEF HoldInv
  <1> QED
    BY <1>1, <1>2, <1>3 DEF HoldCreate

\* A step of call c outside HoldSeats: no hold and no grant is made.
Aside(c) ==
    /\ \A d \in Call \ {c} : call'[d] = call[d]
    /\ call'[c].step \notin HoldSteps
    /\ Shrinks
    /\ granted' = granted

\* releaseHoldByToken: its token is its own until it is done.
LEMMA ReleaseProceeds ==
    ASSUME HoldInv, NEW c \in Call, call[c].step \in ReleaseSteps \cup {"release.failed"},
           UNCHANGED <<rowVars, rowLock, callerVars>>,
           \A d \in Call \ {c} : call'[d] = call[d],
           call'[c].token = call[c].token \/ call'[c].token = None,
           call'[c].step \in ReleaseSteps \cup {"release.failed", "idle"}
    PROVE  Proceeds(c)
  BY DEF Proceeds, HoldSteps, ReleaseSteps, callerVars

\* Reads of the index and of the keys.
LEMMA ReleaseReadsKeep ==
    ASSUME HoldInv, IInv', NEW c \in Call,
           ReleaseGet(c) \/ ReleaseMget(c) \/ ReleaseScan(c) \/ ReleaseFail(c) \/ ReleaseReport(c)
    PROVE  HoldInv' /\ Aside(c)
  <1>1. /\ TypeOK
        /\ UNCHANGED <<storeVars, rowLock, callerVars>>
        /\ call[c].step \in ReleaseSteps \cup {"release.failed"}
        /\ call[c].token \in Token
        /\ HoldsKnown(call[c])
        /\ call[c].keys \in SUBSET Seat
        /\ HeldBy(call[c].token) \in SUBSET Seat
    BY HandlerFacts DEF ReleaseGet, ReleaseMget, ReleaseScan, ReleaseFail, ReleaseReport, At,
          ReleaseSteps, HoldInv, IInv, RedisInv, HeldBy
  <1>2. /\ \A d \in Call \ {c} : call'[d] = call[d]
        /\ call'[c].token = call[c].token \/ call'[c].token = None
        /\ call'[c].step \in {"release.mget", "release.del", "release.scandel"} =>
              call'[c].token = call[c].token /\ HeldBy(call[c].token) \subseteq call'[c].keys
        /\ call'[c].step \in {"release.mget", "release.del", "release.scandel",
                              "release.scan", "release.index", "release.failed", "idle"}
    <2>1. CASE ReleaseGet(c)
      <3>1. PICK keys \in SUBSET Seat : keys = tokenIndex[call[c].token]
        BY <1>1 DEF TypeOK, StoreTypeOK
      <3>2. CASE keys = {}
        BY <1>1, <2>1, <3>1, <3>2, GotoFacts DEF ReleaseGet, Steps, ReleaseSteps
      <3>3. CASE keys # {}
        <4>1. GotoWith(c, "release.mget", keys) /\ HeldBy(call[c].token) \subseteq keys
          BY <1>1, <2>1, <3>1, <3>3 DEF ReleaseGet, HoldInv, RedisInv
        <4> QED
          BY <1>1, <4>1, GotoWithFacts DEF Steps, ReleaseSteps
      <3> QED
        BY <3>2, <3>3
    <2>2. CASE ReleaseMget(c)
      <3>1. PICK own \in SUBSET Seat : own = call[c].keys \cap HeldBy(call[c].token)
        BY <1>1
      <3>2. own = HeldBy(call[c].token)
        BY <1>1, <2>2, <3>1 DEF ReleaseMget, At, HoldsKnown
      <3>3. GotoWith(c, "release.index", own) \/ GotoWith(c, "release.del", own)
        BY <2>2, <3>1 DEF ReleaseMget
      <3>4. PICK step \in {"release.index", "release.del"} : GotoWith(c, step, own)
        BY <3>3
      <3>5. /\ \A d \in Call \ {c} : call'[d] = call[d]
            /\ call'[c].step = step /\ call'[c].token = call[c].token /\ call'[c].keys = own
        BY <1>1, <3>4, GotoWithFacts DEF Steps, ReleaseSteps
      <3> QED
        BY <3>2, <3>5
    <2>3. CASE ReleaseScan(c)
      <3>1. Finish(c) \/ GotoWith(c, "release.scandel", HeldBy(call[c].token))
        BY <2>3 DEF ReleaseScan
      <3> QED
        BY <1>1, <3>1, GotoWithFacts, FinishFacts DEF Steps, ReleaseSteps
    <2>4. CASE ReleaseFail(c) \/ ReleaseReport(c)
      BY <1>1, <2>4, GotoFacts, FinishFacts DEF ReleaseFail, ReleaseReport, Steps
    <2> QED
      BY <2>1, <2>2, <2>3, <2>4
  <1>3. Proceeds(c)
    BY <1>1, <1>2, ReleaseProceeds DEF ReleaseSteps, storeVars, rowVars
  <1>4. Shrinks
    BY <1>1, RedisStill DEF storeVars, redisVars
  <1>5. PICK h : h = call'[c]
    OBVIOUS
  <1>6. HoldsKnown(h)'
    BY <1>1, <1>2, <1>5 DEF HoldsKnown, HeldBy, storeVars
  <1>7. Aside(c)
    BY <1>1, <1>2, <1>4 DEF Aside, HoldSteps, callerVars
  <1> QED
    BY <1>3, <1>4, <1>5, <1>6, <1>7, ProceedKeeps

\* Deletions of keys and of the index.
LEMMA ReleaseDeletesKeep ==
    ASSUME HoldInv, IInv', NEW c \in Call,
           ReleaseDel(c) \/ ReleaseIndex(c) \/ ReleaseScanDel(c) \/ ReleaseScanIndex(c)
    PROVE  HoldInv' /\ Aside(c)
  <1>1. /\ TypeOK
        /\ UNCHANGED <<rowVars, rowLock, callerVars>>
        /\ call[c].step \in ReleaseSteps
        /\ call[c].token \in Token
        /\ HoldsKnown(call[c])
    BY HandlerFacts DEF ReleaseDel, ReleaseIndex, ReleaseScanDel, ReleaseScanIndex, At,
          ReleaseSteps, HoldInv, IInv, RedisInv
  <1>2. Shrinks
    BY <1>1, DeleteShrinks DEF ReleaseDel, ReleaseIndex, ReleaseScanDel, ReleaseScanIndex
  <1>3. Finish(c) \/ Goto(c, "release.scan") \/ (ReleaseScanDel(c) /\ Goto(c, "release.scanindex"))
    BY DEF ReleaseDel, ReleaseIndex, ReleaseScanDel, ReleaseScanIndex
  <1>4. /\ \A d \in Call \ {c} : call'[d] = call[d]
        /\ call'[c].token = call[c].token \/ call'[c].token = None
        /\ call'[c].step \in {"idle", "release.scan", "release.scanindex"}
        /\ call'[c].step = "release.scanindex" => ReleaseScanDel(c) /\ call'[c].token = call[c].token
    BY <1>1, <1>3, GotoFacts, FinishFacts DEF Steps, ReleaseSteps
  <1>5. Proceeds(c)
    BY <1>1, <1>4, ReleaseProceeds DEF ReleaseSteps
  <1>6. PICK h : h = call'[c]
    OBVIOUS
  <1>7. HoldsKnown(h)'
    <2>1. CASE h.step # "release.scanindex"
      BY <1>4, <1>6, <2>1 DEF HoldsKnown
    <2>2. CASE h.step = "release.scanindex"
      <3>1. /\ DeleteKeys(call[c].keys, {}) /\ h.token = call[c].token
            /\ HeldBy(call[c].token) \subseteq call[c].keys
        BY <1>1, <1>4, <1>6, <2>2 DEF ReleaseScanDel, At, HoldsKnown
      <3>2. \A s \in Seat : hold'[s] # h.token
        BY <1>1, <3>1, DeleteShrinks DEF HeldBy
      <3> QED
        BY <2>2, <3>2 DEF HoldsKnown, HeldBy
    <2> QED
      BY <2>1, <2>2
  <1>8. Aside(c)
    BY <1>1, <1>2, <1>4 DEF Aside, HoldSteps, callerVars
  <1> QED
    BY <1>2, <1>5, <1>6, <1>7, <1>8, ProceedKeeps

\* A call begins that has no hold to know about yet, or ends.
LEMMA OtherStepsKeep ==
    ASSUME HoldInv, IInv', NEW c \in Call,
           \/ \E t \in Token : ReleaseStart(c, t) \/ ConfirmLock(c, t)
           \/ \E t \in Token, S \in SUBSET Seat : ValidateHold(c, t, S)
           \/ \E S \in SUBSET Seat : BlockSeats(c, S)
           \/ ValidateLoad(c) \/ ConfirmValidate(c) \/ ConfirmUpdate(c) \/ ConfirmAbort(c)
           \/ BlockMget(c) \/ BlockDel(c) \/ BlockCleanupFail(c)
    PROVE  HoldInv' /\ Aside(c)
  <1> DEFINE Plain == {"idle", "release.get", "validate.load", "confirm.validate",
                       "confirm.update", "block.mget", "block.del"}
             Effect == /\ \A d \in Call \ {c} : call'[d] = call[d]
                       /\ call'[c].token \in {call[c].token, None} \cup granted
                       /\ call'[c].step \in Plain
                       /\ call'[c].step = "validate.load" => call'[c].token \in granted
                       /\ granted' = granted
                       /\ Shrinks
                       /\ \A t \in Token : bookingSeats'[t] # bookingSeats[t] => t \in granted
  <1>1. TypeOK
    BY DEF HoldInv, IInv
  <1>2. Effect
    <2>1. ASSUME NEW t \in Token, ReleaseStart(c, t) \/ ConfirmLock(c, t)
          PROVE  Effect
      <3>1. t \in granted
        BY <2>1 DEF ReleaseStart, ConfirmLock, HoldInv, TokenInv
      <3>2. PICK h : h.step \in Plain /\ h.step # "validate.load" /\ h.token = t
                     /\ call' = [call EXCEPT ![c] = h]
        BY <2>1 DEF ReleaseStart, ConfirmLock, Running
      <3>3. UNCHANGED <<storeVars, callerVars>>
        BY <2>1 DEF ReleaseStart, ConfirmLock
      <3> QED
        BY <1>1, <3>1, <3>2, <3>3, RedisStill DEF TypeOK, storeVars, redisVars, callerVars
    <2>2. ASSUME NEW t \in Token, NEW S \in SUBSET Seat, ValidateHold(c, t, S)
          PROVE  Effect
      <3>1. PICK h : h.step = "validate.load" /\ h.token = t /\ call' = [call EXCEPT ![c] = h]
        BY <2>2 DEF ValidateHold, Running
      <3> QED
        BY <1>1, <2>2, <3>1, RedisStill DEF ValidateHold, TypeOK, storeVars, redisVars, callerVars
    <2>3. ASSUME NEW S \in SUBSET Seat, BlockSeats(c, S)
          PROVE  Effect
      <3>1. PICK h : h.step = "block.mget" /\ h.token = None /\ call' = [call EXCEPT ![c] = h]
        BY <2>3 DEF BlockSeats, Running
      <3> QED
        BY <1>1, <2>3, <3>1, RedisStill DEF BlockSeats, TypeOK, callerVars
    <2>4. CASE ValidateLoad(c)
      <3>1. call[c].token \in granted
        BY <2>4 DEF ValidateLoad, At, HoldInv, TokenInv
      <3>2. \A t \in Token : bookingSeats'[t] # bookingSeats[t] => t = call[c].token
        BY <1>1, <2>4 DEF ValidateLoad, TypeOK
      <3>3. UNCHANGED <<storeVars, granted>> /\ Finish(c)
        BY <2>4 DEF ValidateLoad
      <3> QED
        BY <1>1, <3>1, <3>2, <3>3, FinishFacts, RedisStill DEF storeVars, redisVars
    <2>5. CASE ConfirmValidate(c) \/ ConfirmUpdate(c) \/ ConfirmAbort(c)
      <3>1. UNCHANGED <<redisVars, callerVars>>
        BY <2>5 DEF ConfirmValidate, ConfirmUpdate, ConfirmAbort, storeVars, redisVars
      <3>2. Finish(c) \/ Goto(c, "confirm.update") \/ Goto(c, "release.get")
        BY <2>5 DEF ConfirmValidate, ConfirmUpdate, ConfirmAbort
      <3> QED
        BY <1>1, <3>1, <3>2, GotoFacts, FinishFacts, RedisStill
           DEF Steps, ConfirmSteps, ReleaseSteps, callerVars
    <2>6. CASE BlockMget(c)
      <3>1. PICK h : h.step = "block.del" /\ h.token = None /\ call' = [call EXCEPT ![c] = h]
        BY <2>6 DEF BlockMget, Running
      <3> QED
        BY <1>1, <2>6, <3>1, RedisStill DEF BlockMget, TypeOK, storeVars, redisVars, callerVars
    <2>7. CASE BlockDel(c) \/ BlockCleanupFail(c)
      <3>1. Shrinks /\ UNCHANGED callerVars /\ Finish(c)
        BY <1>1, <2>7, DeleteShrinks, RedisStill DEF BlockDel, BlockCleanupFail, storeVars, redisVars
      <3> QED
        BY <1>1, <3>1, FinishFacts DEF callerVars
    <2> QED
      BY <2>1, <2>2, <2>3, <2>4, <2>5, <2>6, <2>7
  <1>3. Proceeds(c)
    BY <1>2 DEF Proceeds, HoldSteps
  <1>4. PICK h : h = call'[c]
    OBVIOUS
  <1>5. HoldsKnown(h)'
    BY <1>2, <1>4 DEF HoldsKnown
  <1>6. Aside(c)
    BY <1>2 DEF Aside, HoldSteps
  <1> QED
    BY <1>2, <1>3, <1>4, <1>5, <1>6, ProceedKeeps

\* A new token: nothing in Redis and no call has it.
LEMMA HoldStartKeeps ==
    ASSUME HoldInv, IInv', NEW c \in Call, NEW t \in Token, NEW S \in SUBSET Seat, HoldStart(c, t, S)
    PROVE  HoldInv'
  <1>1. TypeOK /\ Unissued(t) /\ UNCHANGED <<storeVars, rowLock, callerVars>>
    BY DEF HoldStart, HoldInv, IInv
  <1>2. /\ \A d \in Call \ {c} : call'[d] = call[d]
        /\ call'[c].step = "hold.load" /\ call'[c].token = t
    BY <1>1 DEF HoldStart, Running, TypeOK
  <1>3. TokenInv'
    <2>1. ASSUME NEW d \in Call, call'[d].step \in HoldSteps
          PROVE  Drawn(d)'
      <3>1. CASE d = c
        BY <1>1, <1>2, <3>1 DEF Unissued, Drawn, callerVars
      <3>2. CASE d # c
        <4>1. call'[d] = call[d] /\ Drawn(d)
          BY <1>2, <2>1, <3>2 DEF HoldInv, TokenInv
        <4>2. call[d].token # t
          BY <1>1 DEF Unissued
        <4> QED
          BY <1>1, <1>2, <4>1, <4>2 DEF Drawn, callerVars
      <3> QED
        BY <3>1, <3>2
    <2>2. ASSUME NEW d \in Call, call'[d].step = "validate.load"
          PROVE  call'[d].token \in granted'
      BY <1>1, <1>2, <2>2 DEF HoldInv, TokenInv, callerVars
    <2> QED
      BY <1>1, <2>1, <2>2 DEF HoldInv, TokenInv, callerVars
  <1>4. PICK h : h = call'[c]
    OBVIOUS
  <1>5. HoldsKnown(h)'
    BY <1>1, <1>2, <1>4 DEF HoldsKnown, Unissued, HeldBy, storeVars
  <1>6. RedisInv'
    BY <1>1, <1>2, <1>4, <1>5, RedisStill, RedisKeeps DEF HoldInv, storeVars, redisVars
  <1> QED
    BY <1>3, <1>6 DEF HoldInv

\* Nothing that runs moves, and no key is written.
LEMMA StillKeeps ==
    ASSUME HoldInv, IInv', Shrinks, UNCHANGED <<call, callerVars>>
    PROVE  HoldInv'
  <1>1. TokenInv'
    BY DEF HoldInv, TokenInv, Drawn, callerVars
  <1>2. ASSUME NEW t \in Token, tokenIndex'[t] # {}
        PROVE  \A s \in Seat : hold'[s] = t => s \in tokenIndex'[t]
    BY <1>2, ShrinksFacts DEF HoldInv, RedisInv, HeldBy, Shrinks, IInv
  <1>3. ASSUME NEW d \in Call PROVE HoldsKnown(call[d])'
    <2>1. PICK g : g = call[d] /\ g = call'[d] /\ HoldsKnown(g)
      BY DEF HoldInv, RedisInv
    <2>2. HoldsKnown(g)'
      BY <2>1, KnownStays, HandlerFacts DEF HoldInv, IInv
    <2> QED
      BY <2>1, <2>2
  <1>4. RedisInv'
    BY <1>2, <1>3 DEF RedisInv, HeldBy
  <1> QED
    BY <1>1, <1>4 DEF HoldInv

LEMMA HoldNext == HoldInv /\ [Next]_vars => HoldInv'
  <1> SUFFICES ASSUME HoldInv, [Next]_vars PROVE HoldInv'
    OBVIOUS
  <1>1. IInv' /\ TypeOK
    BY NextInv DEF HoldInv, IInv
  <1>2. ASSUME NEW c \in Call, HandlerStep(c) PROVE HoldInv'
    BY <1>1, <1>2, HoldStepsKeep, HoldCreateKeeps, ReleaseReadsKeep, ReleaseDeletesKeep,
       OtherStepsKeep DEF HandlerStep
  <1>3. ASSUME NEW c \in Call, NEW t \in Token, NEW S \in SUBSET Seat,
               HoldStart(c, t, S) \/ ValidateHold(c, t, S)
        PROVE  HoldInv'
    BY <1>1, <1>3, HoldStartKeeps, OtherStepsKeep
  <1>4. ASSUME NEW c \in Call, NEW t \in Token, ReleaseStart(c, t) \/ ConfirmLock(c, t)
        PROVE  HoldInv'
    BY <1>1, <1>4, OtherStepsKeep
  <1>5. ASSUME NEW c \in Call, NEW S \in SUBSET Seat, BlockSeats(c, S) PROVE HoldInv'
    BY <1>1, <1>5, OtherStepsKeep
  <1>6. ASSUME NEW t \in Token, ReleaseBookedSeats(t) \/ HoldExpires(t) PROVE HoldInv'
    <2>1. Shrinks /\ UNCHANGED <<call, callerVars>>
      BY <1>1, <1>6, RedisStill, ExpiryShrinks DEF ReleaseBookedSeats, HoldExpires
    <2> QED
      BY <1>1, <2>1, StillKeeps
  <1>7. CASE UNCHANGED vars
    <2>1. UNCHANGED <<redisVars, call, callerVars>>
      BY <1>7 DEF vars, storeVars, redisVars, callerVars
    <2>2. Shrinks
      BY <2>1, RedisStill
    <2> QED
      BY <1>1, <2>1, <2>2, StillKeeps
  <1> QED
    BY <1>2, <1>3, <1>4, <1>5, <1>6, <1>7 DEF Next, OtherNext

LEMMA HoldInit == Init => HoldInv
  <1> SUFFICES ASSUME Init PROVE HoldInv
    OBVIOUS
  <1>1. TokenInv
    BY DEF Init, TokenInv, Idle, HoldSteps
  <1>2. RedisInv
    BY DEF Init, StoreInit, RedisInv, HoldsKnown, Idle
  <1> QED
    BY <1>1, <1>2, InitInv DEF HoldInv

\* A token belongs to one call until it is granted, an index that is there lists
\* all the holds of its token, and a release knows where they are.
THEOREM HoldsTracked == Spec => []HoldInv
  BY HoldInit, HoldNext, PTL DEF Spec

\* A release that ends leaves no hold of its token.
LEMMA ReleaseStep ==
    ASSUME HoldInv, Next, NEW c \in Call, call[c].step \in ReleaseSteps, call'[c].step = "idle"
    PROVE  \A s \in Seat : hold'[s] # call[c].token
  <1>1. TypeOK /\ IInv /\ HoldsKnown(call[c]) /\ call[c].token \in Token
    BY HandlerFacts DEF HoldInv, IInv, RedisInv, ReleaseSteps
  <1>2. call[c].step \notin {"idle", "release.failed"} \cup HoldSteps \cup ConfirmSteps \cup BlockSteps
                            \cup {"validate.load"}
    BY DEF ReleaseSteps, HoldSteps, ConfirmSteps, BlockSteps
  <1>3. HandlerStep(c)
    <2>1. ASSUME NEW d \in Call \ {c}, HandlerStep(d) PROVE FALSE
      <3>1. CASE Moves(d)
        BY <1>1, <1>2, <3>1, GotoFacts, GotoWithFacts, FinishFacts DEF Moves
      <3>2. CASE \/ ValidateLoad(d) \/ ConfirmValidate(d) \/ ConfirmUpdate(d) \/ ConfirmAbort(d)
                 \/ BlockMget(d) \/ BlockDel(d) \/ BlockCleanupFail(d)
        BY <1>1, <1>2, <3>2
           DEF ValidateLoad, ConfirmValidate, ConfirmUpdate, ConfirmAbort, BlockMget, BlockDel,
               BlockCleanupFail, Finish, Goto, TypeOK
      <3> QED
        BY <1>1, <2>1, <3>1, <3>2, HandlerShape DEF HandlerStep
    <2>2. ASSUME NEW d \in Call, NEW t \in Token, NEW S \in SUBSET Seat,
                 HoldStart(d, t, S) \/ ValidateHold(d, t, S)
          PROVE  FALSE
      BY <1>1, <1>2, <2>2 DEF HoldStart, ValidateHold, At, Running, TypeOK
    <2>3. ASSUME NEW d \in Call, NEW t \in Token, ReleaseStart(d, t) \/ ConfirmLock(d, t)
          PROVE  FALSE
      BY <1>1, <1>2, <2>3 DEF ReleaseStart, ConfirmLock, At, Running, TypeOK
    <2>4. ASSUME NEW d \in Call, NEW S \in SUBSET Seat, BlockSeats(d, S)
          PROVE  FALSE
      BY <1>1, <1>2, <2>4 DEF BlockSeats, At, Running, TypeOK
    <2>5. ASSUME NEW t \in Token, ReleaseBookedSeats(t) \/ HoldExpires(t)
          PROVE  FALSE
      BY <1>2, <2>5 DEF ReleaseBookedSeats, HoldExpires
    <2> QED
      BY <2>1, <2>2, <2>3, <2>4, <2>5 DEF Next, OtherNext
  <1>4. \/ Finish(c) /\ (ReleaseDel(c) \/ ReleaseScan(c) \/ ReleaseScanDel(c))
        \/ ReleaseScanIndex(c)
    <2>1. ASSUME NEW step \in Steps, Goto(c, step), step # "idle" PROVE FALSE
      BY <1>1, <2>1, GotoFacts
    <2>2. ASSUME NEW step \in Steps, NEW keys, GotoWith(c, step, keys), step # "idle" PROVE FALSE
      BY <1>1, <2>2 DEF GotoWith, Running, TypeOK
    <2>3. ~HoldLoad(c) /\ ~HoldCreate(c) /\ ~HoldRecheck(c) /\ ~HoldReply(c) /\ ~ReleaseReport(c)
          /\ ~ValidateLoad(c) /\ ~ConfirmValidate(c) /\ ~ConfirmUpdate(c) /\ ~ConfirmAbort(c)
          /\ ~BlockMget(c) /\ ~BlockDel(c) /\ ~BlockCleanupFail(c)
      BY <1>2 DEF HoldLoad, HoldCreate, HoldRecheck, HoldReply, ReleaseReport, ValidateLoad,
                  ConfirmValidate, ConfirmUpdate, ConfirmAbort, BlockMget, BlockDel, BlockCleanupFail,
                  At, HoldSteps, ConfirmSteps, BlockSteps
    <2>4. ~ReleaseGet(c) /\ ~ReleaseMget(c) /\ ~ReleaseIndex(c) /\ ~ReleaseFail(c)
      BY <2>1, <2>2 DEF ReleaseGet, ReleaseMget, ReleaseIndex, ReleaseFail, Steps, ReleaseSteps
    <2> QED
      BY <1>3, <2>1, <2>2, <2>3, <2>4
         DEF HandlerStep, ReleaseDel, ReleaseScan, ReleaseScanDel, Steps, ReleaseSteps
  <1>5. CASE ReleaseDel(c)
    BY <1>1, <1>5, DeleteShrinks DEF ReleaseDel, At, HoldsKnown, HeldBy
  <1>6. CASE ReleaseScan(c) /\ Finish(c)
    <2>1. HeldBy(call[c].token) = {}
      <3>1. ASSUME GotoWith(c, "release.scandel", HeldBy(call[c].token)) PROVE FALSE
        BY <1>1, <3>1 DEF GotoWith, Running, TypeOK
      <3> QED
        BY <1>6, <3>1 DEF ReleaseScan
    <2> QED
      BY <1>6, <2>1 DEF ReleaseScan, HeldBy, storeVars
  <1>7. CASE ReleaseScanDel(c)
    BY <1>1, <1>7, DeleteShrinks DEF ReleaseScanDel, At, HoldsKnown, HeldBy
  <1>8. CASE ReleaseScanIndex(c)
    BY <1>1, <1>8, DeleteShrinks DEF ReleaseScanIndex, At, HoldsKnown, HeldBy
  <1> QED
    BY <1>4, <1>5, <1>6, <1>7, <1>8

(* releaseHoldByToken ends without an error only when no seat has a hold of its
   token: by the index, or by the scan when the index is gone, whatever other
   releases, blocks and expiries delete meanwhile. *)
THEOREM ReleasesComplete == Spec => ReleaseIsComplete
  <1>1. HoldInv /\ [Next]_vars =>
          [\A c \in Call : (call[c].step \in ReleaseSteps /\ call'[c].step = "idle") =>
             \A s \in Seat : hold'[s] # call[c].token]_vars
    BY ReleaseStep
  <1> QED
    BY <1>1, HoldsTracked, PTL DEF Spec, ReleaseIsComplete

------------------------------------------------------------------------------
(* Holds over seats sold or blocked meanwhile. *)

LEMMA HistoryKeeps ==
    ASSUME HoldInv, HistoryInv, HistoryNext, NEW c \in Call,
           \A d \in Call \ {c} : call'[d] = call[d],
           \A p \in WrittenOverTaken : call[c].step = "hold.create" /\ p[1] = call[c].token,
           \/ granted' = granted
           \/ call[c].step = "hold.reply" /\ granted' = granted \cup {call[c].token},
           \A p \in heldTaken \cup WrittenOverTaken :
              call'[c].token = p[1] => Discards(c, p[2])'
    PROVE  HistoryInv'
  <1>1. /\ heldTaken' \subseteq heldTaken \cup WrittenOverTaken
        /\ \A p \in heldTaken' : ~Unissued(p[1])' /\ seatStatus'[p[2]] # "AVAILABLE"
    BY DEF HistoryNext
  <1>2. heldTaken' \subseteq Token \X Seat
    BY <1>1 DEF HistoryInv, WrittenOverTaken
  <1>3. ASSUME NEW p \in heldTaken' PROVE p[1] \notin granted'
    <2>1. CASE p \in WrittenOverTaken
      BY <2>1 DEF HoldInv, TokenInv, Drawn, HoldSteps
    <2>2. CASE p \in heldTaken
      BY <2>2 DEF HistoryInv, Discards
    <2> QED
      BY <1>1, <2>1, <2>2
  <1>4. ASSUME NEW p \in heldTaken', NEW d \in Call, call'[d].token = p[1] PROVE Discards(d, p[2])'
    <2>1. CASE d = c
      BY <1>1, <1>4, <2>1
    <2>2. CASE d # c
      <3>1. call'[d] = call[d]
        BY <2>2
      <3>2. p \notin WrittenOverTaken
        BY <1>4, <2>2, <3>1 DEF HoldInv, TokenInv, Drawn, HoldSteps
      <3>3. Discards(d, p[2])
        BY <1>1, <1>4, <3>1, <3>2 DEF HistoryInv
      <3> QED
        BY <3>1, <3>3 DEF Discards
    <2> QED
      BY <2>1, <2>2
  <1> QED
    BY <1>1, <1>2, <1>3, <1>4 DEF HistoryInv

LEMMA ShrinksWriteNothing ==
    ASSUME TypeOK, Shrinks
    PROVE  WrittenOverTaken = {}
  <1>1. ASSUME NEW p \in Token \X Seat, hold[p[2]] # p[1], hold'[p[2]] = p[1] PROVE FALSE
    BY <1>1, ShrinksFacts
  <1> QED
    BY <1>1 DEF WrittenOverTaken

LEMMA HistoryStep == HoldInv /\ HistoryInv /\ [HistoryNext]_historyVars => HistoryInv'
  <1> SUFFICES ASSUME HoldInv, HistoryInv, [HistoryNext]_historyVars PROVE HistoryInv'
    OBVIOUS
  <1>1. TypeOK /\ IInv
    BY DEF HoldInv, IInv
  <1>2. CASE UNCHANGED historyVars
    BY <1>2 DEF historyVars, vars, storeVars, HistoryInv, Discards, Unissued, HeldBy
  <1>3. ASSUME HistoryNext, NEW c \in Call, Aside(c) PROVE HistoryInv'
    <2>1. \A s : Discards(c, s)'
      BY <1>3 DEF Aside, Discards, HoldSteps
    <2> QED
      BY <1>1, <1>3, <2>1, ShrinksWriteNothing, HistoryKeeps DEF Aside
  <1>4. ASSUME HistoryNext, NEW c \in Call, HoldLoad(c) \/ HoldRecheck(c) \/ HoldReply(c)
        PROVE  HistoryInv'
    <2>1. WrittenOverTaken = {}
      BY <1>1, <1>4, RedisStill, ShrinksWriteNothing
         DEF HoldLoad, HoldRecheck, HoldReply, storeVars, redisVars
    <2>2. CASE HoldLoad(c)
      <3>1. /\ \A d \in Call \ {c} : call'[d] = call[d]
            /\ call'[c].step \in {"idle", "hold.create"}
            /\ call'[c].step = "hold.create" => call'[c].token = call[c].token
        BY <1>1, <2>2, GotoFacts, FinishFacts DEF HoldLoad, Steps, HoldSteps
      <3>2. \A p \in heldTaken : call'[c].token = p[1] => Discards(c, p[2])'
        BY <2>2, <3>1 DEF HoldLoad, At, HistoryInv, Discards
      <3> QED
        BY <1>4, <2>1, <2>2, <3>1, <3>2, HistoryKeeps DEF HoldLoad, callerVars
    <2>3. CASE HoldRecheck(c)
      <3>1. /\ \A d \in Call \ {c} : call'[d] = call[d]
            /\ call'[c].token = call[c].token
            /\ call'[c].step = IF Sellable(call[c].seats) THEN "hold.reply" ELSE "release.get"
        BY <1>1, <2>3, GotoFacts DEF HoldRecheck, Steps, HoldSteps, ReleaseSteps
      <3>2. ASSUME NEW p \in heldTaken, call'[c].token = p[1] PROVE Discards(c, p[2])'
        <4>1. p[2] \in call[c].seats /\ p[2] \in Seat /\ seatStatus[p[2]] # "AVAILABLE"
          BY <2>3, <3>1, <3>2 DEF HoldRecheck, At, HistoryInv, Discards
        <4>2. ~Sellable(call[c].seats)
          BY <1>1, <4>1 DEF Sellable, TypeOK, StoreTypeOK, SeatStates
        <4> QED
          BY <3>1, <4>2 DEF Discards
      <3> QED
        BY <1>4, <2>1, <2>3, <3>1, <3>2, HistoryKeeps DEF HoldRecheck, callerVars
    <2>4. CASE HoldReply(c)
      <3>1. /\ \A d \in Call \ {c} : call'[d] = call[d]
            /\ call'[c].step \in {"idle", "release.get"}
        BY <1>1, <2>4, GotoFacts, FinishFacts DEF HoldReply, Steps, ReleaseSteps
      <3>2. \A s : Discards(c, s)'
        BY <3>1 DEF Discards
      <3> QED
        BY <1>4, <2>1, <2>4, <3>1, <3>2, HistoryKeeps DEF HoldReply, At
    <2> QED
      BY <1>4, <2>2, <2>3, <2>4
  <1>5. ASSUME HistoryNext, NEW c \in Call, HoldCreate(c) PROVE HistoryInv'
    <2>1. CASE Finish(c) /\ UNCHANGED redisVars
      <3>1. /\ \A d \in Call \ {c} : call'[d] = call[d]
            /\ call'[c].step = "idle"
        BY <1>1, <2>1, FinishFacts
      <3>2. (\A s : Discards(c, s)') /\ WrittenOverTaken = {}
        BY <1>1, <2>1, <3>1, RedisStill, ShrinksWriteNothing DEF Discards
      <3> QED
        BY <1>5, <3>1, <3>2, HistoryKeeps DEF HoldCreate, callerVars
    <2>2. CASE CreateHold(call[c].token, call[c].seats) /\ Goto(c, "hold.recheck")
      <3>1. /\ \A d \in Call \ {c} : call'[d] = call[d]
            /\ call'[c].step = "hold.recheck" /\ call'[c].token = call[c].token
            /\ call'[c].seats = call[c].seats
        BY <1>1, <2>2, GotoFacts DEF Steps, HoldSteps
      <3>2. ASSUME NEW s \in Seat, NEW t \in Token, hold[s] # t, hold'[s] = t
            PROVE  s \in call[c].seats /\ t = call[c].token
        BY <2>2, <3>2 DEF CreateHold
      <3>3. call[c].step = "hold.create" /\ UNCHANGED callerVars
        BY <1>5 DEF HoldCreate, At
      <3>4. \A p \in heldTaken : p[1] # call[c].token
        BY <3>3 DEF HistoryInv, Discards
      <3>5. \A p \in WrittenOverTaken : p[1] = call[c].token /\ p[2] \in call[c].seats
        BY <3>2 DEF WrittenOverTaken
      <3>6. \A p \in heldTaken \cup WrittenOverTaken : call'[c].token = p[1] => Discards(c, p[2])'
        BY <3>1, <3>4, <3>5 DEF Discards
      <3> QED
        BY <1>5, <3>1, <3>3, <3>5, <3>6, HistoryKeeps DEF callerVars
    <2> QED
      BY <1>5, <2>1, <2>2 DEF HoldCreate
  <1>6. ASSUME HistoryNext, NEW c \in Call, NEW t \in Token, NEW S \in SUBSET Seat, HoldStart(c, t, S)
        PROVE  HistoryInv'
    <2>1. Unissued(t) /\ UNCHANGED <<storeVars, rowLock, callerVars>>
      BY <1>6 DEF HoldStart
    <2>2. /\ \A d \in Call \ {c} : call'[d] = call[d]
          /\ call'[c].token = t
      BY <1>1, <1>6 DEF HoldStart, Running, TypeOK
    <2>3. WrittenOverTaken = {} /\ \A p \in heldTaken : p[1] # t
      BY <1>1, <2>1, RedisStill, ShrinksWriteNothing DEF storeVars, redisVars, HistoryInv
    <2> QED
      BY <1>6, <2>1, <2>2, <2>3, HistoryKeeps DEF callerVars
  <1>7. ASSUME HistoryNext, NEW t \in Token, ReleaseBookedSeats(t) \/ HoldExpires(t)
        PROVE  HistoryInv'
    <2>1. UNCHANGED <<call, granted>> /\ WrittenOverTaken = {}
      BY <1>1, <1>7, RedisStill, ExpiryShrinks, ShrinksWriteNothing
         DEF ReleaseBookedSeats, HoldExpires, callerVars
    <2>2. /\ heldTaken' \subseteq heldTaken
          /\ \A p \in heldTaken' : ~Unissued(p[1])' /\ seatStatus'[p[2]] # "AVAILABLE"
      BY <1>7, <2>1 DEF HistoryNext
    <2>3. \A p \in heldTaken, d \in Call : call'[d].token = p[1] => Discards(d, p[2])'
      BY <2>1 DEF HistoryInv, Discards
    <2> QED
      BY <2>1, <2>2, <2>3 DEF HistoryInv
  <1>8. CASE HistoryNext
    <2>1. Next /\ IInv'
      BY <1>1, <1>8, NextInv DEF HistoryNext, Next
    <2>2. ASSUME NEW c \in Call, HandlerStep(c) PROVE HistoryInv'
      BY <1>3, <1>4, <1>5, <1>8, <2>1, <2>2, ReleaseReadsKeep, ReleaseDeletesKeep, OtherStepsKeep
         DEF HandlerStep
    <2>3. ASSUME NEW c \in Call,
                 \/ \E t \in Token : ReleaseStart(c, t) \/ ConfirmLock(c, t)
                 \/ \E t \in Token, S \in SUBSET Seat : ValidateHold(c, t, S)
                 \/ \E S \in SUBSET Seat : BlockSeats(c, S)
          PROVE  HistoryInv'
      BY <1>3, <1>8, <2>1, <2>3, OtherStepsKeep
    <2> QED
      BY <1>6, <1>7, <1>8, <2>1, <2>2, <2>3 DEF Next, OtherNext
  <1> QED
    BY <1>2, <1>8

LEMMA HistoryStart == HistoryInit => HistoryInv
  BY DEF HistoryInit, HistoryInv

(* "A concurrent block or booking confirmation commits between the initial
   PostgreSQL read and the Redis write": the second read of the rows then finds
   the seat blocked or sold, unless it was given back before, and no client gets
   the hold. *)
THEOREM TakenNeverGranted == HistorySpec => []TakenSeatNeverGranted
  <1>1. HistorySpec => []HoldInv
    BY HistoryOfSpec, HoldsTracked, PTL
  <1>2. HistoryInv => TakenSeatNeverGranted
    BY DEF HistoryInv, TakenSeatNeverGranted
  <1> QED
    BY <1>1, <1>2, HistoryStart, HistoryStep, PTL DEF HistorySpec
=============================================================================
