----------------------------- MODULE CheckoutFlow -----------------------------
(***************************************************************************)
(* A customer's browser from the seat map to the booking: the pages        *)
(* trips/[tripId], checkout, payment, booking/[bookingCode], my-bookings   *)
(* and lookup of the web application, in several tabs.                     *)
(*                                                                         *)
(* What a page hands to the next travels in two encrypted cookies, one for *)
(* the hold and one for the booking (lib/server/flow-context.js), which    *)
(* all tabs share and which the answers of api/flow-context set and clear. *)
(* The handler of a click goes on when its tab has left the page, and      *)
(* still stores, clears and navigates.  Every request has a deadline, and  *)
(* the server may have done what it was asked when the deadline passes.    *)
(*                                                                         *)
(* A booking is named after its hold (bookings.hold_token is unique).      *)
(* Names, prices and e-mail addresses are left out: the user enters what   *)
(* belongs to the booking.                                                 *)
(***************************************************************************)
EXTENDS Naturals

CONSTANTS
    Tab,
    Hold,        \* hold tokens
    Job,         \* slots for the handlers that run (bound)
    MaxClicks,   \* clicks and failures together (bound)
    None

NoneIsNoHold == None \notin Hold

VARIABLES
    hold,      \* the hold in Redis: unused, live or over
    booking,   \* bookings.status
    cookie,    \* what the cookies of the browser hold
    tab,       \* the page of each tab
    reading,   \* getFlowContext in flight for each tab
    job,       \* the handler in each slot
    clicks,
    shadowed   \* for the properties: holds whose context got lost, see Lost

vars == <<hold, booking, cookie, tab, reading, job, clicks, shadowed>>

Kind == {"checkout", "booking"}

MaybeHold == Hold \cup {None}

Pages == {"trip", "checkout", "payment", "booking", "bookings"}

\* ctx: flowContext, or on the booking page the booking that is shown; code: the
\* booking of its address; sure: for the properties, see Undisturbed.
TabState == [page : Pages, ctx : MaybeHold, code : MaybeHold, loading : BOOLEAN,
             busy : BOOLEAN, sure : BOOLEAN]

\* mounted: the page that asked is still there.
Reading == [kind : Kind \cup {None}, carried : MaybeHold, mounted : BOOLEAN]

JobState == [task : {"idle", "hold", "submit", "pay", "show", "clear"},
             step : {"ask", "store"}, tab : Tab \cup {None}, hold : MaybeHold,
             mounted : BOOLEAN, sure : BOOLEAN]

TypeOK ==
    /\ hold \in [Hold -> {"unused", "live", "over"}]
    /\ booking \in [Hold -> {"none", "PENDING_PAYMENT", "PAID"}]
    /\ cookie \in [Kind -> MaybeHold]
    /\ tab \in [Tab -> TabState]
    /\ reading \in [Tab -> Reading]
    /\ job \in [Job -> JobState]
    /\ clicks \in 0..MaxClicks
    /\ shadowed \in SUBSET Hold

NoReading == [kind |-> None, carried |-> None, mounted |-> FALSE]

NoJob == [task |-> "idle", step |-> "ask", tab |-> None, hold |-> None,
          mounted |-> FALSE, sure |-> FALSE]

Opened(page) == [page |-> page, ctx |-> None, code |-> None,
                 loading |-> page \in {"checkout", "payment"},
                 busy |-> FALSE, sure |-> FALSE]

Init ==
    /\ hold = [k \in Hold |-> "unused"]
    /\ booking = [k \in Hold |-> "none"]
    /\ cookie = [c \in Kind |-> None]
    /\ tab = [t \in Tab |-> Opened("trip")]
    /\ reading = [t \in Tab |-> NoReading]
    /\ job = [j \in Job |-> NoJob]
    /\ clicks = 0
    /\ shadowed = {}

Counted == clicks < MaxClicks /\ clicks' = clicks + 1

------------------------------------------------------------------------------
(* The cookies *)

\* normalizeFlowContext refuses a hold whose time is over, and readFlowContext a
\* cookie that holds one.
Valid(kind, k) == k # None /\ (kind = "checkout" => hold[k] = "live")

\* For the properties: the context of another hold is gone.
Lost(kind, k) ==
    shadowed' = IF cookie[kind] \in {k, None} THEN shadowed ELSE shadowed \cup {cookie[kind]}

\* A page that has read the booking of the cookie may no longer rely on it.
Undisturbed(kind, k) == kind = "checkout" \/ cookie["booking"] = k

Disturb(records, kind, k) ==
    [x \in DOMAIN records |->
        IF Undisturbed(kind, k) THEN records[x] ELSE [records[x] EXCEPT !.sure = FALSE]]

Set(kind, k) == cookie' = [cookie EXCEPT ![kind] = k]

\* The cookie of a booking lives for 30 minutes, a hold for 10.
BookingCookieExpires ==
    LET k == cookie["booking"] IN
    /\ k # None
    /\ hold[k] = "over"
    /\ Set("booking", None)
    /\ tab' = Disturb(tab, "booking", None)
    /\ job' = Disturb(job, "booking", None)
    /\ UNCHANGED <<hold, booking, reading, clicks, shadowed>>

\* The key expires in Redis, or the countdown of the seat map releases it.
HoldExpires(k) ==
    /\ hold[k] = "live"
    /\ hold' = [hold EXCEPT ![k] = "over"]
    /\ UNCHANGED <<booking, cookie, tab, reading, job, clicks, shadowed>>

------------------------------------------------------------------------------
(* Pages *)

\* Handlers of the page that is left go on, without a page to render.
Leave(t, jobs) ==
    [j \in Job |-> IF jobs[j].tab = t THEN [jobs[j] EXCEPT !.mounted = FALSE] ELSE jobs[j]]

\* checkout and payment send getFlowContext when they mount.
Mount(t, page) ==
    reading' = [reading EXCEPT ![t] =
        CASE page = "checkout" -> [kind |-> "checkout", carried |-> cookie["checkout"], mounted |-> TRUE]
          [] page = "payment"  -> [kind |-> "booking", carried |-> cookie'["booking"], mounted |-> TRUE]
          [] OTHER -> [reading[t] EXCEPT !.mounted = FALSE]]

\* The user follows a link or reloads.  One reading is in flight for a tab (bound).
Visit(t, page) ==
    /\ Counted
    /\ page # "booking"
    /\ page \in {"checkout", "payment"} => reading[t] = NoReading
    /\ tab' = [tab EXCEPT ![t] = Opened(page)]
    /\ job' = Leave(t, job)
    /\ UNCHANGED cookie
    /\ Mount(t, page)
    /\ UNCHANGED <<hold, booking, shadowed>>

\* The answer to getFlowContext: 404 clears the cookie, whatever it holds by now.
ContextAnswered(t) ==
    LET r == reading[t]
        k == IF Valid(r.kind, r.carried) THEN r.carried ELSE None IN
    /\ r # NoReading
    /\ reading' = [reading EXCEPT ![t] = NoReading]
    /\ IF k = None
       THEN /\ Set(r.kind, None)
            /\ Lost(r.kind, None)
            /\ job' = Disturb(job, r.kind, None)
       ELSE UNCHANGED <<cookie, shadowed, job>>
    /\ LET others == IF k = None THEN Disturb(tab, r.kind, None) ELSE tab IN
       tab' = IF r.mounted
              THEN [others EXCEPT ![t].ctx = k, ![t].loading = FALSE,
                                  ![t].sure = Undisturbed(r.kind, k)]
              ELSE others
    /\ UNCHANGED <<hold, booking, clicks>>

ContextFails(t) ==
    /\ reading[t] # NoReading
    /\ Counted
    /\ reading' = [reading EXCEPT ![t] = NoReading]
    /\ tab' = IF reading[t].mounted THEN [tab EXCEPT ![t].loading = FALSE] ELSE tab
    /\ UNCHANGED <<hold, booking, cookie, job, shadowed>>

------------------------------------------------------------------------------
(* Handlers *)

Start(j, task, t, k) ==
    /\ Counted
    /\ job[j] = NoJob
    /\ ~tab[t].loading /\ ~tab[t].busy
    /\ job' = [job EXCEPT ![j] = [task |-> task,
                                  step |-> IF task = "show" THEN "store" ELSE "ask",
                                  tab |-> t, hold |-> k, mounted |-> TRUE, sure |-> tab[t].sure]]
    /\ tab' = [tab EXCEPT ![t].busy = TRUE]
    /\ UNCHANGED <<hold, booking, cookie, reading, shadowed>>

\* setLoading(false) of the page that started the handler, if it is still there.
Released(j) ==
    IF job[j].mounted THEN [tab EXCEPT ![job[j].tab].busy = FALSE] ELSE tab

\* The handler ends with an error on its page.
Fail(j) ==
    /\ job' = [job EXCEPT ![j] = NoJob]
    /\ tab' = Released(j)

\* router.push: it navigates the tab, from whatever page.
Push(j, opened, jobs) ==
    /\ reading[job[j].tab] = NoReading   \* one reading in flight for a tab (bound)
    /\ tab' = [Disturb(tab, "booking", cookie'["booking"]) EXCEPT ![job[j].tab] = opened]
    /\ job' = Leave(job[j].tab, Disturb(jobs, "booking", cookie'["booking"]))

\* handleHoldSeats
HoldSeats(t, j, k) ==
    /\ tab[t].page = "trip"
    /\ hold[k] = "unused"
    /\ \A i \in Job : job[i].hold # k
    /\ Start(j, "hold", t, k)

\* The seats are held; the map accepts another selection while handleHoldCreated
\* stores the context.  When the deadline passes first nobody knows the hold.
HoldAnswered(j) ==
    LET k == job[j].hold IN
    /\ job[j].task = "hold" /\ job[j].step = "ask"
    /\ \/ /\ hold' = [hold EXCEPT ![k] = "live"]
          /\ job' = [job EXCEPT ![j].step = "store"]
          /\ tab' = Released(j)
          /\ UNCHANGED <<shadowed, clicks>>
       \/ /\ Counted
          /\ hold' = [hold EXCEPT ![k] = "live"]
          /\ shadowed' = shadowed \cup {k}
          /\ Fail(j)
       \/ /\ Fail(j)
          /\ UNCHANGED <<hold, shadowed, clicks>>
    /\ UNCHANGED <<booking, cookie, reading>>

\* handleHoldCreated
StoreCheckout(j) ==
    LET k == job[j].hold IN
    /\ job[j].task = "hold" /\ job[j].step = "store"
    /\ Valid("checkout", k)
    /\ Set("checkout", k)
    /\ Lost("checkout", k)
    /\ reading[job[j].tab] = NoReading
    /\ tab' = [tab EXCEPT ![job[j].tab] = Opened("checkout")]
    /\ job' = Leave(job[j].tab, [job EXCEPT ![j] = NoJob])
    /\ reading' = [reading EXCEPT ![job[j].tab] =
                      [kind |-> "checkout", carried |-> k, mounted |-> TRUE]]
    /\ UNCHANGED <<hold, booking, clicks>>

\* The context is refused or the store fails.
StoreCheckoutFails(j) ==
    LET k == job[j].hold IN
    /\ job[j].task = "hold" /\ job[j].step = "store"
    /\ IF Valid("checkout", k)
       THEN Counted /\ shadowed' = shadowed \cup {k}
       ELSE UNCHANGED <<clicks, shadowed>>
    /\ job' = [job EXCEPT ![j] = NoJob]
    /\ UNCHANGED <<hold, booking, cookie, tab, reading>>

\* submit of the checkout page, while its countdown runs
Submit(t, j) ==
    LET k == tab[t].ctx IN
    /\ tab[t].page = "checkout"
    /\ Valid("checkout", k)
    /\ Start(j, "submit", t, k)

\* Mutant form: the hold's context is dropped before the booking's is stored.
AfterCreateCleared == cookie' = [cookie EXCEPT !["checkout"] = None]

AfterCreate == UNCHANGED cookie

\* CreateBooking finds the booking of the hold, if the passengers are the same, or
\* validates the hold and inserts one.
BookingAnswered(j) ==
    LET k == job[j].hold IN
    /\ job[j].task = "submit" /\ job[j].step = "ask"
    /\ \/ /\ booking[k] # "none" \/ hold[k] = "live"
          /\ booking' = [booking EXCEPT ![k] = IF @ = "none" THEN "PENDING_PAYMENT" ELSE @]
          /\ \/ /\ job' = [job EXCEPT ![j].step = "store"]
                /\ AfterCreate
                /\ UNCHANGED <<tab, clicks>>
             \/ /\ Counted
                /\ Fail(j)
                /\ UNCHANGED cookie
       \/ /\ Fail(j)
          /\ UNCHANGED <<booking, cookie, clicks>>
    /\ UNCHANGED <<hold, reading, shadowed>>

\* The booking's context is stored; the clearing of the hold's is not awaited.
StoreBooking(j) ==
    LET k == job[j].hold
        t == job[j].tab IN
    /\ job[j].task = "submit" /\ job[j].step = "store"
    /\ Set("booking", k)
    /\ Lost("booking", k)
    /\ Push(j, Opened("payment"), [job EXCEPT ![j].task = "clear", ![j].step = "ask"])
    /\ Mount(t, "payment")
    /\ UNCHANGED <<hold, booking, clicks>>

StoreBookingFails(j) ==
    /\ job[j].task = "submit" /\ job[j].step = "store"
    /\ Counted
    /\ Fail(j)
    /\ UNCHANGED <<hold, booking, cookie, reading, shadowed>>

\* Mutant form
ClearedKindSwapped == "booking"

ClearedKind == "checkout"

\* clearFlowContext("checkout"): by now the cookie may hold another context.
ClearAnswered(j) ==
    LET k == job[j].hold IN
    /\ job[j].task = "clear"
    /\ job' = [job EXCEPT ![j] = NoJob]
    /\ \/ Set(ClearedKind, None) /\ Lost("checkout", k) /\ UNCHANGED clicks
       \/ Counted /\ UNCHANGED <<cookie, shadowed>>
    /\ UNCHANGED <<hold, booking, tab, reading>>

\* The buttons of the payment page
Pay(t, j) ==
    /\ tab[t].page = "payment"
    /\ tab[t].ctx # None
    /\ Start(j, "pay", t, tab[t].ctx)

\* The booking page is rendered on the server: it shows the booking of its
\* address if the cookie that comes with the request is the same booking's.
BookingPage(code, sure) ==
    [Opened("booking") EXCEPT !.code = code, !.sure = sure,
        !.ctx = IF cookie'["booking"] = code THEN code ELSE None]

\* SimulatePayment: a paid booking is returned again, a failed one stays pending.
PaymentAnswered(j) ==
    LET k == job[j].hold IN
    /\ job[j].task = "pay"
    /\ \/ /\ \/ booking[k] = "PAID"
             \/ booking[k] = "PENDING_PAYMENT" /\ hold[k] = "live"
          /\ booking' = [booking EXCEPT ![k] = "PAID"]
          /\ \/ /\ UNCHANGED cookie
                /\ Push(j, BookingPage(k, job[j].sure), [job EXCEPT ![j] = NoJob])
                /\ UNCHANGED clicks
             \/ /\ Counted
                /\ Fail(j)
                /\ UNCHANGED cookie
       \/ /\ Fail(j)
          /\ UNCHANGED <<booking, cookie, clicks>>
    /\ UNCHANGED <<hold, reading, shadowed>>

\* submit of lookup, viewBookingDetail of my-bookings
Show(t, j, k) ==
    /\ tab[t].page = "bookings"
    /\ booking[k] # "none"
    /\ Start(j, "show", t, k)

ShowAnswered(j) ==
    LET k == job[j].hold IN
    /\ job[j].task = "show"
    /\ \/ /\ Set("booking", k)
          /\ Lost("booking", k)
          /\ Push(j, BookingPage(k, TRUE), [job EXCEPT ![j] = NoJob])
       \/ Fail(j) /\ UNCHANGED <<cookie, shadowed>>
    /\ UNCHANGED <<hold, booking, reading, clicks>>

------------------------------------------------------------------------------
TabStep(t) ==
    \/ \E page \in Pages : Visit(t, page)
    \/ ContextAnswered(t) \/ ContextFails(t)
    \/ \E j \in Job :
          \/ Submit(t, j) \/ Pay(t, j)
          \/ \E k \in Hold : HoldSeats(t, j, k) \/ Show(t, j, k)

JobStep(j) ==
    \/ HoldAnswered(j) \/ StoreCheckout(j) \/ StoreCheckoutFails(j)
    \/ BookingAnswered(j) \/ StoreBooking(j) \/ StoreBookingFails(j) \/ ClearAnswered(j)
    \/ PaymentAnswered(j) \/ ShowAnswered(j)

Next ==
    \/ \E t \in Tab : TabStep(t)
    \/ \E j \in Job : JobStep(j)
    \/ \E k \in Hold : HoldExpires(k)
    \/ BookingCookieExpires

Spec == Init /\ [][Next]_vars

------------------------------------------------------------------------------
(* Properties *)

\* The customer can still go on to pay.
InReach(k) ==
    \/ \E kind \in Kind : cookie[kind] = k
    \/ \E t \in Tab : tab[t].page \in {"checkout", "payment"} /\ tab[t].ctx = k
    \/ \E j \in Job : job[j].hold = k /\ job[j].task \in {"hold", "submit"}

\* Seats that are held, and the booking made for them while they are, stay in
\* reach of the customer: through any failure and navigation a cookie, a page or a
\* running handler leads to the payment.  Excepted are a hold whose answer or
\* whose first store was lost, and a context that the answer to another hold's
\* request replaced or cleared in the cookie all tabs share.
WithinReach ==
    \A k \in Hold :
        hold[k] = "live" /\ booking[k] # "PAID" => InReach(k) \/ k \in shadowed

\* Whoever has paid, or looks up a booking, is shown that booking, unless another
\* tab or the clock changed the booking cookie since the payment page read it.
BookingIsShown ==
    \A t \in Tab : tab[t].page = "booking" /\ tab[t].sure => tab[t].ctx = tab[t].code

\* The invariant behind these.  A handler has its tab and its hold; a hold is unused
\* until the one handler that draws it has its answer, and used when it is booked.
JobSound(j) ==
    LET q == job[j] IN
    /\ q.task # "idle" => q.tab \in Tab /\ q.hold \in Hold
    /\ q.task = "idle" => q.hold = None /\ ~q.mounted
    /\ q.task = "hold" /\ q.step = "ask" =>
          /\ hold[q.hold] = "unused"
          /\ \A i \in Job \ {j} : job[i].task = "hold" => job[i].hold # q.hold
    /\ q.task \in {"submit", "clear"} => hold[q.hold] # "unused"

\* A live hold is in a cookie, lost, or with the handler that will store it; what
\* clears the hold's context has stored the booking's.
Anchored(k) ==
    \/ \E kind \in Kind : cookie[kind] = k
    \/ k \in shadowed
    \/ \E j \in Job : job[j].task = "hold" /\ job[j].hold = k

HoldsSound ==
    /\ \A k \in Hold : hold[k] = "live" => Anchored(k)
    /\ \A j \in Job : job[j].task = "clear" /\ hold[job[j].hold] = "live" =>
          cookie["booking"] = job[j].hold \/ job[j].hold \in shadowed

\* Who is sure has what the cookie of the booking has.
SureSound ==
    /\ \A t \in Tab : tab[t].page = "payment" /\ tab[t].sure => tab[t].ctx = cookie["booking"]
    /\ \A j \in Job : job[j].task = "pay" /\ job[j].sure => job[j].hold = cookie["booking"]

\* An answer is for the page that asked.
ReadingSound(t) ==
    /\ reading[t] = NoReading \/ reading[t].kind \in Kind
    /\ reading[t].mounted =>
          tab[t].page = IF reading[t].kind = "checkout" THEN "checkout" ELSE "payment"

CheckoutInv ==
    /\ TypeOK
    /\ \A j \in Job : JobSound(j)
    /\ HoldsSound
    /\ SureSound
    /\ \A t \in Tab : ReadingSound(t)
    /\ BookingIsShown
==============================================================================
