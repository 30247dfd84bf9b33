------------------------------- MODULE MCWebApp -------------------------------
(***************************************************************************)
(* The parts of the web application that share no state, checked in one    *)
(* run: a behaviour is one of a single part, and v1, ..., v10 stand for    *)
(* the variables of that part.                                             *)
(***************************************************************************)
EXTENDS Naturals

CONSTANTS
    Slots,      \* requests and handlers in flight (bound)
    Items, Holds, Options, Default, Refused, Words, Blank, Fields,
    Unborn, Deleted, None,
    CheckoutClicks, SearchClicks, CatalogClicks, ReportClicks, SessionClicks   \* bounds

VARIABLES part, v1, v2, v3, v4, v5, v6, v7, v8, v9, v10

vars == <<part, v1, v2, v3, v4, v5, v6, v7, v8, v9, v10>>

Checkout == INSTANCE CheckoutFlow WITH
    Tab <- Items, Hold <- Holds, Job <- Slots, MaxClicks <- CheckoutClicks,
    hold <- v1, booking <- v2, cookie <- v3, tab <- v4, reading <- v5, job <- v6,
    clicks <- v7, shadowed <- v8

Search == INSTANCE SearchPage WITH
    Place <- Items, Option <- Options, Default <- Default,
    Refused <- Refused, Request <- Slots, MaxClicks <- SearchClicks,
    page <- v1, request <- v2, clicks <- v3

Suggest == INSTANCE LocationInput WITH
    Word <- Words, Empty <- Blank, Lookup <- Slots,
    value <- v1, timer <- v2, latest <- v3, lookup <- v4, list <- v5

Catalog == INSTANCE CatalogPage WITH
    Item <- Items, Field <- Fields, Slot <- Slots, MaxClicks <- CatalogClicks,
    kind <- v1, row <- v2, list <- v3, page <- v4, work <- v5, touched <- v6, clicks <- v7,
    laid <- v8

Report == INSTANCE ReportPages WITH
    Entry <- Items, Query <- Slots, MaxClicks <- ReportClicks,
    kind <- v1, entry <- v2, shown <- v3, session <- v4, query <- v5, checkIn <- v6,
    loading <- v7, loaded <- v8, touched <- v9, clicks <- v10

Session == INSTANCE AdminSession WITH
    Request <- Slots, MaxClicks <- SessionClicks,
    session <- v1, path <- v2, user <- v3, loading <- v4, request <- v5, owed <- v6,
    clicks <- v7

ASSUME PartsTyped ==
    /\ Checkout!NoneIsNoHold /\ Search!OptionsTyped
    /\ Suggest!EmptyIsAWord /\ Catalog!RowsAreTold /\ Report!NoneIsNothing
    /\ Session!NoneIsNothing

ASSUME ClicksCounted ==
    {CheckoutClicks, SearchClicks, CatalogClicks, ReportClicks, SessionClicks} \subseteq Nat

Unused3 == v8 = None /\ v9 = None /\ v10 = None

Init ==
    \/ part = "checkout" /\ Checkout!Init /\ v9 = None /\ v10 = None
    \/ /\ part = "search" /\ Search!Init
       /\ v4 = None /\ v5 = None /\ v6 = None /\ v7 = None /\ Unused3
    \/ part = "suggest" /\ Suggest!Init /\ v6 = None /\ v7 = None /\ Unused3
    \/ part = "catalog" /\ Catalog!Init /\ v9 = None /\ v10 = None
    \/ part = "report" /\ Report!Init
    \/ part = "session" /\ Session!Init /\ Unused3

Next ==
    /\ UNCHANGED part
    /\ \/ part = "checkout" /\ Checkout!Next /\ UNCHANGED <<v9, v10>>
       \/ part = "search" /\ Search!Next /\ UNCHANGED <<v4, v5, v6, v7, v8, v9, v10>>
       \/ part = "suggest" /\ Suggest!Next /\ UNCHANGED <<v6, v7, v8, v9, v10>>
       \/ part = "catalog" /\ Catalog!Next /\ UNCHANGED <<v9, v10>>
       \/ part = "report" /\ Report!Next
       \/ part = "session" /\ Session!Next /\ UNCHANGED <<v8, v9, v10>>

\* What the fairness of the parts is about: a request ends.
RequestEnds(r) ==
    \/ part = "search" /\ Search!RequestEnds(r) /\ UNCHANGED <<part, v4, v5, v6, v7, v8, v9, v10>>
    \/ part = "catalog" /\ Catalog!RequestEnds(r) /\ UNCHANGED <<part, v9, v10>>
    \/ part = "report" /\ Report!QueryEnds(r) /\ UNCHANGED part
    \/ part = "session" /\ Session!Answered(r) /\ UNCHANGED <<part, v8, v9, v10>>

Fairness ==
    /\ \A r \in Slots : WF_vars(RequestEnds(r))
    /\ WF_vars(part = "report" /\ Report!CheckInEnds /\ UNCHANGED part)

Spec == Init /\ [][Next]_vars /\ Fairness

------------------------------------------------------------------------------
(* Properties of the parts *)

\* Every variable of a part has its type; the layout of the console has no user but
\* an ADMIN or STAFF.
TypeOK ==
    CASE part = "checkout" -> Checkout!TypeOK
      [] part = "search" -> Search!TypeOK
      [] part = "suggest" -> Suggest!TypeOK
      [] part = "catalog" -> Catalog!TypeOK
      [] part = "report" -> Report!TypeOK
      [] part = "session" -> Session!TypeOK

\* Through any failure and navigation a cookie, a page or a running handler leads
\* from seats that are held to their payment.
WithinReach == part = "checkout" => Checkout!WithinReach

\* Whoever has paid, or looks up a booking, is shown that booking.
BookingIsShown == part = "checkout" => Checkout!BookingIsShown

\* Each page shows what was found last, in whatever order requests answer: the
\* search page what it was asked last, a field the suggestions for its text, the lists
\* and dialogs of the console their tables and rows, but for what others changed since.
PagesTrue ==
    /\ TypeOK
    /\ CASE part = "search" -> Search!LatestWins
         [] part = "suggest" -> Suggest!SuggestionsMatch
         [] part = "catalog" -> Catalog!ListTrue /\ Catalog!DialogShowsItsOwn
         [] part = "report" -> Report!ReportTrue
         [] OTHER -> TRUE

\* Nobody is signed out who has a valid session and did not ask for it, by anything
\* that fails or is asked during that session.
ValidSessionKept == part = "session" => Session!ValidSessionKept

\* A save from an old form changes neither the status of a trip nor the number of seats
\* of a layout, and brings back no row that was deleted.  All else it overwrites.
EditsUndoNothing ==
    [][part = "catalog" => Catalog!StateStands /\ Catalog!DeletionStands]_vars

Waiting ==
    \/ part = "search" /\ Search!Waiting
    \/ part = "catalog" /\ Catalog!Waiting
    \/ part = "report" /\ Report!Waiting
    \/ part = "session" /\ Session!Waiting

\* What has a spinner stops, whatever happens to its requests: search, the pages of
\* the console and its layout.
SpinnersStop == Waiting ~> ~Waiting
==============================================================================
