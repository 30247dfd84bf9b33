------------------------------ MODULE SearchPage ------------------------------
(***************************************************************************)
(* The search page of the web application (app/search/_SearchClient.jsx).  *)
(* Several searches and a navigation may be in flight; the page is to show *)
(* what its user asked for last.                                           *)
(*                                                                         *)
(* A place is an origin, a destination and a date; an option is the order  *)
(* and the limits of the price.  Filters the browser applies to the list   *)
(* it has are left out.                                                    *)
(***************************************************************************)
EXTENDS Naturals

CONSTANTS
    Place, Option,
    Default,     \* the option of a new page
    Refused,     \* options whose least price exceeds the greatest
    Request,     \* slots for requests in flight (bound)
    MaxClicks,   \* clicks of the user (bound)
    None

OptionsTyped ==
    Default \in Option \ Refused /\ Refused \subseteq Option /\ None \notin Request

VARIABLES
    page,      \* the state of SearchClient
    request,   \* the doSearch or navigation in each slot
    clicks

vars == <<page, request, clicks>>

Asked == [place : Place, option : Option]

\* of: what the list answers; asked, stuck: for the properties, what the page was
\* asked for last, and whether it waits for nothing.
Page == [url : Place, form : Place, option : Option, shown : {"answer", "nothing"},
         of : Asked, asked : Asked, loading : BOOLEAN, latest : Request \cup {None},
         navigation : Request \cup {None}, stuck : BOOLEAN]

Pending == [from : {"search", "navigation"}, for : Asked]

TypeOK ==
    /\ page \in Page
    /\ request \in [Request -> Pending \cup {None}]
    /\ clicks \in 0..MaxClicks

\* The server renders a page with the answer for its address, or an error; its key
\* is the address, so that it starts afresh.
Rendered(place, shown) ==
    LET first == [place |-> place, option |-> Default]
    IN  [url |-> place, form |-> place, option |-> Default, shown |-> shown,
         of |-> first, asked |-> first, loading |-> FALSE, latest |-> None,
         navigation |-> None, stuck |-> FALSE]

Init ==
    /\ \E place \in Place, shown \in {"answer", "nothing"} : page = Rendered(place, shown)
    /\ request = [r \in Request |-> None]
    /\ clicks = 0

Counted == clicks < MaxClicks /\ clicks' = clicks + 1

Free(r) == request[r] = None

Send(r, from, for) == request' = [request EXCEPT ![r] = [from |-> from, for |-> for]]

Done(r) == request' = [request EXCEPT ![r] = None]

EditForm(place) ==
    /\ Counted
    /\ page' = [page EXCEPT !.form = place]
    /\ UNCHANGED request

\* doSearch: another order or price for the place in the form, or one of the dates
\* an empty answer suggests.
DoSearch(r, place, option) ==
    LET for == [place |-> place, option |-> option] IN
    /\ Counted
    /\ place # page.form => ~page.loading /\ page.shown = "answer"
    /\ IF option \in Refused
       THEN /\ page' = [page EXCEPT !.form = place, !.option = option, !.asked = for,
                          !.shown = "nothing", !.latest = None, !.loading = FALSE,
                          !.stuck = FALSE]
            /\ UNCHANGED request
       ELSE /\ Free(r)
            /\ Send(r, "search", for)
            /\ page' = [page EXCEPT !.form = place, !.option = option, !.asked = for,
                          !.latest = r, !.loading = TRUE, !.stuck = FALSE]

\* submit replaces the address, and the server renders the page for it.  A page
\* with the same address keeps its key and its state: nothing ends this loading
\* but another search.
Submit(r) ==
    /\ Counted
    /\ ~page.loading
    /\ IF page.form = page.url
       THEN /\ page' = [page EXCEPT !.loading = TRUE, !.navigation = None, !.stuck = TRUE]
            /\ UNCHANGED request
       ELSE /\ Free(r)
            /\ Send(r, "navigation", [place |-> page.form, option |-> Default])
            /\ page' = [page EXCEPT !.loading = TRUE, !.navigation = r, !.stuck = FALSE]

Answers(r, shown, p) ==
    [p EXCEPT !.shown = shown, !.of = request[r].for, !.latest = None, !.loading = FALSE]

\* Mutant form: whatever comes last is shown.
SearchAnsweredAny(r) ==
    /\ ~Free(r) /\ request[r].from = "search"
    /\ \E shown \in {"answer", "nothing"} : page' = Answers(r, shown, page)
    /\ Done(r)
    /\ UNCHANGED clicks

\* Mutant form: an error leaves the page loading.
SearchAnsweredNoFinally(r) ==
    /\ ~Free(r) /\ request[r].from = "search"
    /\ \E shown \in {"answer", "nothing"} :
          page' = IF page.latest = r
                  THEN [Answers(r, shown, page) EXCEPT !.loading = shown = "nothing"]
                  ELSE page
    /\ Done(r)
    /\ UNCHANGED clicks

\* The answer or the failure of a search: only the latest is listened to.
SearchAnswered(r) ==
    /\ ~Free(r) /\ request[r].from = "search"
    /\ \E shown \in {"answer", "nothing"} :
          page' = IF page.latest = r THEN Answers(r, shown, page) ELSE page
    /\ Done(r)
    /\ UNCHANGED clicks

\* The page that was navigated to arrives, unless another navigation overtook it.
Navigated(r) ==
    /\ ~Free(r) /\ request[r].from = "navigation"
    /\ \E shown \in {"answer", "nothing"} :
          page' = IF page.navigation = r THEN Rendered(request[r].for.place, shown) ELSE page
    /\ Done(r)
    /\ UNCHANGED clicks

Next ==
    \/ \E place \in Place : EditForm(place)
    \/ \E r \in Request :
          \/ \E place \in Place, option \in Option : DoSearch(r, place, option)
          \/ Submit(r) \/ SearchAnswered(r) \/ Navigated(r)

RequestEnds(r) == SearchAnswered(r) \/ Navigated(r)

\* Every request has a deadline.
Fairness == \A r \in Request : WF_vars(RequestEnds(r))

Spec == Init /\ [][Next]_vars /\ Fairness

------------------------------------------------------------------------------
(* Properties *)

\* What the page shows, once it is not loading, answers the last search or the
\* last page it was asked for, in whatever order their answers came.
LatestWins == ~page.loading /\ page.shown = "answer" => page.of = page.asked

\* The invariant behind it: the search that is listened to asks for what the page was
\* asked for last.
SearchInv ==
    /\ TypeOK
    /\ LatestWins
    /\ page.latest # None =>
          page.loading /\ request[page.latest] = [from |-> "search", for |-> page.asked]

\* The page stops loading, except after a submission that changed nothing:
\* Waiting ~> ~Waiting.
Waiting == page.loading /\ ~page.stuck
==============================================================================
