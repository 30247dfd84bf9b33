----------------------------- MODULE AdminSession -----------------------------
(***************************************************************************)
(* Who is signed in at the admin console: the layout of web/app/admin, its *)
(* login page and the routes api/auth/login, api/auth/session and          *)
(* api/graphql, which set and delete the session cookie in their answers.  *)
(*                                                                         *)
(* The layout outlives the pages: it asks for the session on every change  *)
(* of the path, does not cancel the question before, and signs out whoever *)
(* it is told is no administrator.  All tabs share the cookie, those of    *)
(* the customers' pages too.                                               *)
(***************************************************************************)
EXTENDS Naturals

CONSTANTS
    Request,     \* slots for requests in flight (bound)
    MaxClicks,   \* clicks, and what happens in other tabs (bound)
    None

VARIABLES
    session,   \* SESSION_COOKIE: the role in its token
    path,      \* usePathname(); "page" is an ADMIN's page
    user,      \* the layout's user
    loading,   \* the layout's loading
    request,
    owed,      \* for the properties: see Unthreatened
    clicks

vars == <<session, path, user, loading, request, owed, clicks>>

Staff == {"ADMIN", "STAFF"}

Session == Staff \cup {"CUSTOMER", "expired", None}

NoneIsNothing == None \notin Request \cup Staff \cup {"CUSTOMER", "expired"}

\* live: the page or layout that waits for the answer is still there.
Pending == [task : {"verify", "peek", "data", "login", "logout"}, token : Session,
            live : BOOLEAN]

TypeOK ==
    /\ session \in Session
    /\ path \in {"login", "bookings", "page"}
    /\ user \in Staff \cup {None}
    /\ loading \in BOOLEAN
    /\ request \in [Request -> Pending \cup {None}]
    /\ owed \in BOOLEAN
    /\ clicks \in 0..MaxClicks

Send(task) == [task |-> task, token |-> session, live |-> TRUE]

\* What the layout, or the login page, asks when it gets there.
Effect(p, token) ==
    [task |-> IF p = "login" THEN "peek" ELSE "verify", token |-> token, live |-> TRUE]

Init ==
    /\ session \in {None, "ADMIN", "STAFF", "CUSTOMER"}
    /\ path \in {"login", "bookings", "page"}
    /\ user = None
    /\ loading = (path # "login")
    /\ request = [r \in Request |->
                     IF r = CHOOSE x \in Request : TRUE THEN Effect(path, session) ELSE None]
    /\ owed = FALSE
    /\ clicks = 0

Counted == clicks < MaxClicks /\ clicks' = clicks + 1

Home(role) == IF role = "STAFF" THEN "bookings" ELSE "page"

End(r) == request' = [request EXCEPT ![r] = None]

\* router.push: another path runs the effects, with slot r for their request; the
\* login page that is left no longer listens.
Go(p, r, token) ==
    /\ path' = p
    /\ request' = [x \in Request |->
          IF x = r THEN IF p = path THEN None ELSE Effect(p, token)
          ELSE IF request[x] # None /\ request[x].task = "peek" /\ p # "login"
               THEN [request[x] EXCEPT !.live = FALSE] ELSE request[x]]

Carries(r, task) == request[r] # None /\ request[r].task = task

------------------------------------------------------------------------------
(* Clicks *)

\* The address is opened anew, in the same tab.
Load(p, r) ==
    /\ Counted
    /\ request[r] = None
    /\ path' = p
    /\ user' = None
    /\ loading' = (p # "login")
    /\ request' = [x \in Request |->
          IF x = r THEN Effect(p, session)
          ELSE IF request[x] # None THEN [request[x] EXCEPT !.live = FALSE] ELSE None]
    /\ UNCHANGED <<session, owed>>

Console == ~loading /\ path # "login"

\* A link of the menu
Follow(p, r) ==
    /\ Counted
    /\ Console
    /\ p \notin {path, "login"}
    /\ user = "STAFF" => p = "bookings"
    /\ request[r] = None
    /\ Go(p, r, session)
    /\ UNCHANGED <<session, user, loading, owed>>

\* The page below the layout queries the gateway.
QueryData(r) ==
    /\ Counted
    /\ Console
    /\ request[r] = None
    /\ request' = [request EXCEPT ![r] = Send("data")]
    /\ UNCHANGED <<session, path, user, loading, owed>>

\* handleLogout of the button
Logout(r) ==
    /\ Counted
    /\ Console
    /\ request[r] = None
    /\ request' = [request EXCEPT ![r] = Send("logout")]
    /\ owed' = FALSE
    /\ UNCHANGED <<session, path, user, loading>>

\* handleSubmit; the button is disabled while it runs.
Submit(r) ==
    /\ Counted
    /\ path = "login"
    /\ request[r] = None
    /\ ~\E x \in Request : Carries(x, "login") /\ request[x].live
    /\ request' = [request EXCEPT ![r] = Send("login")]
    /\ UNCHANGED <<session, path, user, loading, owed>>

------------------------------------------------------------------------------
(* Answers *)

\* For the properties: a session is to last that begins while no earlier request is
\* on its way but logins and the login page's question without a cookie.  Any other
\* may delete the new cookie: a logout does; a question with the token of an earlier
\* session does if that token expires before it is judged, valid as it still is.
Unthreatened(r) ==
    \A x \in Request \ {r} :
        \/ request[x] = None
        \/ request[x].task = "login"
        \/ request[x].task = "peek" /\ request[x].token = None

\* The routes delete the cookie that comes with an expired token, whatever the
\* browser keeps by then.
Judged(r) == session' = IF request[r].token = "expired" THEN None ELSE session

\* verifyToken: whoever is no administrator is signed out.
VerifyAnswered(r) ==
    /\ Carries(r, "verify")
    /\ Judged(r)
    /\ IF request[r].token \in Staff /\ request[r].live
       THEN user' = request[r].token /\ loading' = FALSE
       ELSE UNCHANGED <<user, loading>>
    /\ request' = [request EXCEPT ![r] =
          IF request[r].token \notin Staff /\ request[r].live
          THEN [task |-> "logout", token |-> session', live |-> TRUE] ELSE None]
    /\ UNCHANGED <<path, owed, clicks>>

\* Mutant form: whoever cannot be verified is signed out.
VerifyFailsLogout(r) ==
    /\ Carries(r, "verify")
    /\ request' = [request EXCEPT ![r] =
          IF request[r].live THEN [request[r] EXCEPT !.task = "logout"] ELSE None]
    /\ UNCHANGED <<session, path, user, loading, owed, clicks>>

\* The gateway is down or the deadline passes: nobody is signed out for that.
VerifyFails(r) ==
    /\ Carries(r, "verify")
    /\ End(r)
    /\ loading' = (loading /\ ~request[r].live)
    /\ UNCHANGED <<session, path, user, owed, clicks>>

\* DELETE api/auth/session, then the login page; when it fails nothing happens.
\* The user of the layout stays.
LogoutAnswered(r) ==
    /\ Carries(r, "logout")
    /\ \/ /\ session' = None
          /\ IF request[r].live THEN Go("login", r, None) ELSE End(r) /\ UNCHANGED path
       \/ End(r) /\ UNCHANGED <<session, path>>
    /\ loading' = (loading /\ ~request[r].live)
    /\ UNCHANGED <<user, owed, clicks>>

\* The login page sends those who are signed in on.
PeekAnswered(r) ==
    /\ Carries(r, "peek")
    /\ \/ /\ Judged(r)
          /\ IF request[r].token \in Staff /\ request[r].live
             THEN Go(Home(request[r].token), r, session')
             ELSE End(r) /\ UNCHANGED path
       \/ End(r) /\ UNCHANGED <<session, path>>
    /\ UNCHANGED <<user, loading, owed, clicks>>

\* api/graphql deletes the cookie when the gateway says UNAUTHORIZED: it does for
\* an expired token and for none.
DataAnswered(r) ==
    /\ Carries(r, "data")
    /\ \/ session' = IF request[r].token \in {"expired", None} THEN None ELSE session
       \/ UNCHANGED session
    /\ End(r)
    /\ UNCHANGED <<path, user, loading, owed, clicks>>

\* The cookie of an ADMIN or STAFF is set; another role, a wrong password or a
\* failure sets none.
LoginAnswered(r) ==
    /\ Carries(r, "login")
    /\ \/ \E role \in Staff :
             /\ session' = role
             /\ owed' = Unthreatened(r)
             /\ IF request[r].live THEN Go(Home(role), r, role) ELSE End(r) /\ UNCHANGED path
       \/ End(r) /\ UNCHANGED <<session, owed, path>>
    /\ UNCHANGED <<user, loading, clicks>>

Answered(r) ==
    \/ VerifyAnswered(r) \/ VerifyFails(r) \/ LogoutAnswered(r)
    \/ PeekAnswered(r) \/ DataAnswered(r) \/ LoginAnswered(r)

\* The layout sends STAFF to the bookings.
Redirect(r) ==
    /\ user = "STAFF" /\ path = "page"
    /\ request[r] = None
    /\ Go("bookings", r, session)
    /\ UNCHANGED <<session, user, loading, owed, clicks>>

------------------------------------------------------------------------------
\* Another tab signs in or out, at either portal.
Elsewhere(role) ==
    /\ Counted
    /\ session' = role
    /\ owed' = (role \in Staff /\ Unthreatened(None))
    /\ UNCHANGED <<path, user, loading, request>>

\* The token's time is over; for requests that are on their way it may be.
Expire(late) ==
    /\ session \in Staff \cup {"CUSTOMER"}
    /\ session' = "expired"
    /\ owed' = FALSE
    /\ \A r \in late : request[r] # None /\ request[r].token = session
    /\ request' = [r \in Request |->
          IF r \in late THEN [request[r] EXCEPT !.token = "expired"] ELSE request[r]]
    /\ UNCHANGED <<path, user, loading, clicks>>

Next ==
    \/ \E r \in Request :
          \/ \E p \in {"login", "bookings", "page"} : Load(p, r) \/ Follow(p, r)
          \/ QueryData(r) \/ Logout(r) \/ Submit(r) \/ Answered(r) \/ Redirect(r)
    \/ \E role \in Staff \cup {"CUSTOMER", None} : Elsewhere(role)
    \/ \E late \in SUBSET Request : Expire(late)

\* Every request has a deadline.
Fairness == \A r \in Request : WF_vars(Answered(r))

Spec == Init /\ [][Next]_vars /\ Fairness

------------------------------------------------------------------------------
(* Properties *)

\* Nobody is signed out who is an ADMIN or STAFF with a valid token and did not ask
\* for it, here or in another tab: not by services that fail, nor by anything the
\* console asks during the session.  Of what was asked before the session began and is
\* answered in it only a login, and a login page's question that carried no cookie,
\* are covered (see Unthreatened).
ValidSessionKept == owed => session \in Staff

\* The invariant behind it: while a session is to last, nothing in flight ends it.
\* A question carries a valid token, or none and comes from the login page.
Harmless(q) ==
    \/ q.task = "login"
    \/ q.task \in {"verify", "data"} /\ q.token \in Staff
    \/ q.task = "peek" /\ q.token \in Staff \cup {None}

SessionInv ==
    /\ TypeOK
    /\ owed => session \in Staff /\ \A r \in Request : request[r] = None \/ Harmless(request[r])

\* The layout does not stay with its spinner, whatever happens to its question:
\* Waiting ~> ~Waiting.
Waiting == loading
==============================================================================
