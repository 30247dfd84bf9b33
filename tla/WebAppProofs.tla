------------------------------ MODULE WebAppProofs -----------------------------
(***************************************************************************)
(* Proofs about the web application, for the union that MCWebApp checks:   *)
(* for any tabs, holds, requests in flight, rows of the catalog and of the *)
(* reports, any options of a search and words of a location field, and any *)
(* number of clicks.                                                       *)
(*                                                                         *)
(* Each part has its invariant, named in its module; its lemmas show that  *)
(* the part begins with it and that each of its steps keeps it.  The       *)
(* theorems at the end put the parts together.                             *)
(***************************************************************************)
EXTENDS MCWebApp, TLAPS

------------------------------------------------------------------------------
(* The session: v1 session, v2 path, v3 user, v4 loading, v5 request, v6 owed. *)

\* What the layout or the login page asks carries the token it is given.
LEMMA EffectTyped ==
    ASSUME NEW p, NEW token \in Session!Session
    PROVE  /\ Session!Effect(p, token) \in Session!Pending
           /\ token \in Session!Staff => Session!Harmless(Session!Effect(p, token))
BY DEF Session!Effect, Session!Pending, Session!Harmless

LEMMA SessionInitially == Session!Init => Session!SessionInv
<1> SUFFICES ASSUME Session!Init PROVE Session!SessionInv
    OBVIOUS
<1>1. v5 \in [Slots -> Session!Pending \cup {None}]
  <2>1. Session!Effect(v2, v1) \in Session!Pending
        BY EffectTyped DEF Session!Init, Session!Session, Session!Staff
  <2> QED BY <2>1 DEF Session!Init
<1>2. v4 \in BOOLEAN /\ v6 = FALSE
      BY DEF Session!Init
<1>3. v7 \in 0..SessionClicks
      BY ClicksCounted DEF Session!Init
<1>4. v1 \in Session!Session /\ v2 \in {"login", "bookings", "page"} /\ v3 = None
      BY DEF Session!Init, Session!Session, Session!Staff
<1> QED BY <1>1, <1>2, <1>3, <1>4 DEF Session!SessionInv, Session!TypeOK

\* A navigation sends one question, with the token of the cookie.
LEMMA GoKeeps ==
    ASSUME Session!TypeOK, NEW p, NEW r \in Slots, NEW token \in Session!Session,
           Session!Go(p, r, token)
    PROVE  /\ v5' \in [Slots -> Session!Pending \cup {None}]
           /\ token \in Session!Staff => v5'[r] = None \/ Session!Harmless(v5'[r])
           /\ \A x \in Slots \ {r} : v5[x] = None \/ Session!Harmless(v5[x])
                                   => v5'[x] = None \/ Session!Harmless(v5'[x])
<1>1. \A x \in Slots : v5'[x] \in Session!Pending \cup {None}
  <2> TAKE x \in Slots
  <2>1. CASE x = r
        BY <2>1, EffectTyped DEF Session!Go
  <2>2. CASE x # r
        BY <2>2 DEF Session!Go, Session!TypeOK, Session!Pending
  <2> QED BY <2>1, <2>2
<1>2. v5' \in [Slots -> Session!Pending \cup {None}]
      BY <1>1 DEF Session!Go
<1>3. token \in Session!Staff => v5'[r] = None \/ Session!Harmless(v5'[r])
      BY EffectTyped DEF Session!Go
<1>4. \A x \in Slots \ {r} : v5[x] = None \/ Session!Harmless(v5[x])
                                   => v5'[x] = None \/ Session!Harmless(v5'[x])
      BY DEF Session!Go, Session!Harmless, Session!TypeOK, Session!Pending
<1> QED BY <1>2, <1>3, <1>4

\* Slot r gets another request, or none.
LEMMA Replaced ==
    ASSUME Session!TypeOK, NEW r \in Slots, NEW q \in Session!Pending \cup {None},
           v5' = [v5 EXCEPT ![r] = q]
    PROVE  /\ v5' \in [Slots -> Session!Pending \cup {None}]
           /\ v5'[r] = q
           /\ \A x \in Slots \ {r} : v5'[x] = v5[x]
BY DEF Session!TypeOK

\* What is left to show of a step: types but those of the requests and the rest, and
\* that a session to last lasts.
LEMMA SessionKept ==
    ASSUME Session!SessionInv,
           v5' \in [Slots -> Session!Pending \cup {None}],
           v1' \in Session!Session, v2' \in {"login", "bookings", "page"},
           v3' \in Session!Staff \cup {None}, v4' \in BOOLEAN, v6' \in BOOLEAN,
           v7' = v7 \/ Session!Counted,
           v6' => v1' \in Session!Staff,
           v6' => \A x \in Slots : v5'[x] = None \/ Session!Harmless(v5'[x])
    PROVE  Session!SessionInv'
<1>1. v7' \in 0..SessionClicks
      BY ClicksCounted DEF Session!SessionInv, Session!TypeOK, Session!Counted
<1>2. Session!TypeOK'
      BY <1>1 DEF Session!TypeOK
<1>3. v6' => \A x \in Slots : (v5[x] = None \/ Session!Harmless(v5[x]))'
      BY DEF Session!Harmless
<1> QED BY <1>2, <1>3 DEF Session!SessionInv

\* The clicks that send one request.
LEMMA SendKeeps ==
    ASSUME Session!SessionInv, NEW r \in Slots, v5[r] = None,
           NEW task \in {"data", "logout", "login"},
           v5' = [v5 EXCEPT ![r] = Session!Send(task)],
           UNCHANGED <<v1, v2, v3, v4>>, v7' = v7 \/ Session!Counted,
           v6' = FALSE \/ (v6' = v6 /\ task # "logout")
    PROVE  Session!SessionInv'
<1> DEFINE q == Session!Send(task)
<1>1. q \in Session!Pending
      BY DEF Session!Send, Session!Pending, Session!SessionInv, Session!TypeOK
<1>2. v1 \in Session!Staff /\ task # "logout" => Session!Harmless(q)
      BY DEF Session!Send, Session!Harmless
<1> HIDE DEF q
<1>3. /\ v5' \in [Slots -> Session!Pending \cup {None}]
      /\ v5'[r] = q
      /\ \A x \in Slots \ {r} : v5'[x] = v5[x]
  <2>1. v5' = [v5 EXCEPT ![r] = q]
        BY DEF q
  <2> QED BY <1>1, <2>1, Replaced DEF Session!SessionInv
<1>4. v6' => \A x \in Slots : v5'[x] = None \/ Session!Harmless(v5'[x])
      BY <1>2, <1>3 DEF Session!SessionInv
<1>5. /\ v6 \in BOOLEAN
      /\ v1 \in Session!Session /\ v2 \in {"login", "bookings", "page"}
      /\ v3 \in Session!Staff \cup {None} /\ v4 \in BOOLEAN
      /\ v6 => v1 \in Session!Staff
      BY DEF Session!SessionInv, Session!TypeOK
<1>6. v6' \in BOOLEAN /\ (v6' => v6)
  <2>1. CASE v6' = FALSE
        BY <2>1
  <2>2. CASE v6' = v6
        BY <1>5, <2>2
  <2> QED BY <2>1, <2>2
<1> QED BY <1>3, <1>4, <1>5, <1>6, SessionKept

LEMMA SessionAnswerKeeps ==
    ASSUME Session!SessionInv, NEW r \in Slots, Session!Answered(r)
    PROVE  Session!SessionInv'
<1> USE DEF Session!Carries
<1>1. /\ v5[r] = None \/ v5[r] \in Session!Pending
      /\ Session!TypeOK
      /\ v6 => v1 \in Session!Staff /\ \A x \in Slots : v5[x] = None \/ Session!Harmless(v5[x])
      BY DEF Session!SessionInv, Session!TypeOK
<1>2. CASE Session!VerifyAnswered(r)
  <2>1. PICK q \in Session!Pending \cup {None} :
           /\ v5' = [v5 EXCEPT ![r] = q]
           /\ v5[r].token \in Session!Staff => q = None
    <3>1. [task |-> "logout", token |-> v1', live |-> TRUE] \in Session!Pending
          BY <1>1, <1>2
          DEF Session!VerifyAnswered, Session!Judged, Session!Pending, Session!TypeOK, Session!Session
    <3> QED BY <1>2, <3>1 DEF Session!VerifyAnswered
  <2>2. /\ v5' \in [Slots -> Session!Pending \cup {None}]
        /\ v5'[r] = q
        /\ \A x \in Slots \ {r} : v5'[x] = v5[x]
        BY <1>1, <2>1, Replaced
  <2>3. v6 => v5[r].token \in Session!Staff
        BY <1>1, <1>2 DEF Session!VerifyAnswered, Session!Harmless
  <2>4. /\ v1' \in Session!Session /\ v2' = v2 /\ v6' = v6 /\ v7' = v7
        /\ v3' \in Session!Staff \cup {None} /\ v4' \in BOOLEAN
        /\ v6' => v1' = v1
        BY <1>1, <1>2, <2>3
        DEF Session!VerifyAnswered, Session!Judged, Session!TypeOK, Session!Session, Session!Staff
  <2> QED BY <1>1, <2>1, <2>2, <2>3, <2>4, SessionKept DEF Session!TypeOK
<1>3. CASE Session!VerifyFails(r)
  <2>1. /\ v5' \in [Slots -> Session!Pending \cup {None}]
        /\ v5'[r] = None
        /\ \A x \in Slots \ {r} : v5'[x] = v5[x]
        BY <1>1, <1>3, Replaced DEF Session!VerifyFails, Session!End
  <2>2. /\ UNCHANGED <<v1, v2, v3, v6, v7>> /\ v4' \in BOOLEAN
        BY <1>3 DEF Session!VerifyFails
  <2> QED BY <1>1, <2>1, <2>2, SessionKept DEF Session!TypeOK
<1>4. CASE Session!LogoutAnswered(r)
  <2>1. ~v6
        BY <1>1, <1>4 DEF Session!LogoutAnswered, Session!Harmless
  <2>2. /\ v5' \in [Slots -> Session!Pending \cup {None}]
        /\ v2' \in {"login", "bookings", "page"}
    <3>1. CASE Session!Go("login", r, None)
          BY <1>1, <3>1, GoKeeps DEF Session!Go, Session!Session
    <3>2. CASE Session!End(r) /\ v2' = v2
          BY <1>1, <3>2 DEF Session!TypeOK, Session!End
    <3> QED BY <1>4, <3>1, <3>2 DEF Session!LogoutAnswered
  <2>3. v1' \in Session!Session /\ UNCHANGED <<v3, v6, v7>> /\ v4' \in BOOLEAN
        BY <1>1, <1>4 DEF Session!LogoutAnswered, Session!TypeOK, Session!Session
  <2> QED BY <1>1, <2>1, <2>2, <2>3, SessionKept DEF Session!TypeOK
<1>5. CASE Session!PeekAnswered(r)
  <2>1. v1' \in Session!Session /\ UNCHANGED <<v3, v4, v6, v7>>
        BY <1>1, <1>5 DEF Session!PeekAnswered, Session!Judged, Session!TypeOK, Session!Session
  <2>2. v6 => v1' = v1
        BY <1>1, <1>5, PartsTyped
        DEF Session!PeekAnswered, Session!Judged, Session!Harmless, Session!Staff, Session!NoneIsNothing
  <2>3. ASSUME NEW p, Session!Go(p, r, v1')
        PROVE  /\ v5' \in [Slots -> Session!Pending \cup {None}]
               /\ v6' => \A x \in Slots : v5'[x] = None \/ Session!Harmless(v5'[x])
    <3>1. PICK token \in Session!Session : token = v1' /\ Session!Go(p, r, token)
          BY <2>1, <2>3
    <3> QED BY <1>1, <2>1, <2>2, <3>1, GoKeeps
  <2>4. ASSUME Session!End(r)
        PROVE  /\ v5' \in [Slots -> Session!Pending \cup {None}]
               /\ v6' => \A x \in Slots : v5'[x] = None \/ Session!Harmless(v5'[x])
        BY <1>1, <2>1, <2>4, Replaced DEF Session!End
  <2>5. v2' \in {"login", "bookings", "page"}
        BY <1>1, <1>5 DEF Session!PeekAnswered, Session!Go, Session!Home, Session!TypeOK
  <2>6. (\E p : Session!Go(p, r, v1')) \/ Session!End(r)
        BY <1>5 DEF Session!PeekAnswered
  <2> QED BY <1>1, <2>1, <2>2, <2>3, <2>4, <2>5, <2>6, SessionKept DEF Session!TypeOK
<1>6. CASE Session!DataAnswered(r)
  <2>1. /\ v5' \in [Slots -> Session!Pending \cup {None}]
        /\ v5'[r] = None
        /\ \A x \in Slots \ {r} : v5'[x] = v5[x]
        BY <1>1, <1>6, Replaced DEF Session!DataAnswered, Session!End
  <2>2. v1' \in Session!Session /\ UNCHANGED <<v2, v3, v4, v6, v7>>
        BY <1>1, <1>6 DEF Session!DataAnswered, Session!TypeOK, Session!Session
  <2>3. v6 => v1' = v1
        BY <1>1, <1>6, PartsTyped
        DEF Session!DataAnswered, Session!Harmless, Session!Staff, Session!NoneIsNothing
  <2> QED BY <1>1, <2>1, <2>2, <2>3, SessionKept DEF Session!TypeOK
<1>7. CASE Session!LoginAnswered(r)
  <2>1. CASE Session!End(r) /\ UNCHANGED <<v1, v6, v2>>
    <3>1. /\ v5' \in [Slots -> Session!Pending \cup {None}]
          /\ v5'[r] = None
          /\ \A x \in Slots \ {r} : v5'[x] = v5[x]
          BY <1>1, <2>1, Replaced DEF Session!End
    <3>2. UNCHANGED <<v3, v4, v7>>
          BY <1>7 DEF Session!LoginAnswered
    <3> QED BY <1>1, <2>1, <3>1, <3>2, SessionKept DEF Session!TypeOK
  <2>2. ASSUME NEW role \in Session!Staff, v1' = role, v6' = Session!Unthreatened(r),
               IF v5[r].live THEN Session!Go(Session!Home(role), r, role)
               ELSE Session!End(r) /\ UNCHANGED v2
        PROVE  Session!SessionInv'
    <3>1. role \in Session!Session
          BY DEF Session!Session
    <3>2. \A x \in Slots \ {r} : v6' => v5[x] = None \/ Session!Harmless(v5[x])
          BY <2>2 DEF Session!Unthreatened, Session!Harmless
    <3>3. /\ v5' \in [Slots -> Session!Pending \cup {None}]
          /\ v6' => \A x \in Slots : v5'[x] = None \/ Session!Harmless(v5'[x])
      <4>1. CASE v5[r].live
            BY <1>1, <2>2, <3>1, <3>2, <4>1, GoKeeps
      <4>2. CASE ~v5[r].live
            BY <1>1, <2>2, <3>2, <4>2, Replaced DEF Session!End
      <4> QED BY <4>1, <4>2
    <3>4. v2' \in {"login", "bookings", "page"} /\ v6' \in BOOLEAN
          BY <1>1, <2>2 DEF Session!Go, Session!Home, Session!TypeOK, Session!Unthreatened
    <3>5. UNCHANGED <<v3, v4, v7>>
          BY <1>7 DEF Session!LoginAnswered
    <3> QED BY <1>1, <2>2, <3>1, <3>3, <3>4, <3>5, SessionKept DEF Session!TypeOK
  <2> QED BY <1>7, <2>1, <2>2 DEF Session!LoginAnswered
<1> QED BY <1>2, <1>3, <1>4, <1>5, <1>6, <1>7 DEF Session!Answered

LEMMA SessionStep ==
    ASSUME Session!SessionInv, Session!Next
    PROVE  Session!SessionInv'
<1>1. /\ Session!TypeOK
      /\ v6 => v1 \in Session!Staff /\ \A x \in Slots : v5[x] = None \/ Session!Harmless(v5[x])
      BY DEF Session!SessionInv
<1>2. /\ v1 \in Session!Session /\ v2 \in {"login", "bookings", "page"}
      /\ v3 \in Session!Staff \cup {None} /\ v4 \in BOOLEAN /\ v6 \in BOOLEAN
      /\ v5 \in [Slots -> Session!Pending \cup {None}]
      BY <1>1 DEF Session!TypeOK
<1>3. ASSUME NEW r \in Slots, NEW p \in {"login", "bookings", "page"}, Session!Load(p, r)
      PROVE  Session!SessionInv'
  <2>1. /\ Session!Effect(p, v1) \in Session!Pending
        /\ v6 => Session!Harmless(Session!Effect(p, v1))
        BY <1>1, <1>2, EffectTyped
  <2>2. /\ v5'[r] = Session!Effect(p, v1)
        /\ \A x \in Slots \ {r} :
              v5'[x] = IF v5[x] # None THEN [v5[x] EXCEPT !.live = FALSE] ELSE None
        BY <1>2, <1>3 DEF Session!Load
  <2>3. ASSUME NEW x \in Slots
        PROVE  /\ v5'[x] \in Session!Pending \cup {None}
               /\ v6 => v5'[x] = None \/ Session!Harmless(v5'[x])
    <3>1. CASE x = r
          BY <2>1, <2>2, <3>1
    <3>2. CASE x # r
          BY <1>1, <1>2, <2>2, <3>2 DEF Session!Pending, Session!Harmless
    <3> QED BY <3>1, <3>2
  <2>4. v5' \in [Slots -> Session!Pending \cup {None}]
        BY <1>3, <2>3 DEF Session!Load
  <2>5. v1' = v1 /\ v2' = p /\ v3' = None /\ v4' \in BOOLEAN /\ v6' = v6 /\ Session!Counted
        BY <1>3 DEF Session!Load
  <2> QED BY <1>1, <1>2, <2>3, <2>4, <2>5, SessionKept
<1>4. ASSUME NEW r \in Slots, NEW p \in {"login", "bookings", "page"},
             Session!Go(p, r, v1), UNCHANGED <<v1, v3, v4, v6>>, v7' = v7 \/ Session!Counted
      PROVE  Session!SessionInv'
  <2>1. /\ v5' \in [Slots -> Session!Pending \cup {None}]
        /\ v6 => \A x \in Slots : v5'[x] = None \/ Session!Harmless(v5'[x])
        BY <1>1, <1>2, <1>4, GoKeeps
  <2>2. v2' = p
        BY <1>4 DEF Session!Go
  <2> QED BY <1>1, <1>2, <1>4, <2>1, <2>2, SessionKept
<1>5. ASSUME NEW r \in Slots, NEW p \in {"login", "bookings", "page"}, Session!Follow(p, r)
      PROVE  Session!SessionInv'
      BY <1>4, <1>5 DEF Session!Follow
<1>6. ASSUME NEW r \in Slots, Session!Redirect(r) PROVE Session!SessionInv'
      BY <1>4, <1>6 DEF Session!Redirect
<1>7. ASSUME NEW r \in Slots, Session!QueryData(r) PROVE Session!SessionInv'
      BY <1>7, SendKeeps DEF Session!QueryData
<1>8. ASSUME NEW r \in Slots, Session!Logout(r) PROVE Session!SessionInv'
  <2>1. /\ v5[r] = None /\ v5' = [v5 EXCEPT ![r] = Session!Send("logout")]
        /\ UNCHANGED <<v1, v2, v3, v4>> /\ v6' = FALSE /\ Session!Counted
        BY <1>8 DEF Session!Logout
  <2> QED BY <2>1, SendKeeps
<1>9. ASSUME NEW r \in Slots, Session!Submit(r) PROVE Session!SessionInv'
      BY <1>9, SendKeeps DEF Session!Submit
<1>10. ASSUME NEW role \in Session!Staff \cup {"CUSTOMER", None}, Session!Elsewhere(role)
       PROVE  Session!SessionInv'
  <2>1. /\ v6' \in BOOLEAN
        /\ v6' => role \in Session!Staff /\ Session!Unthreatened(None)
        BY <1>10 DEF Session!Elsewhere, Session!Unthreatened
  <2>2. v6' => \A x \in Slots : v5[x] = None \/ Session!Harmless(v5[x])
        BY <2>1, PartsTyped DEF Session!Unthreatened, Session!Harmless, Session!NoneIsNothing
  <2>3. v1' = role /\ UNCHANGED <<v2, v3, v4, v5>> /\ Session!Counted
        BY <1>10 DEF Session!Elsewhere
  <2>4. role \in Session!Session
        BY DEF Session!Session
  <2> QED BY <1>2, <2>1, <2>2, <2>3, <2>4, SessionKept
<1>11. ASSUME NEW late \in SUBSET Slots, Session!Expire(late) PROVE Session!SessionInv'
  <2>1. v5' \in [Slots -> Session!Pending \cup {None}]
        BY <1>2, <1>11 DEF Session!Expire, Session!Pending, Session!Session
  <2>2. v1' = "expired" /\ v6' = FALSE /\ UNCHANGED <<v2, v3, v4, v7>>
        BY <1>11 DEF Session!Expire
  <2> QED BY <1>2, <2>1, <2>2, SessionKept DEF Session!Session
<1> QED BY <1>3, <1>5, <1>6, <1>7, <1>8, <1>9, <1>10, <1>11, SessionAnswerKeeps DEF Session!Next

------------------------------------------------------------------------------
(* The search page: v1 page, v2 request. *)

LEMMA RenderedSound ==
    ASSUME NEW place \in Items, NEW shown \in {"answer", "nothing"}
    PROVE  /\ Search!Rendered(place, shown) \in Search!Page
           /\ Search!Rendered(place, shown).latest = None
           /\ Search!Rendered(place, shown).of = Search!Rendered(place, shown).asked
BY PartsTyped DEF Search!Rendered, Search!Page, Search!Asked, Search!OptionsTyped

\* What the latest search relies on.
Listening(page, request) ==
    /\ ~page.loading /\ page.shown = "answer" => page.of = page.asked
    /\ page.latest # None =>
          page.loading /\ request[page.latest] = [from |-> "search", for |-> page.asked]

LEMMA SearchKept ==
    ASSUME v1' \in Search!Page, v2' \in [Slots -> Search!Pending \cup {None}],
           v3' = v3 \/ Search!Counted, v3 \in 0..SearchClicks, Listening(v1', v2')
    PROVE  Search!SearchInv'
<1>1. v3' \in 0..SearchClicks
      BY ClicksCounted DEF Search!Counted
<1> QED BY <1>1 DEF Search!SearchInv, Search!TypeOK, Search!LatestWins, Listening

LEMMA SearchInitially == Search!Init => Search!SearchInv
<1> SUFFICES ASSUME Search!Init PROVE Search!SearchInv
    OBVIOUS
<1>1. v1 \in Search!Page /\ v1.latest = None /\ v1.of = v1.asked
      BY RenderedSound DEF Search!Init
<1>2. v2 \in [Slots -> Search!Pending \cup {None}] /\ v3 \in 0..SearchClicks
      BY ClicksCounted DEF Search!Init
<1> QED BY <1>1, <1>2 DEF Search!SearchInv, Search!TypeOK, Search!LatestWins

LEMMA SearchStep ==
    ASSUME Search!SearchInv, Search!Next
    PROVE  Search!SearchInv'
<1>1. /\ v1 \in Search!Page
      /\ v2 \in [Slots -> Search!Pending \cup {None}]
      /\ v3 \in 0..SearchClicks
      /\ Listening(v1, v2)
      /\ None \notin Slots
      BY PartsTyped DEF Search!SearchInv, Search!TypeOK, Search!LatestWins, Search!OptionsTyped, Listening
<1>2. ASSUME NEW place \in Items, Search!EditForm(place) PROVE Search!SearchInv'
  <2>1. /\ v1' \in Search!Page /\ v2' = v2 /\ (v3' = v3 \/ Search!Counted)
        /\ v1'.latest = v1.latest /\ v1'.loading = v1.loading
        /\ v1'.shown = v1.shown /\ v1'.of = v1.of /\ v1'.asked = v1.asked
        BY <1>1, <1>2 DEF Search!EditForm, Search!Page
  <2> QED BY <1>1, <2>1, SearchKept DEF Listening
<1>3. ASSUME NEW r \in Slots, NEW place \in Items, NEW option \in Options,
             Search!DoSearch(r, place, option)
      PROVE  Search!SearchInv'
  <2> DEFINE for == [place |-> place, option |-> option]
  <2>1. for \in Search!Asked
        BY DEF Search!Asked
  <2>2. CASE option \in Refused
    <3> HIDE DEF for
    <3>1. /\ v1' = [v1 EXCEPT !.form = place, !.option = option, !.asked = for,
                              !.shown = "nothing", !.latest = None, !.loading = FALSE,
                              !.stuck = FALSE]
          /\ v2' = v2
          /\ Search!Counted
          BY <1>3, <2>2 DEF Search!DoSearch, for
    <3>2. v1' \in Search!Page /\ v1'.latest = None /\ v1'.shown = "nothing"
          BY <1>1, <2>1, <3>1 DEF Search!Page
    <3> QED BY <1>1, <3>1, <3>2, SearchKept DEF Listening
  <2>3. CASE option \notin Refused
    <3> HIDE DEF for
    <3>1. /\ v1' = [v1 EXCEPT !.form = place, !.option = option, !.asked = for,
                              !.latest = r, !.loading = TRUE, !.stuck = FALSE]
          /\ v2' = [v2 EXCEPT ![r] = [from |-> "search", for |-> for]]
          /\ Search!Counted
          BY <1>3, <2>3 DEF Search!DoSearch, Search!Send, for
    <3>2. v1' \in Search!Page /\ v1'.latest = r /\ v1'.loading = TRUE /\ v1'.asked = for
          BY <1>1, <2>1, <3>1 DEF Search!Page
    <3>3. v2' \in [Slots -> Search!Pending \cup {None}] /\ v2'[r] = [from |-> "search", for |-> for]
          BY <1>1, <2>1, <3>1 DEF Search!Pending
    <3> QED BY <1>1, <3>1, <3>2, <3>3, SearchKept DEF Listening
  <2> QED BY <2>2, <2>3
<1>4. ASSUME NEW r \in Slots, Search!Submit(r) PROVE Search!SearchInv'
  <2>1. v1.latest = None
        BY <1>1, <1>4 DEF Search!Submit, Listening
  <2>2. v1' \in Search!Page /\ v1'.latest = None /\ v1'.loading = TRUE
    <3>1. CASE v1' = [v1 EXCEPT !.loading = TRUE, !.navigation = None, !.stuck = TRUE]
          BY <1>1, <2>1, <3>1 DEF Search!Page
    <3>2. CASE v1' = [v1 EXCEPT !.loading = TRUE, !.navigation = r, !.stuck = FALSE]
          BY <1>1, <2>1, <3>2 DEF Search!Page
    <3> QED BY <1>4, <3>1, <3>2 DEF Search!Submit
  <2>3. v2' \in [Slots -> Search!Pending \cup {None}] /\ Search!Counted
    <3>1. [place |-> v1.form, option |-> Default] \in Search!Asked
          BY <1>1, PartsTyped DEF Search!Page, Search!Asked, Search!OptionsTyped
    <3> QED BY <1>1, <1>4, <3>1 DEF Search!Submit, Search!Send, Search!Pending
  <2> QED BY <1>1, <2>2, <2>3, SearchKept DEF Listening
<1>5. ASSUME NEW r \in Slots, Search!SearchAnswered(r) PROVE Search!SearchInv'
  <2>1. v2' \in [Slots -> Search!Pending \cup {None}] /\ v3' = v3
        /\ \A x \in Slots \ {r} : v2'[x] = v2[x]
        BY <1>1, <1>5 DEF Search!SearchAnswered, Search!Done
  <2>2. CASE v1.latest # r
    <3>1. v1' = v1
          BY <1>5, <2>2 DEF Search!SearchAnswered
    <3>2. v1.latest # None => v1.latest \in Slots \ {r}
          BY <1>1, <2>2 DEF Search!Page
    <3> QED BY <1>1, <2>1, <3>1, <3>2, SearchKept DEF Listening
  <2>3. CASE v1.latest = r
    <3>1. v2[r].for = v1.asked /\ v1.asked \in Search!Asked
          BY <1>1, <2>3 DEF Listening, Search!Page
    <3>2. PICK shown \in {"answer", "nothing"} : v1' = Search!Answers(r, shown, v1)
          BY <1>5, <2>3 DEF Search!SearchAnswered
    <3>3. v1' \in Search!Page /\ v1'.latest = None /\ v1'.of = v1'.asked
          BY <1>1, <3>1, <3>2 DEF Search!Answers, Search!Page
    <3> QED BY <1>1, <2>1, <3>3, SearchKept DEF Listening
  <2> QED BY <2>2, <2>3
<1>6. ASSUME NEW r \in Slots, Search!Navigated(r) PROVE Search!SearchInv'
  <2>1. /\ v2' \in [Slots -> Search!Pending \cup {None}] /\ v3' = v3
        /\ \A x \in Slots \ {r} : v2'[x] = v2[x]
        /\ v2[r] \in Search!Pending /\ v2[r].from = "navigation"
        BY <1>1, <1>6 DEF Search!Navigated, Search!Done, Search!Free
  <2>2. CASE v1' = v1
    <3>1. v1.latest # None => v1.latest \in Slots \ {r}
          BY <1>1, <2>1 DEF Search!Page, Listening
    <3> QED BY <1>1, <2>1, <2>2, <3>1, SearchKept DEF Listening
  <2>3. CASE \E shown \in {"answer", "nothing"} : v1' = Search!Rendered(v2[r].for.place, shown)
    <3>1. v2[r].for.place \in Items
          BY <2>1 DEF Search!Pending, Search!Asked
    <3>2. v1' \in Search!Page /\ v1'.latest = None /\ v1'.of = v1'.asked
          BY <2>3, <3>1, RenderedSound
    <3> QED BY <1>1, <2>1, <3>2, SearchKept DEF Listening
  <2> QED BY <1>6, <2>2, <2>3 DEF Search!Navigated
<1> QED BY <1>2, <1>3, <1>4, <1>5, <1>6 DEF Search!Next

------------------------------------------------------------------------------
(* The suggestions: v1 value, v2 timer, v3 latest, v4 lookup, v5 list. *)

LEMMA SuggestInitially == Suggest!Init => Suggest!SuggestInv
BY DEF Suggest!Init, Suggest!SuggestInv, Suggest!TypeOK, Suggest!SuggestionsMatch

LEMMA SuggestStep ==
    ASSUME Suggest!SuggestInv, Suggest!Next
    PROVE  Suggest!SuggestInv'
<1> USE PartsTyped
    DEF Suggest!SuggestInv, Suggest!TypeOK, Suggest!SuggestionsMatch, Suggest!EmptyIsAWord
<1>1. ASSUME NEW word \in Words, Suggest!Change(word) PROVE Suggest!SuggestInv'
      BY <1>1 DEF Suggest!Change
<1>2. ASSUME NEW r \in Slots, Suggest!TimerFires(r) PROVE Suggest!SuggestInv'
      BY <1>2 DEF Suggest!TimerFires
<1>3. ASSUME NEW r \in Slots, Suggest!LookupAnswered(r) PROVE Suggest!SuggestInv'
      BY <1>3 DEF Suggest!LookupAnswered
<1> QED BY <1>1, <1>2, <1>3 DEF Suggest!Next

------------------------------------------------------------------------------
(* The reports: v2 entry, v3 shown, v5 query, v6 checkIn, v8 loaded, v9 touched. *)

\* What one query brings is true but for what changed since it was served.
AnswerTrue(q, entry) ==
    q.step = "served" => \A b \in Items \ q.since : q.answer[b] = entry[b]

LEMMA AskingTyped == Report!Empty \in Report!Shown /\ Report!Asking \in Report!Pending
BY DEF Report!Empty, Report!Shown, Report!Asking, Report!Pending

LEMMA ReportFacts ==
    ASSUME Report!ReportInv
    PROVE  /\ v2 \in [Items -> Report!Status] /\ v3 \in Report!Shown
           /\ v5 \in [Slots -> Report!Pending \cup {None}]
           /\ v6 \in Report!CheckIn \cup {None}
           /\ v9 \in SUBSET Items
           /\ \A q \in Slots : v5[q] # None => v5[q] \in Report!Pending /\ AnswerTrue(v5[q], v2)
           /\ v8 => \A b \in Items \ v9 : v3[b] = v2[b]
           /\ v6 # None => v6 \in Report!CheckIn /\ v1 = "bookings"
           /\ v6 # None /\ v6.step = "served" /\ ~v6.late => v2[v6.entry] = "CHECKED_IN"
BY DEF Report!ReportInv, Report!TypeOK, AnswerTrue

\* The parts of a step, each by itself.
LEMMA ReportKept ==
    ASSUME Report!ReportInv, v1' = v1, v10' = v10 \/ Report!Counted,
           v4' \in {"asked", "ADMIN", "STAFF"}, v7' \in BOOLEAN, v8' \in BOOLEAN,
           v2' \in [Items -> Report!Status], v3' \in Report!Shown,
           v5' \in [Slots -> Report!Pending \cup {None}],
           v6' \in Report!CheckIn \cup {None}, v9' \in SUBSET Items,
           \A q \in Slots : v5'[q] # None => AnswerTrue(v5'[q], v2'),
           v8' => \A b \in Items \ v9' : v3'[b] = v2'[b],
           v6' # None => v1 = "bookings",
           v6' # None /\ v6'.step = "served" /\ ~v6'.late => v2'[v6'.entry] = "CHECKED_IN"
    PROVE  Report!ReportInv'
<1>1. v10' \in 0..ReportClicks
      BY ClicksCounted DEF Report!ReportInv, Report!TypeOK, Report!Counted
<1>2. Report!TypeOK'
      BY <1>1 DEF Report!ReportInv, Report!TypeOK
<1> QED BY <1>2 DEF Report!ReportInv, AnswerTrue

LEMMA ReportInitially == Report!Init => Report!ReportInv
<1> SUFFICES ASSUME Report!Init PROVE Report!ReportInv
    OBVIOUS
<1>1. v5 \in [Slots -> {Report!Asking, None}]
      BY DEF Report!Init, Report!Opened
<1>2. Report!TypeOK
  <2>1. v7 \in BOOLEAN /\ v8 \in BOOLEAN
        BY DEF Report!Init
  <2>2. v5 \in [Slots -> Report!Pending \cup {None}] /\ v3 \in Report!Shown
        BY <1>1, AskingTyped DEF Report!Init
  <2>3. v2 \in [Items -> Report!Status]
        BY DEF Report!Init, Report!Status
  <2>4. /\ v1 \in {"bookings", "dashboard", "event-logs"}
        /\ v4 = "asked" /\ v6 = None /\ v9 = {} /\ v10 = 0
        BY DEF Report!Init
  <2> QED BY <2>1, <2>2, <2>3, <2>4, ClicksCounted DEF Report!TypeOK
<1>3. \A q \in Slots : v5[q] # None => v5[q].step = "sent"
      BY <1>1 DEF Report!Asking
<1> QED BY <1>2, <1>3 DEF Report!Init, Report!ReportInv

\* A query is sent, and later replaced by its answer or removed.
LEMMA QuerySlot ==
    ASSUME Report!ReportInv, NEW q \in Slots, NEW p \in Report!Pending \cup {None},
           v5' = [v5 EXCEPT ![q] = p], v2' = v2, p # None => AnswerTrue(p, v2)
    PROVE  /\ v5' \in [Slots -> Report!Pending \cup {None}]
           /\ \A x \in Slots : v5'[x] # None => AnswerTrue(v5'[x], v2')
<1>1. \A x \in Slots : v5'[x] = IF x = q THEN p ELSE v5[x]
      BY ReportFacts
<1> QED BY <1>1, ReportFacts

LEMMA QuerySent ==
    ASSUME Report!ReportInv, NEW q \in Slots, Report!Start(q), v2' = v2
    PROVE  /\ v5' \in [Slots -> Report!Pending \cup {None}]
           /\ \A x \in Slots : v5'[x] # None => AnswerTrue(v5'[x], v2')
           /\ v7' = TRUE
<1>1. AnswerTrue(Report!Asking, v2)
      BY DEF AnswerTrue, Report!Asking
<1> QED BY <1>1, AskingTyped, QuerySlot DEF Report!Start

\* A change of one entry, which every query that has been served overlooks.
LEMMA ChangeKeeps ==
    ASSUME Report!ReportInv, NEW b \in Items, NEW s \in Report!Status,
           v2' = [v2 EXCEPT ![b] = s], Report!Changed(b)
    PROVE  /\ v2' \in [Items -> Report!Status]
           /\ v5' \in [Slots -> Report!Pending \cup {None}]
           /\ v9' \in SUBSET Items
           /\ \A q \in Slots : v5'[q] # None => AnswerTrue(v5'[q], v2')
           /\ v8 => \A x \in Items \ v9' : v3[x] = v2'[x]
<1>1. v2' \in [Items -> Report!Status] /\ \A x \in Items \ {b} : v2'[x] = v2[x]
      BY ReportFacts
<1>2. v9' = v9 \cup {b} /\ v9' \in SUBSET Items
      BY ReportFacts DEF Report!Changed
<1>3. ASSUME NEW q \in Slots
      PROVE  /\ v5'[q] \in Report!Pending \cup {None}
             /\ v5'[q] # None => AnswerTrue(v5'[q], v2')
  <2>1. CASE v5[q] # None /\ v5[q].step = "served"
    <3>1. v5'[q] = [v5[q] EXCEPT !.since = @ \cup {b}]
          BY <2>1 DEF Report!Changed
    <3>2. v5[q] \in Report!Pending /\ \A x \in Items \ v5[q].since : v5[q].answer[x] = v2[x]
          BY <2>1, ReportFacts DEF AnswerTrue
    <3>3. /\ v5'[q] \in Report!Pending
          /\ v5'[q].since = v5[q].since \cup {b} /\ v5'[q].answer = v5[q].answer
          BY <3>1, <3>2 DEF Report!Pending
    <3> QED BY <1>1, <3>2, <3>3 DEF AnswerTrue
  <2>2. CASE ~(v5[q] # None /\ v5[q].step = "served")
    <3>1. v5'[q] = v5[q]
          BY <2>2 DEF Report!Changed
    <3> QED BY <2>2, <3>1, ReportFacts DEF AnswerTrue
  <2> QED BY <2>1, <2>2
<1>4. v5' \in [Slots -> Report!Pending \cup {None}]
      BY <1>3 DEF Report!Changed
<1>5. v8 => \A x \in Items \ v9' : v3[x] = v2'[x]
      BY <1>1, <1>2, ReportFacts
<1> QED BY <1>1, <1>2, <1>3, <1>4, <1>5

LEMMA ReportStep ==
    ASSUME Report!ReportInv, Report!Next
    PROVE  Report!ReportInv'
<1>1. /\ v4 \in {"asked", "ADMIN", "STAFF"} /\ v7 \in BOOLEAN /\ v8 \in BOOLEAN
      BY DEF Report!ReportInv, Report!TypeOK
<1>2. ASSUME NEW q \in Slots, Report!SessionAnswered(q) PROVE Report!ReportInv'
  <2>1. UNCHANGED <<v1, v2, v3, v6, v8, v9, v10>>
        BY <1>2 DEF Report!SessionAnswered
  <2>2. CASE Report!Start(q) /\ v4' = "ADMIN"
        BY <1>1, <2>1, <2>2, QuerySent, ReportFacts, ReportKept
  <2>3. CASE UNCHANGED <<v5, v7>> /\ v4' = "STAFF"
        BY <1>1, <2>1, <2>3, ReportFacts, ReportKept
  <2> QED BY <1>2, <2>2, <2>3 DEF Report!SessionAnswered
<1>3. ASSUME NEW q \in Slots, Report!Refresh(q) PROVE Report!ReportInv'
  <2>1. UNCHANGED <<v1, v2, v3, v4, v6, v8, v9>> /\ Report!Counted /\ Report!Start(q)
        BY <1>3 DEF Report!Refresh
  <2> QED BY <1>1, <2>1, QuerySent, ReportFacts, ReportKept
<1>4. ASSUME NEW q \in Slots, Report!ServeQuery(q) PROVE Report!ReportInv'
  <2>1. UNCHANGED <<v1, v2, v3, v4, v6, v7, v8, v9, v10>> /\ v5[q] \in Report!Pending
        BY <1>4, ReportFacts DEF Report!ServeQuery
  <2>2. PICK p : /\ p = [v5[q] EXCEPT !.step = "served", !.answer = v2]
                    \/ p = [v5[q] EXCEPT !.step = "failed"]
                 /\ v5' = [v5 EXCEPT ![q] = p]
        BY <1>4 DEF Report!ServeQuery
  <2>3. v2 \in Report!Shown
        BY ReportFacts DEF Report!Shown
  <2>4. p \in Report!Pending /\ AnswerTrue(p, v2)
        BY <2>1, <2>2, <2>3 DEF Report!Pending, AnswerTrue
  <2> QED BY <1>1, <2>1, <2>2, <2>4, QuerySlot, ReportFacts, ReportKept
<1>5. ASSUME NEW q \in Slots, Report!QueryAnswered(q) PROVE Report!ReportInv'
  <2>1. /\ UNCHANGED <<v1, v2, v4, v6, v10>> /\ v7' = FALSE
        /\ v5' = [v5 EXCEPT ![q] = None] /\ v5[q] \in Report!Pending
        /\ AnswerTrue(v5[q], v2)
        BY <1>5, ReportFacts DEF Report!QueryAnswered
  <2>2. /\ v5' \in [Slots -> Report!Pending \cup {None}]
        /\ \A x \in Slots : v5'[x] # None => AnswerTrue(v5'[x], v2')
        BY <2>1, QuerySlot
  <2>3. CASE v5[q].step = "served"
    <3>1. v3' = v5[q].answer /\ v8' = TRUE /\ v9' = v5[q].since
          BY <1>5, <2>3 DEF Report!QueryAnswered
    <3>2. v3' \in Report!Shown /\ v9' \in SUBSET Items /\ \A b \in Items \ v9' : v3'[b] = v2'[b]
          BY <2>1, <2>3, <3>1 DEF Report!Pending, AnswerTrue
    <3> QED BY <1>1, <2>1, <2>2, <3>1, <3>2, ReportFacts, ReportKept
  <2>4. CASE v5[q].step # "served"
    <3>1. v9' = v9
          BY <1>5, <2>4 DEF Report!QueryAnswered
    <3>2. CASE UNCHANGED <<v3, v8>>
          BY <1>1, <2>1, <2>2, <3>1, <3>2, ReportFacts, ReportKept
    <3>3. CASE v3' = Report!Empty /\ v8' = FALSE
          BY <1>1, <2>1, <2>2, <3>1, <3>3, AskingTyped, ReportFacts, ReportKept
    <3>4. CASE v5[q].step = "failed" /\ v1 = "dashboard"
          BY <1>5, <2>4, <3>2, <3>4 DEF Report!QueryAnswered
    <3>5. CASE ~(v5[q].step = "failed" /\ v1 = "dashboard")
          BY <1>5, <2>4, <3>3, <3>5 DEF Report!QueryAnswered
    <3> QED BY <3>4, <3>5
  <2> QED BY <2>3, <2>4
<1>6. ASSUME NEW b \in Items, Report!StartCheckIn(b) PROVE Report!ReportInv'
  <2>1. /\ UNCHANGED <<v1, v2, v3, v4, v5, v8, v9>> /\ Report!Counted /\ v7' = TRUE
        /\ v1 = "bookings" /\ v6' = [entry |-> b, step |-> "sent", list |-> v3, late |-> FALSE]
        BY <1>6 DEF Report!StartCheckIn
  <2>2. v6' \in Report!CheckIn /\ v6'.step = "sent"
        BY <2>1, ReportFacts DEF Report!CheckIn
  <2> QED BY <1>1, <2>1, <2>2, ReportFacts, ReportKept
<1>7. CASE Report!ServeCheckIn
  <2>1. /\ UNCHANGED <<v1, v3, v4, v7, v8, v10>>
        /\ v6 # None /\ v6 \in Report!CheckIn /\ v6.entry \in Items /\ v1 = "bookings"
        BY <1>7, ReportFacts DEF Report!ServeCheckIn, Report!CheckIn
  <2>2. PICK step \in {"served", "failed"} : v6' = [v6 EXCEPT !.step = step]
        BY <1>7 DEF Report!ServeCheckIn
  <2>3. v6' \in Report!CheckIn /\ v6'.step = step /\ v6'.entry = v6.entry
        BY <2>1, <2>2 DEF Report!CheckIn
  <2>4. CASE v2' = [v2 EXCEPT ![v6.entry] = "CHECKED_IN"] /\ Report!Changed(v6.entry)
    <3>1. "CHECKED_IN" \in Report!Status
          BY DEF Report!Status
    <3>2. v2'[v6.entry] = "CHECKED_IN"
          BY <2>1, <2>4, ReportFacts
    <3> QED BY <1>1, <2>1, <2>3, <2>4, <3>1, <3>2, ChangeKeeps, ReportFacts, ReportKept
  <2>5. CASE UNCHANGED <<v2, v5, v9>> /\ (step = "served" => v2[v6.entry] = "CHECKED_IN")
        BY <1>1, <2>1, <2>3, <2>5, ReportFacts, ReportKept
  <2>6. \/ v2' = [v2 EXCEPT ![v6.entry] = "CHECKED_IN"] /\ Report!Changed(v6.entry)
        \/ UNCHANGED <<v2, v5, v9>> /\ v2[v6.entry] = "CHECKED_IN"
        \/ UNCHANGED <<v2, v5, v9>> /\ v6' = [v6 EXCEPT !.step = "failed"]
        BY <1>7 DEF Report!ServeCheckIn
  <2>7. v6' = [v6 EXCEPT !.step = "failed"] => step = "failed"
        BY <2>1, <2>3 DEF Report!CheckIn
  <2> QED BY <2>4, <2>5, <2>6, <2>7
<1>8. CASE Report!CheckInAnswered
  <2>1. /\ UNCHANGED <<v1, v2, v4, v5, v8, v10>> /\ v7' = FALSE /\ v6' = None
        /\ v6 \in Report!CheckIn
        BY <1>8, ReportFacts DEF Report!CheckInAnswered
  <2>2. CASE v6.step = "served"
    <3>1. /\ v3' = Report!CheckedIn(v3)
          /\ v6.late => v9' = v9 \cup {v6.entry}
          /\ ~v6.late => v9' = {b \in v9 : Report!CheckedIn(v3)[b] # v2[b]}
          BY <1>8, <2>2 DEF Report!CheckInAnswered
    <3>2. \A b \in Items : v3'[b] = IF b = v6.entry /\ v3[b] # None THEN "CHECKED_IN" ELSE v3[b]
          BY <2>1, <3>1, ReportFacts DEF Report!CheckedIn, Report!Shown, Report!CheckIn
    <3>3. v3' \in Report!Shown
          BY <3>1, <3>2, ReportFacts DEF Report!CheckedIn, Report!Shown, Report!Status
    <3>4. v6.entry \in Items /\ (~v6.late => v2[v6.entry] = "CHECKED_IN")
          BY <1>8, <2>1, <2>2, ReportFacts DEF Report!CheckInAnswered, Report!CheckIn
    <3>5. v8 => \A b \in Items \ v9' : v3'[b] = v2'[b]
      <4>1. CASE v6.late
            BY <2>1, <3>1, <3>2, <4>1, ReportFacts
      <4>2. CASE ~v6.late
            BY <2>1, <3>1, <3>2, <3>4, <4>2, ReportFacts
      <4> QED BY <4>1, <4>2
    <3>6. v9' \in SUBSET Items
          BY <3>1, <3>4, ReportFacts
    <3> QED BY <1>1, <2>1, <3>3, <3>5, <3>6, ReportFacts, ReportKept
  <2>3. CASE v6.step # "served"
    <3>1. UNCHANGED <<v3, v9>>
          BY <1>8, <2>3 DEF Report!CheckInAnswered
    <3> QED BY <1>1, <2>1, <3>1, ReportFacts, ReportKept
  <2> QED BY <2>2, <2>3
<1>9. ASSUME NEW b \in Items, Report!EntryChanges(b) PROVE Report!ReportInv'
  <2>1. UNCHANGED <<v1, v3, v4, v7, v8>> /\ Report!Counted /\ Report!Changed(b)
        BY <1>9 DEF Report!EntryChanges
  <2>2. PICK s \in Report!Status : v2' = [v2 EXCEPT ![b] = s]
        BY <1>9 DEF Report!EntryChanges, Report!Later, Report!Status
  <2>3. \A x \in Items \ {b} : v2'[x] = v2[x]
        BY <2>2, ReportFacts
  <2>4. CASE v6 # None /\ v6.step = "served" /\ v6.entry = b
    <3>1. v6' = [v6 EXCEPT !.late = TRUE]
          BY <1>9, <2>4 DEF Report!EntryChanges
    <3>2. v6' \in Report!CheckIn /\ v6'.late /\ v6' # None /\ v1 = "bookings"
          BY <2>4, <3>1, ReportFacts, PartsTyped DEF Report!CheckIn, Report!NoneIsNothing
    <3> QED BY <1>1, <2>1, <2>2, <3>2, ChangeKeeps, ReportFacts, ReportKept
  <2>5. CASE ~(v6 # None /\ v6.step = "served" /\ v6.entry = b)
    <3>1. v6' = v6
          BY <1>9, <2>5 DEF Report!EntryChanges
    <3>2. v6 # None /\ v6.step = "served" /\ ~v6.late => v2'[v6.entry] = "CHECKED_IN"
          BY <2>3, <2>5, ReportFacts DEF Report!CheckIn
    <3> QED BY <1>1, <2>1, <2>2, <3>1, <3>2, ChangeKeeps, ReportFacts, ReportKept
  <2> QED BY <2>4, <2>5
<1> QED BY <1>2, <1>3, <1>4, <1>5, <1>6, <1>7, <1>8, <1>9 DEF Report!Next

------------------------------------------------------------------------------
(* The catalogue: v1 kind, v2 row, v3 list, v4 page, v5 work, v6 touched,  *)
(* v8 laid.                                                                *)

LEMMA CatalogConstants ==
    /\ Unborn # Deleted /\ Unborn \notin Catalog!Row /\ Deleted \notin Catalog!Row
    /\ None \notin Catalog!Row /\ None \notin Items /\ None \notin Catalog!Work
BY PartsTyped DEF Catalog!RowsAreTold

LEMMA CatalogFacts ==
    ASSUME Catalog!TypeOK
    PROVE  /\ v2 \in [Items -> Catalog!Row \cup {Unborn, Deleted}]
           /\ v3 \in Catalog!Lists /\ v8 \in SUBSET Items
           /\ v4 \in Catalog!Page
           /\ v5 \in [Slots -> Catalog!Work \cup {None}]
           /\ \A s \in Slots : v5[s] # None => v5[s] \in Catalog!Work
           /\ \A i \in Items : Catalog!Stored(i) <=> v2[i] \in Catalog!Row
           /\ \A i \in Items : Catalog!Rows[i] = IF v2[i] \in Catalog!Row THEN v2[i] ELSE None
           /\ Catalog!Rows \in Catalog!Lists
<1>1. \A i \in Items : Catalog!Stored(i) <=> v2[i] \in Catalog!Row
      BY CatalogConstants DEF Catalog!TypeOK, Catalog!Stored
<1>2. \A i \in Items : Catalog!Rows[i] = IF v2[i] \in Catalog!Row THEN v2[i] ELSE None
      BY <1>1 DEF Catalog!Rows
<1>3. Catalog!Rows \in Catalog!Lists
      BY <1>1 DEF Catalog!Rows, Catalog!Lists
<1> QED BY <1>1, <1>2, <1>3 DEF Catalog!TypeOK

LEMMA ClicksTyped ==
    ASSUME Catalog!TypeOK, v7' = v7 \/ Catalog!Counted
    PROVE  v7' \in 0..CatalogClicks
BY ClicksCounted DEF Catalog!TypeOK, Catalog!Counted

\* Who is done is alive, and so alone.
LEMMA OneHandler ==
    ASSUME Catalog!CatalogInv, NEW s \in Slots
    PROVE  /\ Catalog!Done(s) => Catalog!Live(s)
           /\ Catalog!Live(s) => v4.loading /\ \A t \in Slots \ {s} : ~Catalog!Live(t) /\ ~Catalog!Done(t)
           /\ ~v4.loading => ~Catalog!Live(s) /\ ~Catalog!Done(s)
<1>1. \A t \in Slots : Catalog!Done(t) => Catalog!Live(t)
      BY DEF Catalog!CatalogInv, Catalog!WorkSound, Catalog!Done, Catalog!Live
<1> QED BY <1>1 DEF Catalog!CatalogInv, Catalog!HandlerSound

LEMMA EmptyTyped == Catalog!Empty \in Catalog!Lists /\ \A i \in Items : Catalog!Empty[i] = None
BY DEF Catalog!Empty, Catalog!Lists

LEMMA MountedTyped ==
    /\ Catalog!Mounted \in Catalog!Page
    /\ Catalog!Mounted.loading /\ ~Catalog!Mounted.loaded
    /\ Catalog!Mounted.form = None /\ Catalog!Mounted.dialog = None /\ Catalog!Mounted.map = None
BY DEF Catalog!Mounted, Catalog!Page, Catalog!MaybeItem

LEMMA FetchTyped ==
    /\ Catalog!Fetch \in Catalog!Work /\ Catalog!WorkSound(Catalog!Fetch)
    /\ Catalog!Fetch.op = "fetch" /\ Catalog!Fetch.live /\ Catalog!Fetch.step = "sent"
    /\ Catalog!Fetch.list = Catalog!Empty
BY EmptyTyped DEF Catalog!Fetch, Catalog!Request, Catalog!Work, Catalog!WorkSound, Catalog!Ops,
                  Catalog!MaybeItem, Catalog!Writes

\* What a form sends, and what a layout is saved with.
LEMMA TypedStates ==
    /\ Catalog!Typed \subseteq Catalog!States /\ Catalog!Numbers \subseteq Catalog!States
    /\ "DRAFT" \in Catalog!States /\ "ACTIVE" \in Catalog!States
BY DEF Catalog!Typed, Catalog!States, Catalog!Numbers

LEMMA CatalogInitially == Catalog!Init => Catalog!CatalogInv
<1> SUFFICES ASSUME Catalog!Init PROVE Catalog!CatalogInv
    OBVIOUS
<1>1. v5 \in [Slots -> {Catalog!Fetch, None}] /\ v4 = Catalog!Mounted /\ v3 = Catalog!Empty
      BY DEF Catalog!Init
<1>2. v2 \in [Items -> Catalog!Row \cup {Unborn, Deleted}]
  <2>1. PICK kept \in SUBSET Items, f \in Fields, state \in Catalog!Typed :
           v2 = [i \in Items |-> IF i \in kept THEN [fields |-> f, state |-> state] ELSE Unborn]
        BY DEF Catalog!Init
  <2>2. [fields |-> f, state |-> state] \in Catalog!Row
        BY TypedStates DEF Catalog!Row
  <2> HIDE DEF Catalog!Row
  <2> QED BY <2>1, <2>2
<1>3. Catalog!TypeOK
  <2>1. v5 \in [Slots -> Catalog!Work \cup {None}]
        BY <1>1, FetchTyped
  <2>2. v7 \in 0..CatalogClicks /\ v6 = {} /\ v1 \in Catalog!Kinds /\ v8 \in SUBSET Items
        BY ClicksCounted DEF Catalog!Init
  <2> QED BY <1>1, <1>2, <2>1, <2>2, EmptyTyped, MountedTyped DEF Catalog!TypeOK
<1>4. ASSUME NEW s \in Slots, v5[s] # None
      PROVE  v5[s] = Catalog!Fetch /\ \A t \in Slots \ {s} : v5[t] = None
      BY <1>4 DEF Catalog!Init
<1>5. \A s \in Slots : v5[s] # None => Catalog!WorkSound(v5[s])
      BY <1>4, FetchTyped
<1>6. Catalog!BirthSound
      BY <1>1, <1>4, FetchTyped, EmptyTyped, MountedTyped, CatalogConstants DEF Catalog!BirthSound
<1>7. Catalog!HandlerSound
      BY <1>1, <1>4, FetchTyped, MountedTyped DEF Catalog!HandlerSound, Catalog!Live, Catalog!Writes
<1>8. Catalog!ListSound
      BY <1>1, <1>4, FetchTyped, MountedTyped DEF Catalog!ListSound, Catalog!Done
<1>9. Catalog!DialogSound /\ Catalog!DialogShowsItsOwn
      BY <1>1, <1>4, FetchTyped, MountedTyped DEF Catalog!DialogSound, Catalog!DialogShowsItsOwn
<1> QED BY <1>3, <1>5, <1>6, <1>7, <1>8, <1>9 DEF Catalog!CatalogInv

------------------------------------------------------------------------------
(* Clicks *)

\* A step that changes what is shown, and no list, row or request.
LEMMA ShowKeeps ==
    ASSUME Catalog!CatalogInv, UNCHANGED <<v1, v2, v3, v5, v6, v8>>, Catalog!Counted,
           v4' \in Catalog!Page, v4'.loading = v4.loading, v4'.loaded = v4.loaded,
           \A i \in Items : v2[i] = Unborn => i \notin {v4'.form, v4'.dialog, v4'.map},
           v1 = "vehicles" => v4'.map \in {None, v4'.dialog},
           v1 # "vehicles" => v4'.dialog \in {None, v4.dialog} /\ v4'.map = v4.map
    PROVE  Catalog!CatalogInv'
<1>1. Catalog!TypeOK'
      BY ClicksTyped DEF Catalog!CatalogInv, Catalog!TypeOK
<1>2. Catalog!BirthSound'
      BY DEF Catalog!CatalogInv, Catalog!BirthSound
<1>3. Catalog!HandlerSound'
      BY DEF Catalog!CatalogInv, Catalog!HandlerSound, Catalog!Live
<1>4. Catalog!ListSound'
      BY DEF Catalog!CatalogInv, Catalog!ListSound, Catalog!Done, Catalog!Rows, Catalog!Stored
<1>5. Catalog!DialogSound' /\ Catalog!DialogShowsItsOwn'
      BY DEF Catalog!CatalogInv, Catalog!DialogSound, Catalog!DialogShowsItsOwn,
             Catalog!TypeOK, Catalog!Kinds
<1> QED BY <1>1, <1>2, <1>3, <1>4, <1>5 DEF Catalog!CatalogInv

\* A click that sends request q from slot s.
LEMMA ClickKeeps ==
    ASSUME Catalog!CatalogInv, NEW s \in Slots, v5[s] = None, ~v4.loading,
           NEW q \in Catalog!Work, Catalog!WorkSound(q), q.live, q.step = "sent", q.op # "fetch",
           v5' = [v5 EXCEPT ![s] = q],
           UNCHANGED <<v1, v2, v3, v6, v8>>, Catalog!Counted,
           v4' \in Catalog!Page, v4'.loading, v4'.loaded = v4.loaded, v4'.form = v4.form,
           v4'.map = v4.map, v4'.dialog = v4.dialog \/ v4'.dialog = q.item,
           q.op \in Catalog!Writes => q.list = v3,
           q.op \notin Catalog!Writes => q.list = Catalog!Empty /\ v1 = "trips",
           v2[q.item] = Unborn => q.op = "create" /\ v4'.dialog = v4.dialog,
           q.op = "create" =>
               v2[q.item] = Unborn /\ \A t \in Slots : v5[t] # None => v5[t].item # q.item,
           v1 = "trips" /\ v4'.dialog # None =>
               /\ q.op \in {"seats", "block"}
               /\ q.item = v4'.dialog
               /\ q.op = "block" => v4.map = v4'.dialog,
           v1 # "trips" => v4'.dialog = v4.dialog
    PROVE  Catalog!CatalogInv'
<1>1. /\ v5' \in [Slots -> Catalog!Work \cup {None}]
      /\ v5'[s] = q
      /\ \A t \in Slots \ {s} : v5'[t] = v5[t]
      /\ q # None /\ q.item \in Items
      BY CatalogFacts, CatalogConstants DEF Catalog!CatalogInv, Catalog!WorkSound
<1>2. \A t \in Slots : ~Catalog!Live(t) /\ ~Catalog!Done(t)
      BY OneHandler
<1>3. Catalog!TypeOK'
      BY <1>1, ClicksTyped DEF Catalog!CatalogInv, Catalog!TypeOK
<1>4. \A t \in Slots : v5'[t] # None => Catalog!WorkSound(v5'[t])
      BY <1>1 DEF Catalog!CatalogInv
<1>5. Catalog!BirthSound'
  <2>1. ASSUME NEW i \in Items, v2[i] = Unborn
        PROVE  /\ v3[i] = None /\ i \notin {v4'.form, v4'.dialog, v4'.map}
               /\ \A t \in Slots : v5'[t] # None => v5'[t].list[i] = None
        BY <1>1, <2>1, EmptyTyped DEF Catalog!CatalogInv, Catalog!BirthSound
  <2>2. ASSUME NEW t \in Slots, v5'[t] # None, v5'[t].op # "fetch", v2[v5'[t].item] = Unborn
        PROVE  v5'[t].op = "create" /\ v5'[t].step # "done"
        BY <1>1, <2>2 DEF Catalog!CatalogInv, Catalog!BirthSound
  <2>3. ASSUME NEW t \in Slots, v5'[t] # None, v5'[t].op = "create", v5'[t].step = "sent"
        PROVE  /\ v2[v5'[t].item] = Unborn
               /\ \A u \in Slots \ {t} : v5'[u] # None => v5'[u].item # v5'[t].item
    <3>1. CASE t = s
          BY <1>1, <2>3, <3>1
    <3>2. CASE t # s
      <4>1. /\ v2[v5[t].item] = Unborn
            /\ \A u \in Slots \ {t} : v5[u] # None => v5[u].item # v5[t].item
            BY <1>1, <2>3, <3>2 DEF Catalog!CatalogInv, Catalog!BirthSound
      <4>2. q.item # v5[t].item
            BY <1>1, <2>3, <3>2, <4>1
      <4> QED BY <1>1, <3>2, <4>1, <4>2
    <3> QED BY <3>1, <3>2
  <2> QED BY <2>1, <2>2, <2>3 DEF Catalog!BirthSound
<1>6. Catalog!HandlerSound'
  <2>1. \A t \in Slots \ {s} : ~Catalog!Live(t)'
        BY <1>1, <1>2 DEF Catalog!Live
  <2> QED BY <1>1, <2>1 DEF Catalog!HandlerSound
<1>7. Catalog!ListSound'
  <2>1. \A t \in Slots : ~Catalog!Done(t)'
        BY <1>1, <1>2 DEF Catalog!Done
  <2> QED BY <1>2, <2>1 DEF Catalog!CatalogInv, Catalog!ListSound, Catalog!Rows, Catalog!Stored
<1>8. Catalog!DialogSound' /\ Catalog!DialogShowsItsOwn'
      BY <1>1 DEF Catalog!CatalogInv, Catalog!DialogSound, Catalog!DialogShowsItsOwn, Catalog!Writes
<1> QED BY <1>3, <1>4, <1>5, <1>6, <1>7, <1>8 DEF Catalog!CatalogInv

\* What a click that is possible finds.
LEMMA ClickFacts ==
    ASSUME Catalog!CatalogInv
    PROVE  /\ v4.form \in Catalog!MaybeItem /\ v4.dialog \in Catalog!MaybeItem
           /\ v4.map \in Catalog!MaybeItem
           /\ v3 \in Catalog!Lists
           /\ \A i \in Items : v3[i] # None => v3[i] \in Catalog!Row /\ v2[i] # Unborn
           /\ \A i \in {v4.form, v4.dialog, v4.map} : i # None => i \in Items /\ v2[i] # Unborn
<1>1. v4 \in Catalog!Page /\ v3 \in Catalog!Lists
      BY CatalogFacts DEF Catalog!CatalogInv
<1>2. \A i \in Items : v2[i] = Unborn => v3[i] = None /\ i \notin {v4.form, v4.dialog, v4.map}
      BY DEF Catalog!CatalogInv, Catalog!BirthSound
<1> QED BY <1>1, <1>2 DEF Catalog!Page, Catalog!MaybeItem, Catalog!Lists

LEMMA RequestTyped ==
    ASSUME NEW op \in Catalog!Ops, NEW i \in Items, NEW r \in Catalog!Row \cup {None},
           NEW l \in Catalog!Lists,
           op \in {"create", "update", "status", "configure"} => r \in Catalog!Row,
           op \in {"status", "configure"} => l[i] # None
    PROVE  LET q == Catalog!Request(op, i, r, l) IN
           /\ q \in Catalog!Work /\ Catalog!WorkSound(q)
           /\ q.op = op /\ q.item = i /\ q.list = l /\ q.live /\ q.step = "sent"
BY DEF Catalog!Request, Catalog!Work, Catalog!WorkSound, Catalog!MaybeItem

\* Create, Update, Delete, SetStatus, SaveLayout: a handler starts on the list it sees.
LEMMA WriteKeeps ==
    ASSUME Catalog!CatalogInv, NEW s \in Slots, Catalog!Ready,
           NEW op \in Catalog!Writes, NEW i \in Items, NEW r \in Catalog!Row \cup {None},
           op # "delete" => r \in Catalog!Row,
           op \in {"status", "configure"} => v3[i] # None,
           op # "create" => v2[i] # Unborn,
           op = "create" =>
               v2[i] = Unborn /\ i \notin {v5[x].item : x \in {y \in Slots : v5[y] # None}},
           v1 = "trips" => v4.dialog = None,
           Catalog!Click(s, Catalog!Request(op, i, r, v3))
    PROVE  Catalog!CatalogInv'
<1> DEFINE q == Catalog!Request(op, i, r, v3)
<1>1. op \in Catalog!Ops /\ op # "fetch"
      BY DEF Catalog!Writes, Catalog!Ops
<1>2. /\ q \in Catalog!Work /\ Catalog!WorkSound(q)
      /\ q.op = op /\ q.item = i /\ q.list = v3 /\ q.live /\ q.step = "sent"
      BY <1>1, RequestTyped, ClickFacts DEF Catalog!Writes
<1>3. /\ v5[s] = None /\ v5' = [v5 EXCEPT ![s] = q]
      /\ UNCHANGED <<v1, v2, v3, v6, v8>> /\ Catalog!Counted
      /\ v4' = [v4 EXCEPT !.loading = TRUE]
      BY DEF Catalog!Click
<1> HIDE DEF q
<1>4. /\ v4' \in Catalog!Page /\ v4'.loading /\ v4'.loaded = v4.loaded /\ v4'.form = v4.form
      /\ v4'.map = v4.map /\ v4'.dialog = v4.dialog
      BY <1>3, CatalogFacts DEF Catalog!CatalogInv, Catalog!Page
<1>5. ~v4.loading
      BY DEF Catalog!Ready
<1>6. op = "create" => \A t \in Slots : v5[t] # None => v5[t].item # i
      OBVIOUS
<1> QED BY <1>1, <1>2, <1>3, <1>4, <1>5, <1>6, ClickKeeps

\* OpenSeats, BlockSeats: the seats of a trip are shown, and blocked.
LEMMA SeatsKeep ==
    ASSUME Catalog!CatalogInv, NEW s \in Slots, Catalog!Ready, v1 = "trips",
           NEW op \in {"seats", "block"}, NEW i \in Items, v2[i] # Unborn,
           v5[s] = None, v5' = [v5 EXCEPT ![s] = Catalog!Request(op, i, None, Catalog!Empty)],
           UNCHANGED <<v1, v2, v3, v6, v8>>, Catalog!Counted,
           v4' = [v4 EXCEPT !.loading = TRUE, !.dialog = i],
           op = "block" => v4.map = i
    PROVE  Catalog!CatalogInv'
<1> DEFINE q == Catalog!Request(op, i, None, Catalog!Empty)
<1>1. op \in Catalog!Ops /\ op # "fetch" /\ op \notin Catalog!Writes /\ op # "create"
      BY DEF Catalog!Writes, Catalog!Ops
<1>2. /\ q \in Catalog!Work /\ Catalog!WorkSound(q)
      /\ q.op = op /\ q.item = i /\ q.list = Catalog!Empty /\ q.live /\ q.step = "sent"
      BY <1>1, RequestTyped, EmptyTyped
<1>3. v5' = [v5 EXCEPT ![s] = q]
      OBVIOUS
<1> HIDE DEF q
<1>4. /\ v4' \in Catalog!Page /\ v4'.loading /\ v4'.loaded = v4.loaded /\ v4'.form = v4.form
      /\ v4'.map = v4.map /\ v4'.dialog = i
      BY CatalogFacts DEF Catalog!CatalogInv, Catalog!Page, Catalog!MaybeItem
<1>5. ~v4.loading
      BY DEF Catalog!Ready
<1> QED BY <1>1, <1>2, <1>3, <1>4, <1>5, ClickKeeps

\* A request that is abandoned is a write the server may still have.
LEMMA AbandonedSound ==
    ASSUME NEW w \in Catalog!Work \cup {None}, w # None => Catalog!WorkSound(w)
    PROVE  LET a == Catalog!Abandoned(w) IN
           /\ a \in Catalog!Work \cup {None}
           /\ a # None => /\ w # None /\ Catalog!WorkSound(a) /\ ~a.live
                          /\ a.op = w.op /\ a.item = w.item /\ a.step = "sent" /\ w.step = "sent"
                          /\ a.op \in Catalog!Writes /\ a.list = Catalog!Empty
<1>1. CASE w # None /\ w.op \in Catalog!Writes /\ w.step = "sent"
  <2>1. PICK a : a = [w EXCEPT !.live = FALSE, !.list = Catalog!Empty]
        OBVIOUS
  <2>2. /\ a \in Catalog!Work /\ a.live = FALSE /\ a.list = Catalog!Empty
        /\ a.op = w.op /\ a.item = w.item /\ a.step = w.step /\ a.row = w.row
        BY <1>1, <2>1, EmptyTyped DEF Catalog!Work
  <2>3. Catalog!WorkSound(a)
        BY <1>1, <2>2 DEF Catalog!WorkSound
  <2>4. Catalog!Abandoned(w) = a
        BY <1>1, <2>1 DEF Catalog!Abandoned
  <2> QED BY <1>1, <2>2, <2>3, <2>4
<1>2. CASE ~(w # None /\ w.op \in Catalog!Writes /\ w.step = "sent")
      BY <1>2 DEF Catalog!Abandoned
<1> QED BY <1>1, <1>2

LEMMA RevisitKeeps ==
    ASSUME Catalog!CatalogInv, NEW s \in Slots, Catalog!Revisit(s)
    PROVE  Catalog!CatalogInv'
<1>1. /\ v5[s] = None /\ v4' = Catalog!Mounted /\ v3' = Catalog!Empty
      /\ UNCHANGED <<v1, v2, v6, v8>> /\ Catalog!Counted
      BY DEF Catalog!Revisit
<1>2. /\ v5' = [x \in Slots |-> IF x = s THEN Catalog!Fetch ELSE Catalog!Abandoned(v5[x])]
      /\ v5'[s] = Catalog!Fetch
      /\ \A t \in Slots \ {s} : v5'[t] = Catalog!Abandoned(v5[t])
      BY DEF Catalog!Revisit
<1>3. ASSUME NEW t \in Slots \ {s}
      PROVE  /\ v5'[t] \in Catalog!Work \cup {None}
             /\ v5'[t] # None =>
                   /\ v5[t] # None /\ Catalog!WorkSound(v5'[t]) /\ ~v5'[t].live
                   /\ v5'[t].op = v5[t].op /\ v5'[t].item = v5[t].item
                   /\ v5'[t].step = "sent" /\ v5[t].step = "sent"
                   /\ v5'[t].op \in Catalog!Writes /\ v5'[t].list = Catalog!Empty
  <2>1. v5[t] \in Catalog!Work \cup {None} /\ (v5[t] # None => Catalog!WorkSound(v5[t]))
        BY CatalogFacts DEF Catalog!CatalogInv
  <2> QED BY <1>2, <2>1, AbandonedSound
<1>4. Catalog!TypeOK'
  <2>1. v5' \in [Slots -> Catalog!Work \cup {None}]
        BY <1>2, <1>3, FetchTyped
  <2> QED BY <1>1, <2>1, EmptyTyped, MountedTyped, ClicksTyped DEF Catalog!CatalogInv, Catalog!TypeOK
<1>5. \A t \in Slots : v5'[t] # None => Catalog!WorkSound(v5'[t])
      BY <1>2, <1>3, FetchTyped
<1>6. Catalog!BirthSound'
  <2>1. ASSUME NEW i \in Items, v2[i] = Unborn
        PROVE  /\ v3'[i] = None /\ i \notin {v4'.form, v4'.dialog, v4'.map}
               /\ \A t \in Slots : v5'[t] # None => v5'[t].list[i] = None
        BY <1>1, <1>2, <1>3, FetchTyped, EmptyTyped, MountedTyped, CatalogConstants
  <2>2. ASSUME NEW t \in Slots, v5'[t] # None, v5'[t].op # "fetch", v2[v5'[t].item] = Unborn
        PROVE  v5'[t].op = "create" /\ v5'[t].step # "done"
        BY <1>2, <1>3, <2>2, FetchTyped DEF Catalog!CatalogInv, Catalog!BirthSound
  <2>3. ASSUME NEW t \in Slots, v5'[t] # None, v5'[t].op = "create", v5'[t].step = "sent"
        PROVE  /\ v2[v5'[t].item] = Unborn
               /\ \A u \in Slots \ {t} : v5'[u] # None => v5'[u].item # v5'[t].item
    <3>1. t # s /\ v5[t] # None /\ v5[t].op = "create" /\ v5[t].step = "sent" /\ v5'[t].item = v5[t].item
          BY <1>2, <1>3, <2>3, FetchTyped
    <3>2. /\ v2[v5[t].item] = Unborn /\ v5[t].item \in Items
          /\ \A u \in Slots \ {t} : v5[u] # None => v5[u].item # v5[t].item
          BY <3>1 DEF Catalog!CatalogInv, Catalog!BirthSound, Catalog!WorkSound
    <3>3. v5'[s].item # v5[t].item
          BY <1>2, <3>2, CatalogConstants DEF Catalog!Fetch, Catalog!Request
    <3> QED BY <1>3, <3>1, <3>2, <3>3
  <2> QED BY <1>1, <2>1, <2>2, <2>3 DEF Catalog!BirthSound
<1>7. Catalog!HandlerSound'
  <2>1. \A t \in Slots \ {s} : ~Catalog!Live(t)'
        BY <1>3 DEF Catalog!Live
  <2>2. Catalog!Fetch.op \notin Catalog!Writes
        BY FetchTyped DEF Catalog!Writes
  <2> QED BY <1>1, <1>2, <2>1, <2>2, FetchTyped, MountedTyped DEF Catalog!HandlerSound
<1>8. Catalog!ListSound'
  <2>1. \A t \in Slots : ~Catalog!Done(t)'
        BY <1>2, <1>3, FetchTyped DEF Catalog!Done
  <2>2. ~v4'.loaded
        BY <1>1, MountedTyped
  <2> QED BY <2>1, <2>2 DEF Catalog!ListSound
<1>9. Catalog!DialogSound' /\ Catalog!DialogShowsItsOwn'
  <2>1. \A t \in Slots : v5'[t] # None => v5'[t].op \notin {"seats", "block"}
        BY <1>2, <1>3, FetchTyped DEF Catalog!Writes
  <2> QED BY <1>1, <2>1, MountedTyped DEF Catalog!DialogSound, Catalog!DialogShowsItsOwn
<1> QED BY <1>4, <1>5, <1>6, <1>7, <1>8, <1>9 DEF Catalog!CatalogInv

LEMMA ClicksKeep ==
    ASSUME Catalog!CatalogInv, NEW s \in Slots,
           \/ \E i \in Items, f \in Fields : Catalog!Create(s, i, f)
           \/ \E f \in Fields : Catalog!Update(s, f)
           \/ \E i \in Items : Catalog!Delete(s, i) \/ Catalog!OpenSeats(s, i)
           \/ \E i \in Items, state \in Catalog!States : Catalog!SetStatus(s, i, state)
           \/ \E number \in Catalog!Numbers : Catalog!SaveLayout(s, number)
           \/ Catalog!BlockSeats(s)
    PROVE  Catalog!CatalogInv'
<1> USE DEF Catalog!Table
<1>1. ASSUME NEW i \in Items, NEW f \in Fields, Catalog!Create(s, i, f)
      PROVE  Catalog!CatalogInv'
  <2>1. PICK state \in Catalog!States :
           Catalog!Click(s, Catalog!Request("create", i, [fields |-> f, state |-> state], v3))
        BY <1>1, TypedStates DEF Catalog!Create
  <2>2. [fields |-> f, state |-> state] \in Catalog!Row /\ "create" \in Catalog!Writes
        BY DEF Catalog!Row, Catalog!Writes
  <2>3. /\ Catalog!Ready /\ v4.dialog = None /\ v2[i] = Unborn
        /\ i \notin {v5[x].item : x \in {y \in Slots : v5[y] # None}}
        BY <1>1 DEF Catalog!Create
  <2> QED BY <2>1, <2>2, <2>3, WriteKeeps
<1>2. ASSUME NEW f \in Fields, Catalog!Update(s, f) PROVE Catalog!CatalogInv'
  <2>0. PICK state \in Catalog!Typed :
           Catalog!Click(s, Catalog!Request("update", v4.form, [fields |-> f, state |-> state], v3))
        BY <1>2 DEF Catalog!Update
  <2> DEFINE r == [fields |-> f, state |-> state]
  <2>1. r \in Catalog!Row /\ "update" \in Catalog!Writes
        BY TypedStates DEF Catalog!Row, Catalog!Writes
  <2>2. /\ v4.form \in Items /\ v2[v4.form] # Unborn /\ Catalog!Ready /\ v4.dialog = None
        /\ Catalog!Click(s, Catalog!Request("update", v4.form, r, v3))
        BY <1>2, <2>0, ClickFacts DEF Catalog!Update
  <2> HIDE DEF r
  <2> QED BY <2>1, <2>2, WriteKeeps
<1>3. ASSUME NEW i \in Items, Catalog!Delete(s, i) PROVE Catalog!CatalogInv'
  <2>1. /\ Catalog!Ready /\ v4.dialog = None /\ v2[i] # Unborn /\ "delete" \in Catalog!Writes
        /\ Catalog!Click(s, Catalog!Request("delete", i, None, v3))
        BY <1>3, ClickFacts DEF Catalog!Delete, Catalog!Writes
  <2> QED BY <2>1, WriteKeeps
<1>4. ASSUME NEW i \in Items, Catalog!OpenSeats(s, i) PROVE Catalog!CatalogInv'
  <2>1. v2[i] # Unborn /\ v1 = "trips" /\ Catalog!Ready /\ v5[s] = None
        BY <1>4, ClickFacts DEF Catalog!OpenSeats
  <2> QED BY <1>4, <2>1, SeatsKeep DEF Catalog!OpenSeats
<1>5. ASSUME NEW i \in Items, NEW state \in Catalog!States, Catalog!SetStatus(s, i, state)
      PROVE  Catalog!CatalogInv'
  <2> DEFINE r == [v3[i] EXCEPT !.state = state]
  <2>1. v3[i] # None /\ v3[i] \in Catalog!Row /\ v2[i] # Unborn
        BY <1>5, ClickFacts DEF Catalog!SetStatus
  <2>2. r \in Catalog!Row /\ "status" \in Catalog!Writes
        BY <2>1 DEF Catalog!Row, Catalog!Writes
  <2>3. /\ Catalog!Ready /\ v4.dialog = None
        /\ Catalog!Click(s, Catalog!Request("status", i, r, v3))
        BY <1>5 DEF Catalog!SetStatus
  <2> HIDE DEF r
  <2> QED BY <2>1, <2>2, <2>3, WriteKeeps
<1>6. ASSUME NEW state \in Catalog!Numbers, Catalog!SaveLayout(s, state)
      PROVE  Catalog!CatalogInv'
  <2> DEFINE i == v4.dialog
             r == [v3[i] EXCEPT !.state = state]
  <2>1. i \in Items /\ v3[i] # None /\ v3[i] \in Catalog!Row /\ v2[i] # Unborn
        BY <1>6, ClickFacts DEF Catalog!SaveLayout, Catalog!SeatsShown
  <2>2. r \in Catalog!Row /\ "configure" \in Catalog!Writes
        BY <2>1, TypedStates DEF Catalog!Row, Catalog!Writes
  <2>3. /\ Catalog!Ready /\ v1 = "vehicles"
        /\ Catalog!Click(s, Catalog!Request("configure", i, r, v3))
        BY <1>6 DEF Catalog!SaveLayout
  <2> HIDE DEF i, r
  <2> QED BY <2>1, <2>2, <2>3, WriteKeeps
<1>7. CASE Catalog!BlockSeats(s)
  <2>1. v4.map # None /\ v4.dialog = v4.map /\ v1 = "trips" /\ Catalog!Ready
        BY <1>7 DEF Catalog!BlockSeats, Catalog!SeatsShown, Catalog!Ready, Catalog!CatalogInv,
                    Catalog!DialogShowsItsOwn
  <2>2. v4.map \in Items /\ v2[v4.map] # Unborn
        BY <2>1, ClickFacts
  <2>3. [v4 EXCEPT !.loading = TRUE, !.dialog = v4.map] = [v4 EXCEPT !.loading = TRUE]
        BY <2>1, CatalogFacts DEF Catalog!CatalogInv, Catalog!Page
  <2> QED BY <1>7, <2>1, <2>2, <2>3, SeatsKeep DEF Catalog!BlockSeats, Catalog!Click
<1> QED BY <1>1, <1>2, <1>3, <1>4, <1>5, <1>6, <1>7

LEMMA ShowsKeep ==
    ASSUME Catalog!CatalogInv,
           \/ \E i \in Items : Catalog!StartEdit(i) \/ Catalog!OpenLayout(i)
           \/ Catalog!CancelEdit \/ Catalog!Preview \/ Catalog!CloseDialog
    PROVE  Catalog!CatalogInv'
<1> USE DEF Catalog!Show
<1>0. v4 \in Catalog!Page
      BY CatalogFacts DEF Catalog!CatalogInv
<1>1. v1 = "vehicles" => v4.map \in {None, v4.dialog}
      BY DEF Catalog!CatalogInv, Catalog!DialogSound
<1>2. ASSUME NEW i \in Items, Catalog!StartEdit(i) PROVE Catalog!CatalogInv'
  <2>1. v2[i] # Unborn
        BY <1>2, ClickFacts DEF Catalog!StartEdit
  <2>2. /\ v4' \in Catalog!Page /\ v4'.loading = v4.loading /\ v4'.loaded = v4.loaded
        /\ v4'.form = i /\ v4'.dialog = v4.dialog /\ v4'.map = v4.map
        BY <1>0, <1>2, <2>1 DEF Catalog!StartEdit, Catalog!Page, Catalog!MaybeItem
  <2> QED BY <1>1, <1>2, <2>1, <2>2, ClickFacts, CatalogConstants, ShowKeeps DEF Catalog!StartEdit
<1>3. ASSUME NEW i \in Items, Catalog!OpenLayout(i) PROVE Catalog!CatalogInv'
  <2>1. v2[i] # Unborn /\ v4.dialog = None /\ v1 = "vehicles"
        BY <1>3, ClickFacts DEF Catalog!OpenLayout, Catalog!Table
  <2>2. /\ v4' \in Catalog!Page /\ v4'.loading = v4.loading /\ v4'.loaded = v4.loaded
        /\ v4'.form = v4.form /\ v4'.dialog = i /\ v4'.map = v4.map
        BY <1>0, <1>3 DEF Catalog!OpenLayout, Catalog!Page, Catalog!MaybeItem
  <2> QED BY <1>1, <1>3, <2>1, <2>2, ClickFacts, CatalogConstants, ShowKeeps DEF Catalog!OpenLayout
<1>4. CASE Catalog!CancelEdit
  <2>1. /\ v4' \in Catalog!Page /\ v4'.loading = v4.loading /\ v4'.loaded = v4.loaded
        /\ v4'.form = None /\ v4'.dialog = v4.dialog /\ v4'.map = v4.map
        BY <1>0, <1>4 DEF Catalog!CancelEdit, Catalog!Page, Catalog!MaybeItem
  <2> QED BY <1>1, <1>4, <2>1, ClickFacts, CatalogConstants, ShowKeeps DEF Catalog!CancelEdit
<1>5. CASE Catalog!Preview
  <2>1. /\ v4' \in Catalog!Page /\ v4'.loading = v4.loading /\ v4'.loaded = v4.loaded
        /\ v4'.form = v4.form /\ v4'.dialog = v4.dialog /\ v4'.map = v4.dialog
        /\ v1 = "vehicles"
        BY <1>0, <1>5 DEF Catalog!Preview, Catalog!Page, Catalog!MaybeItem
  <2> QED BY <1>1, <1>5, <2>1, ClickFacts, CatalogConstants, ShowKeeps DEF Catalog!Preview
<1>6. CASE Catalog!CloseDialog
  <2>1. /\ v4' \in Catalog!Page /\ v4'.loading = v4.loading /\ v4'.loaded = v4.loaded
        /\ v4'.form = v4.form /\ v4'.dialog = None
        /\ v4'.map = IF v1 = "vehicles" THEN None ELSE v4.map
        BY <1>0, <1>6 DEF Catalog!CloseDialog, Catalog!Closed, Catalog!Page, Catalog!MaybeItem
  <2> QED BY <1>1, <1>6, <2>1, ClickFacts, CatalogConstants, ShowKeeps DEF Catalog!CloseDialog
<1> QED BY <1>2, <1>3, <1>4, <1>5, <1>6

------------------------------------------------------------------------------
(* Trip Service *)

\* A request that is served, or refused, and waits for its page.
LEMMA Turned ==
    ASSUME Catalog!CatalogInv, NEW s \in Slots, v5[s] # None, v5[s].step = "sent",
           NEW q \in Catalog!Work, v5' = [v5 EXCEPT ![s] = IF q.live THEN q ELSE None],
           q.op = v5[s].op, q.item = v5[s].item, q.live = v5[s].live,
           q.step \in {"done", "refused"},
           q.op \in {"create", "update", "status", "configure"} => q.row \in Catalog!Row,
           q.op # "fetch" => q.list = v5[s].list,
           UNCHANGED <<v1, v3, v4, v7>>
    PROVE  /\ v5' \in [Slots -> Catalog!Work \cup {None}]
           /\ v5'[s] = IF q.live THEN q ELSE None
           /\ \A t \in Slots \ {s} : v5'[t] = v5[t]
           /\ \A t \in Slots : v5'[t] # None => Catalog!WorkSound(v5'[t])
           /\ Catalog!HandlerSound'
           /\ Catalog!DialogSound' /\ Catalog!DialogShowsItsOwn'
<1>1. /\ v5' \in [Slots -> Catalog!Work \cup {None}]
      /\ v5'[s] = IF q.live THEN q ELSE None
      /\ \A t \in Slots \ {s} : v5'[t] = v5[t]
      BY CatalogFacts DEF Catalog!CatalogInv
<1>2. Catalog!WorkSound(v5[s])
      BY DEF Catalog!CatalogInv
<1>3. q.live => Catalog!WorkSound(q)
      BY <1>2 DEF Catalog!WorkSound
<1>4. \A t \in Slots : v5'[t] # None => Catalog!WorkSound(v5'[t])
      BY <1>1, <1>3 DEF Catalog!CatalogInv
<1>5. Catalog!HandlerSound'
  <2>1. ASSUME NEW t \in Slots, Catalog!Live(t)'
        PROVE  /\ Catalog!Live(t)
               /\ v5'[t].op = v5[t].op /\ v5'[t].item = v5[t].item
               /\ v5'[t].op \in Catalog!Writes => v5'[t].list = v5[t].list
        BY <1>1, <2>1 DEF Catalog!Live, Catalog!Writes
  <2> QED BY <2>1 DEF Catalog!CatalogInv, Catalog!HandlerSound
<1>6. Catalog!DialogSound' /\ Catalog!DialogShowsItsOwn'
  <2>1. \A t \in Slots : v5'[t] # None => v5[t] # None /\ v5'[t].op = v5[t].op
        BY <1>1
  <2> QED BY <2>1 DEF Catalog!CatalogInv, Catalog!DialogSound, Catalog!DialogShowsItsOwn
<1> QED BY <1>1, <1>4, <1>5, <1>6

LEMMA RefuseKeeps ==
    ASSUME Catalog!CatalogInv, NEW s \in Slots, v5[s] # None, v5[s].step = "sent",
           Catalog!Refuse(s), UNCHANGED <<v1, v3, v4, v7>>
    PROVE  Catalog!CatalogInv'
<1> DEFINE w == v5[s]
<1>1. PICK q : q = [w EXCEPT !.step = "refused"]
      OBVIOUS
<1>2. w \in Catalog!Work /\ Catalog!WorkSound(w)
      BY CatalogFacts DEF Catalog!CatalogInv
<1>3. /\ q \in Catalog!Work /\ q.op = w.op /\ q.item = w.item /\ q.live = w.live
      /\ q.step = "refused" /\ q.row = w.row /\ q.list = w.list
      BY <1>1, <1>2 DEF Catalog!Work
<1>4. v5' = [v5 EXCEPT ![s] = IF q.live THEN q ELSE None] /\ UNCHANGED <<v2, v6, v8>>
      BY <1>1 DEF Catalog!Refuse, Catalog!Answer
<1>5. q.op \in {"create", "update", "status", "configure"} => q.row \in Catalog!Row
      BY <1>2, <1>3 DEF Catalog!WorkSound
<1>6. /\ v5' \in [Slots -> Catalog!Work \cup {None}]
      /\ v5'[s] = IF q.live THEN q ELSE None
      /\ \A t \in Slots \ {s} : v5'[t] = v5[t]
      /\ \A t \in Slots : v5'[t] # None => Catalog!WorkSound(v5'[t])
      /\ Catalog!HandlerSound'
      /\ Catalog!DialogSound' /\ Catalog!DialogShowsItsOwn'
      BY <1>3, <1>4, <1>5, Turned
<1>7. Catalog!TypeOK'
      BY <1>4, <1>6, ClicksTyped DEF Catalog!CatalogInv, Catalog!TypeOK
<1> HIDE DEF w
<1>8. Catalog!BirthSound'
      BY <1>3, <1>4, <1>6 DEF Catalog!CatalogInv, Catalog!BirthSound, w
<1>9. Catalog!ListSound'
  <2>1. \A t \in Slots : Catalog!Done(t)' <=> Catalog!Done(t) /\ t # s
        BY <1>3, <1>6 DEF Catalog!Done, w
  <2>2. ~Catalog!Done(s)
        BY DEF Catalog!Done
  <2>3. \A t \in Slots : Catalog!Done(t)' => Catalog!Done(t) /\ v5'[t] = v5[t]
        BY <1>6, <2>1
  <2> QED BY <1>4, <2>1, <2>2, <2>3 DEF Catalog!CatalogInv, Catalog!ListSound, Catalog!Rows, Catalog!Stored
<1> QED BY <1>6, <1>7, <1>8, <1>9 DEF Catalog!CatalogInv

LEMMA AnswersKeep ==
    ASSUME Catalog!CatalogInv, NEW s \in Slots, v5[s] # None, v5[s].step = "sent",
           v5[s].op \in {"fetch", "seats", "block"},
           NEW l \in Catalog!Lists, l = IF v5[s].op = "fetch" THEN Catalog!Rows ELSE v5[s].list,
           Catalog!Answer(s, [v5[s] EXCEPT !.step = "done", !.list = l]),
           v6' = IF v5[s].op = "fetch" THEN {} ELSE v6,
           UNCHANGED <<v1, v2, v3, v4, v7, v8>>
    PROVE  Catalog!CatalogInv'
<1> DEFINE w == v5[s]
<1>1. PICK q : q = [w EXCEPT !.step = "done", !.list = l]
      OBVIOUS
<1>2. w \in Catalog!Work /\ Catalog!WorkSound(w) /\ w.live /\ Catalog!Live(s)
      BY CatalogFacts DEF Catalog!CatalogInv, Catalog!WorkSound, Catalog!Writes, Catalog!Live
<1>3. /\ q \in Catalog!Work /\ q.op = w.op /\ q.item = w.item /\ q.live = TRUE
      /\ q.step = "done" /\ q.row = w.row /\ q.list = l
      BY <1>1, <1>2 DEF Catalog!Work
<1>4. v5' = [v5 EXCEPT ![s] = IF q.live THEN q ELSE None]
      BY <1>1, <1>2, <1>3 DEF Catalog!Answer
<1> HIDE DEF w
<1>6. /\ v5' \in [Slots -> Catalog!Work \cup {None}]
      /\ v5'[s] = q
      /\ \A t \in Slots \ {s} : v5'[t] = v5[t]
      /\ \A t \in Slots : v5'[t] # None => Catalog!WorkSound(v5'[t])
      /\ Catalog!HandlerSound'
      /\ Catalog!DialogSound' /\ Catalog!DialogShowsItsOwn'
      BY <1>2, <1>3, <1>4, Turned DEF w
<1>7. Catalog!TypeOK'
      BY <1>6, ClicksTyped DEF Catalog!CatalogInv, Catalog!TypeOK
<1>8. Catalog!BirthSound'
  <2>1. \A i \in Items : v2[i] = Unborn => l[i] = None
        BY CatalogFacts, CatalogConstants DEF Catalog!CatalogInv, Catalog!BirthSound
  <2>2. q.op # "create" /\ q.op \in {"fetch", "seats", "block"}
        BY <1>3 DEF w
  <2>3. q.op # "fetch" => v2[q.item] # Unborn
        BY <1>3, <2>2 DEF Catalog!CatalogInv, Catalog!BirthSound, w
  <2>4. ASSUME NEW t \in Slots, v5'[t] # None, v5'[t].op = "create", v5'[t].step = "sent"
        PROVE  /\ v2[v5'[t].item] = Unborn
               /\ \A u \in Slots \ {t} : v5'[u] # None => v5'[u].item # v5'[t].item
        BY <1>3, <1>6, <2>2, <2>4 DEF Catalog!CatalogInv, Catalog!BirthSound, w
  <2>5. ASSUME NEW i \in Items, v2[i] = Unborn
        PROVE  /\ v3[i] = None /\ i \notin {v4.form, v4.dialog, v4.map}
               /\ \A t \in Slots : v5'[t] # None => v5'[t].list[i] = None
        BY <1>3, <1>6, <2>1, <2>5 DEF Catalog!CatalogInv, Catalog!BirthSound
  <2>6. ASSUME NEW t \in Slots, v5'[t] # None, v5'[t].op # "fetch", v2[v5'[t].item] = Unborn
        PROVE  v5'[t].op = "create" /\ v5'[t].step # "done"
        BY <1>6, <2>3, <2>6 DEF Catalog!CatalogInv, Catalog!BirthSound
  <2> QED BY <2>4, <2>5, <2>6 DEF Catalog!BirthSound
<1>9. Catalog!ListSound'
  <2>1. \A t \in Slots : Catalog!Done(t)' <=> t = s
        BY <1>2, <1>3, <1>6, OneHandler, CatalogConstants DEF Catalog!Done
  <2>2. \A t \in Slots : ~Catalog!Done(t)
        BY <1>2, OneHandler DEF Catalog!Done
  <2>3. Catalog!Rows' = Catalog!Rows
        BY DEF Catalog!Rows, Catalog!Stored
  <2>4. ASSUME v4.loaded \/ q.op = "fetch", NEW i \in Items \ v6'
        PROVE  Catalog!Relisted(q, v3)[i] = Catalog!Rows[i]
    <3>1. CASE q.op = "fetch"
          BY <1>3, <3>1 DEF Catalog!Relisted, w
    <3>2. CASE q.op # "fetch"
      <4>1. Catalog!Relisted(q, v3) = v3
            BY <1>3, <3>2 DEF Catalog!Relisted, w
      <4>2. v4.loaded /\ i \notin v6
            BY <1>3, <2>4, <3>2 DEF w
      <4> QED BY <2>2, <4>1, <4>2 DEF Catalog!CatalogInv, Catalog!ListSound
    <3> QED BY <3>1, <3>2
  <2> QED BY <1>6, <2>1, <2>3, <2>4 DEF Catalog!ListSound
<1> QED BY <1>6, <1>7, <1>8, <1>9 DEF Catalog!CatalogInv

\* A row changes, and the page does not know.
LEMMA BehindKeeps ==
    ASSUME Catalog!CatalogInv, NEW i \in Items,
           v2' \in [Items -> Catalog!Row \cup {Unborn, Deleted}], v2'[i] # Unborn,
           \A j \in Items \ {i} : v2'[j] = v2[j],
           v6' = v6 \cup {i}, v8' \in SUBSET Items, UNCHANGED <<v1, v3, v4>>,
           v7' = v7 \/ Catalog!Counted,
           v5' \in [Slots -> Catalog!Work \cup {None}],
           \A t \in Slots : v5'[t] = v5[t] \/ (v5'[t] = None /\ ~Catalog!Live(t)),
           \A t \in Slots : v5'[t] # None /\ v5'[t].op = "create" /\ v5'[t].step = "sent" =>
               v5'[t].item # i
    PROVE  Catalog!CatalogInv'
<1>1. Catalog!TypeOK'
      BY ClicksTyped DEF Catalog!CatalogInv, Catalog!TypeOK
<1>2. \A t \in Slots : v5'[t] # None => v5'[t] = v5[t] /\ v5[t] # None
      OBVIOUS
<1>3. \A t \in Slots : v5'[t] # None => Catalog!WorkSound(v5'[t])
      BY <1>2 DEF Catalog!CatalogInv
<1>4. \A t \in Slots : Catalog!Done(t) => Catalog!Live(t)
      BY OneHandler
<1>5. \A t \in Slots : (Catalog!Live(t)' <=> Catalog!Live(t)) /\ (Catalog!Done(t)' <=> Catalog!Done(t))
      BY <1>2, <1>4 DEF Catalog!Live, Catalog!Done
<1>6. Catalog!BirthSound'
  <2>1. ASSUME NEW j \in Items, v2'[j] = Unborn
        PROVE  /\ v3[j] = None /\ j \notin {v4.form, v4.dialog, v4.map}
               /\ \A t \in Slots : v5'[t] # None => v5'[t].list[j] = None
        BY <1>2, <2>1 DEF Catalog!CatalogInv, Catalog!BirthSound
  <2>2. ASSUME NEW t \in Slots, v5'[t] # None, v5'[t].op # "fetch", v2'[v5'[t].item] = Unborn
        PROVE  v5'[t].op = "create" /\ v5'[t].step # "done"
        BY <1>2, <1>3, <2>2 DEF Catalog!CatalogInv, Catalog!BirthSound, Catalog!WorkSound
  <2>3. ASSUME NEW t \in Slots, v5'[t] # None, v5'[t].op = "create", v5'[t].step = "sent"
        PROVE  /\ v2'[v5'[t].item] = Unborn
               /\ \A u \in Slots \ {t} : v5'[u] # None => v5'[u].item # v5'[t].item
    <3>1. /\ v2[v5[t].item] = Unborn
          /\ \A u \in Slots \ {t} : v5[u] # None => v5[u].item # v5[t].item
          BY <1>2, <2>3 DEF Catalog!CatalogInv, Catalog!BirthSound
    <3>2. v5'[t].item \in Items \ {i}
          BY <1>3, <2>3 DEF Catalog!WorkSound
    <3> QED BY <1>2, <2>3, <3>1, <3>2
  <2> QED BY <2>1, <2>2, <2>3 DEF Catalog!BirthSound
<1>7. Catalog!HandlerSound'
      BY <1>2, <1>5 DEF Catalog!CatalogInv, Catalog!HandlerSound, Catalog!Live
<1>8. Catalog!ListSound'
  <2>1. \A j \in Items \ v6' : Catalog!Rows'[j] = Catalog!Rows[j]
        BY DEF Catalog!Rows, Catalog!Stored
  <2>2. \A t \in Slots : Catalog!Done(t)' => v5'[t] = v5[t]
        BY <1>2 DEF Catalog!Done
  <2> QED BY <1>5, <2>1, <2>2 DEF Catalog!CatalogInv, Catalog!ListSound
<1>9. Catalog!DialogSound' /\ Catalog!DialogShowsItsOwn'
      BY <1>2 DEF Catalog!CatalogInv, Catalog!DialogSound, Catalog!DialogShowsItsOwn
<1> QED BY <1>1, <1>3, <1>6, <1>7, <1>8, <1>9 DEF Catalog!CatalogInv

\* What a write leaves, if it is accepted.
LEMMA ExecutedTyped ==
    ASSUME Catalog!CatalogInv, NEW w \in Catalog!Work, Catalog!WorkSound(w),
           w.op \in Catalog!Writes, Catalog!Accepted(w)
    PROVE  /\ w.item \in Items
           /\ Catalog!Executed(w) \in Catalog!Row \cup {Deleted}
           /\ w.op = "create" => Catalog!Executed(w) = w.row
           /\ w.op = "update" =>
                 /\ Catalog!Executed(w) \in Catalog!Row /\ v2[w.item] \in Catalog!Row
                 /\ (v1 = "vehicles" => w.item \in v8) =>
                       Catalog!Executed(w).state = v2[w.item].state
           /\ w.op = "delete" => Catalog!Executed(w) = Deleted
           /\ w.op \in {"status", "configure"} =>
                 /\ v2[w.item] \in Catalog!Row
                 /\ Catalog!Executed(w) = [v2[w.item] EXCEPT !.state = w.row.state]
           /\ w.op # "create" => v2[w.item] \in Catalog!Row
<1>1. w.item \in Items /\ w.op # "fetch"
      BY DEF Catalog!WorkSound, Catalog!Writes
<1>2. Catalog!Stored(w.item) <=> v2[w.item] \in Catalog!Row
      BY <1>1, CatalogFacts DEF Catalog!CatalogInv
<1>3. CASE w.op = "create"
      BY <1>1, <1>3 DEF Catalog!Executed, Catalog!WorkSound
<1>4. CASE w.op = "update"
  <2>1. v2[w.item] \in Catalog!Row /\ w.row \in Catalog!Row
        BY <1>2, <1>4 DEF Catalog!Accepted, Catalog!Found, Catalog!WorkSound
  <2>2. Catalog!Executed(w) = IF v1 = "vehicles" THEN w.row
                              ELSE [v2[w.item] EXCEPT !.fields = w.row.fields]
        BY <1>2, <1>4, <2>1 DEF Catalog!Executed, Catalog!Edited
  <2>3. /\ [v2[w.item] EXCEPT !.fields = w.row.fields] \in Catalog!Row
        /\ [v2[w.item] EXCEPT !.fields = w.row.fields].state = v2[w.item].state
        BY <2>1 DEF Catalog!Row
  <2>4. w.item \in v8 => w.row.state = v2[w.item].state
        BY <1>2, <1>4, <2>1 DEF Catalog!Accepted, Catalog!EditAccepted
  <2> QED BY <1>1, <1>4, <2>1, <2>2, <2>3, <2>4
<1>5. CASE w.op = "delete"
      BY <1>1, <1>2, <1>5 DEF Catalog!Executed, Catalog!Accepted
<1>6. CASE w.op \in {"status", "configure"}
  <2>1. v2[w.item] \in Catalog!Row /\ w.row \in Catalog!Row
        BY <1>2, <1>6 DEF Catalog!Accepted, Catalog!WorkSound
  <2>2. Catalog!Executed(w) = [v2[w.item] EXCEPT !.state = w.row.state]
        BY <1>6 DEF Catalog!Executed
  <2>3. [v2[w.item] EXCEPT !.state = w.row.state] \in Catalog!Row
        BY <2>1 DEF Catalog!Row
  <2> QED BY <1>1, <1>6, <2>1, <2>2, <2>3
<1> QED BY <1>3, <1>4, <1>5, <1>6 DEF Catalog!Writes

LEMMA RelistedTyped ==
    ASSUME NEW w \in Catalog!Work, Catalog!WorkSound(w), w.live, NEW l \in Catalog!Lists
    PROVE  /\ Catalog!Relisted(w, l) \in Catalog!Lists
           /\ w.op = "fetch" => Catalog!Relisted(w, l) = w.list
           /\ w.op \in {"seats", "block"} => Catalog!Relisted(w, l) = l
           /\ w.op \in Catalog!Writes =>
                 \A i \in Items : i # w.item => Catalog!Relisted(w, l)[i] = w.list[i]
           /\ w.op \in {"create", "update"} => Catalog!Relisted(w, l)[w.item] = w.row
           /\ w.op = "delete" => Catalog!Relisted(w, l)[w.item] = None
           /\ w.op \in {"status", "configure"} =>
                 Catalog!Relisted(w, l)[w.item] = [w.list[w.item] EXCEPT !.state = w.row.state]
<1>1. w.list \in Catalog!Lists /\ w.op \in Catalog!Ops
      BY DEF Catalog!Work
<1>2. CASE w.op = "fetch"
      BY <1>1, <1>2 DEF Catalog!Relisted, Catalog!Writes
<1>3. CASE w.op \in {"seats", "block"}
      BY <1>1, <1>3 DEF Catalog!Relisted, Catalog!Writes
<1>4. CASE w.op \in {"create", "update"}
  <2>1. w.item \in Items /\ w.row \in Catalog!Row
        BY <1>4 DEF Catalog!WorkSound
  <2>2. Catalog!Relisted(w, l) = [w.list EXCEPT ![w.item] = w.row]
        BY <1>4 DEF Catalog!Relisted
  <2> QED BY <1>1, <1>4, <2>1, <2>2 DEF Catalog!Lists
<1>5. CASE w.op = "delete"
  <2>1. w.item \in Items
        BY <1>5 DEF Catalog!WorkSound
  <2>2. Catalog!Relisted(w, l) = [w.list EXCEPT ![w.item] = None]
        BY <1>5 DEF Catalog!Relisted
  <2> QED BY <1>1, <1>5, <2>1, <2>2 DEF Catalog!Lists
<1>6. CASE w.op \in {"status", "configure"}
  <2>1. w.item \in Items /\ w.row \in Catalog!Row /\ w.list[w.item] # None
        BY <1>6 DEF Catalog!WorkSound
  <2>2. Catalog!Relisted(w, l) =
           [w.list EXCEPT ![w.item] = [w.list[w.item] EXCEPT !.state = w.row.state]]
        BY <1>6 DEF Catalog!Relisted
  <2>3. [w.list[w.item] EXCEPT !.state = w.row.state] \in Catalog!Row
        BY <1>1, <2>1 DEF Catalog!Lists, Catalog!Row
  <2> QED BY <1>1, <1>6, <2>1, <2>2, <2>3 DEF Catalog!Lists
<1> QED BY <1>1, <1>2, <1>3, <1>4, <1>5, <1>6 DEF Catalog!Ops

LEMMA WritesServed ==
    ASSUME Catalog!CatalogInv, NEW s \in Slots, v5[s] # None, v5[s].step = "sent",
           v5[s].op \in Catalog!Writes, Catalog!Accepted(v5[s]),
           v2' = [v2 EXCEPT ![v5[s].item] = Catalog!Executed(v5[s])],
           Catalog!Answer(s, [v5[s] EXCEPT !.step = "done",
                              !.row = IF v5[s].op = "update" THEN v2'[v5[s].item] ELSE v5[s].row]),
           v6' = Catalog!Behind(s), v8' = Catalog!LaidBy(v5[s]), UNCHANGED <<v1, v3, v4, v7>>
    PROVE  Catalog!CatalogInv'
<1> DEFINE w == v5[s]
           i == w.item
<1>1. w \in Catalog!Work /\ Catalog!WorkSound(w)
      BY CatalogFacts DEF Catalog!CatalogInv
<1>2. /\ i \in Items /\ v2' \in [Items -> Catalog!Row \cup {Unborn, Deleted}]
      /\ v2'[i] = Catalog!Executed(w) /\ v2'[i] \in Catalog!Row \cup {Deleted}
      /\ \A j \in Items \ {i} : v2'[j] = v2[j]
      BY <1>1, CatalogFacts, ExecutedTyped DEF Catalog!CatalogInv
<1>3. v2'[i] # Unborn /\ v8' \in SUBSET Items
      BY <1>2, CatalogFacts, CatalogConstants DEF Catalog!LaidBy, Catalog!CatalogInv
<1>4. CASE ~w.live
  <2>1. v6' = v6 \cup {i}
        BY <1>4 DEF Catalog!Behind
  <2>2. v5' = [v5 EXCEPT ![s] = None]
        BY <1>1, <1>4 DEF Catalog!Answer, Catalog!Work
  <2>3. /\ v5' \in [Slots -> Catalog!Work \cup {None}]
        /\ v5'[s] = None /\ \A t \in Slots \ {s} : v5'[t] = v5[t]
        BY <2>2, CatalogFacts DEF Catalog!CatalogInv
  <2>4. ~Catalog!Live(s)
        BY <1>4 DEF Catalog!Live
  <2>5. ASSUME NEW t \in Slots, v5'[t] # None, v5'[t].op = "create", v5'[t].step = "sent"
        PROVE  v5'[t].item # i
        BY <2>3, <2>5 DEF Catalog!CatalogInv, Catalog!BirthSound
  <2> HIDE DEF w, i
  <2> QED BY <1>2, <1>3, <2>1, <2>3, <2>4, <2>5, BehindKeeps
<1>5. CASE w.live
  <2>1. PICK q : q = [w EXCEPT !.step = "done",
                               !.row = IF w.op = "update" THEN v2'[i] ELSE w.row]
        OBVIOUS
  <2>2. w.op = "update" => v2'[i] \in Catalog!Row
        BY <1>1, <1>2, ExecutedTyped
  <2>3. /\ q \in Catalog!Work /\ q.op = w.op /\ q.item = i /\ q.live = TRUE
        /\ q.step = "done" /\ q.list = w.list
        /\ q.row = IF w.op = "update" THEN v2'[i] ELSE w.row
        BY <1>1, <1>5, <2>1, <2>2 DEF Catalog!Work
  <2>4. v5' = [v5 EXCEPT ![s] = IF q.live THEN q ELSE None] /\ v6' = v6
        BY <1>5, <2>1, <2>3 DEF Catalog!Answer, Catalog!Behind
  <2>5. q.op \in {"create", "update", "status", "configure"} => q.row \in Catalog!Row
        BY <1>1, <2>2, <2>3 DEF Catalog!WorkSound
  <2>6. Catalog!Live(s) /\ w.list = v3
        BY <1>5 DEF Catalog!CatalogInv, Catalog!HandlerSound, Catalog!Live
  <2>7. /\ v5' \in [Slots -> Catalog!Work \cup {None}]
        /\ v5'[s] = q
        /\ \A t \in Slots \ {s} : v5'[t] = v5[t]
        /\ \A t \in Slots : v5'[t] # None => Catalog!WorkSound(v5'[t])
        /\ Catalog!HandlerSound'
        /\ Catalog!DialogSound' /\ Catalog!DialogShowsItsOwn'
        BY <1>5, <2>3, <2>4, <2>5, Turned
  <2>8. Catalog!TypeOK'
        BY <1>2, <1>3, <2>4, <2>7, ClicksTyped DEF Catalog!CatalogInv, Catalog!TypeOK
  <2>9. Catalog!BirthSound'
    <3>1. ASSUME NEW j \in Items, v2'[j] = Unborn
          PROVE  /\ v3[j] = None /\ j \notin {v4.form, v4.dialog, v4.map}
                 /\ \A t \in Slots : v5'[t] # None => v5'[t].list[j] = None
      <4>1. v2[j] = Unborn
            BY <1>2, <1>3, <3>1
      <4> QED BY <2>3, <2>7, <4>1 DEF Catalog!CatalogInv, Catalog!BirthSound
    <3>2. ASSUME NEW t \in Slots, v5'[t] # None, v5'[t].op # "fetch", v2'[v5'[t].item] = Unborn
          PROVE  v5'[t].op = "create" /\ v5'[t].step # "done"
      <4>1. v5'[t].item \in Items /\ v5'[t].item # i
            BY <1>3, <2>7, <3>2 DEF Catalog!WorkSound
      <4>2. t # s /\ v5'[t] = v5[t] /\ v2[v5[t].item] = Unborn
            BY <1>2, <2>3, <2>7, <3>2, <4>1
      <4> QED BY <3>2, <4>2 DEF Catalog!CatalogInv, Catalog!BirthSound
    <3>3. ASSUME NEW t \in Slots, v5'[t] # None, v5'[t].op = "create", v5'[t].step = "sent"
          PROVE  /\ v2'[v5'[t].item] = Unborn
                 /\ \A u \in Slots \ {t} : v5'[u] # None => v5'[u].item # v5'[t].item
      <4>1. t # s /\ v5'[t] = v5[t]
            BY <2>3, <2>7, <3>3
      <4>2. /\ v2[v5[t].item] = Unborn /\ v5[t].item # i
            /\ \A u \in Slots \ {t} : v5[u] # None => v5[u].item # v5[t].item
            BY <3>3, <4>1 DEF Catalog!CatalogInv, Catalog!BirthSound
      <4>3. v5[t].item \in Items
            BY <2>7, <3>3, <4>1 DEF Catalog!WorkSound
      <4> QED BY <1>2, <2>3, <2>7, <4>1, <4>2, <4>3
    <3> QED BY <3>1, <3>2, <3>3 DEF Catalog!BirthSound
  <2>10. Catalog!ListSound'
    <3>1. \A t \in Slots : Catalog!Done(t)' <=> t = s
          BY <2>3, <2>6, <2>7, OneHandler, CatalogConstants DEF Catalog!Done
    <3>2. \A t \in Slots : ~Catalog!Done(t)
          BY <2>6, OneHandler DEF Catalog!Done
    <3>3. \A j \in Items \ {i} : Catalog!Rows'[j] = Catalog!Rows[j]
          BY <1>2 DEF Catalog!Rows, Catalog!Stored
    <3>4. Catalog!Rows'[i] = IF v2'[i] = Deleted THEN None ELSE v2'[i]
          BY <1>2, <1>3 DEF Catalog!Rows, Catalog!Stored
    <3>5. q.op # "fetch"
          BY <2>3 DEF Catalog!Writes
    <3>6. ASSUME v4.loaded, NEW j \in Items \ v6
          PROVE  Catalog!Relisted(q, v3)[j] = Catalog!Rows'[j]
      <4>1. v3[j] = Catalog!Rows[j]
            BY <3>2, <3>6 DEF Catalog!CatalogInv, Catalog!ListSound
      <4>2. Catalog!WorkSound(q) /\ v3 \in Catalog!Lists /\ q.list = v3
            BY <2>3, <2>6, <2>7, CatalogFacts, CatalogConstants DEF Catalog!CatalogInv
      <4>3. CASE j # i
            BY <2>3, <3>3, <4>1, <4>2, <4>3, RelistedTyped
      <4>4. CASE j = i /\ w.op \in {"create", "update"}
        <5>0. q.op \in {"create", "update"}
              BY <2>3, <4>4
        <5>1. Catalog!Relisted(q, v3)[q.item] = q.row
              BY <2>3, <4>2, <5>0, RelistedTyped
        <5>2. q.row = v2'[i] /\ q.row \in Catalog!Row
              BY <1>1, <1>2, <2>3, <2>5, <4>4, ExecutedTyped
        <5> QED BY <2>3, <3>4, <4>4, <5>1, <5>2, CatalogConstants
      <4>5. CASE j = i /\ w.op = "delete"
        <5>0. q.op = "delete"
              BY <2>3, <4>5
        <5>1. Catalog!Relisted(q, v3)[q.item] = None
              BY <2>3, <4>2, <5>0, RelistedTyped
        <5>2. v2'[i] = Deleted
              BY <1>1, <1>2, <4>5, ExecutedTyped
        <5> QED BY <2>3, <3>4, <4>5, <5>1, <5>2
      <4>6. CASE j = i /\ w.op \in {"status", "configure"}
        <5>1. Catalog!Relisted(q, v3)[i] = [v3[i] EXCEPT !.state = w.row.state]
              BY <2>3, <4>2, <4>6, RelistedTyped
        <5>2. v2'[i] = [v2[i] EXCEPT !.state = w.row.state] /\ v2[i] \in Catalog!Row
              BY <1>1, <1>2, <4>6, ExecutedTyped
        <5>3. v3[i] = v2[i]
              BY <1>2, <4>1, <4>6, <5>2, CatalogFacts DEF Catalog!CatalogInv
        <5>4. [v2[i] EXCEPT !.state = w.row.state] \in Catalog!Row
              BY <1>1, <4>6, <5>2 DEF Catalog!WorkSound, Catalog!Row
        <5> QED BY <3>4, <4>6, <5>1, <5>2, <5>3, <5>4, CatalogConstants
      <4> QED BY <4>3, <4>4, <4>5, <4>6 DEF Catalog!Writes
    <3> HIDE DEF w, i
    <3> QED BY <2>4, <2>7, <3>1, <3>5, <3>6 DEF Catalog!ListSound
  <2> QED BY <2>7, <2>8, <2>9, <2>10 DEF Catalog!CatalogInv
<1> QED BY <1>4, <1>5

LEMMA ServeKeeps ==
    ASSUME Catalog!CatalogInv, NEW s \in Slots, Catalog!Serve(s)
    PROVE  Catalog!CatalogInv'
<1> DEFINE w == v5[s]
<1>1. w # None /\ w.step = "sent" /\ UNCHANGED <<v1, v3, v4, v7>> /\ w \in Catalog!Work
      BY CatalogFacts DEF Catalog!Serve, Catalog!CatalogInv
<1>2. CASE Catalog!Refuse(s)
      BY <1>1, <1>2, RefuseKeeps
<1>3. CASE w.op = "fetch" /\ Catalog!Answer(s, Catalog!Listed(w)) /\ v6' = {}
              /\ UNCHANGED <<v2, v8>>
      BY <1>1, <1>3, AnswersKeep, CatalogFacts DEF Catalog!Listed, Catalog!CatalogInv
<1>4. CASE /\ w.op \in {"seats", "block"} /\ Catalog!Answer(s, [w EXCEPT !.step = "done"])
           /\ UNCHANGED <<v2, v6, v8>>
  <2>1. [w EXCEPT !.step = "done"] = [w EXCEPT !.step = "done", !.list = w.list]
        BY <1>1 DEF Catalog!Work
  <2>2. w.list \in Catalog!Lists
        BY <1>1 DEF Catalog!Work
  <2> QED BY <1>1, <1>4, <2>1, <2>2, AnswersKeep
<1>5. CASE /\ w.op \in Catalog!Writes /\ Catalog!Accepted(w)
           /\ v2' = [v2 EXCEPT ![w.item] = Catalog!Executed(w)]
           /\ Catalog!Answer(s, [w EXCEPT !.step = "done",
                                !.row = IF w.op = "update" THEN v2'[w.item] ELSE w.row])
           /\ v6' = Catalog!Behind(s) /\ v8' = Catalog!LaidBy(w)
      BY <1>1, <1>5, WritesServed
<1> QED BY <1>2, <1>3, <1>4, <1>5 DEF Catalog!Serve

LEMMA OtherEditsKeep ==
    ASSUME Catalog!CatalogInv, NEW i \in Items, Catalog!OtherEdits(i)
    PROVE  Catalog!CatalogInv'
<1>1. v2[i] \in Catalog!Row /\ v2 \in [Items -> Catalog!Row \cup {Unborn, Deleted}]
      BY CatalogFacts DEF Catalog!OtherEdits, Catalog!CatalogInv
<1>2. PICK r \in Catalog!Row \cup {Deleted} : v2' = [v2 EXCEPT ![i] = r]
  <2>1. \A f \in Fields, state \in Catalog!Typed :
           Catalog!Edited(i, [fields |-> f, state |-> state]) \in Catalog!Row
        BY <1>1, TypedStates DEF Catalog!Edited, Catalog!Row
  <2>2. \A state \in Catalog!States : [v2[i] EXCEPT !.state = state] \in Catalog!Row
        BY <1>1 DEF Catalog!Row
  <2>3. \A number \in Catalog!Numbers : [v2[i] EXCEPT !.state = number] \in Catalog!Row
        BY <2>2, TypedStates
  <2> QED BY <2>1, <2>2, <2>3 DEF Catalog!OtherEdits
<1>3. /\ v2' \in [Items -> Catalog!Row \cup {Unborn, Deleted}] /\ v2'[i] # Unborn
      /\ \A j \in Items \ {i} : v2'[j] = v2[j]
      BY <1>1, <1>2, CatalogConstants
<1>4. /\ UNCHANGED <<v1, v3, v4, v5>> /\ Catalog!Counted /\ v6' = v6 \cup {i}
      /\ v8' \in SUBSET Items
      BY CatalogFacts DEF Catalog!OtherEdits, Catalog!CatalogInv
<1>5. \A t \in Slots : v5[t] # None /\ v5[t].op = "create" /\ v5[t].step = "sent" => v5[t].item # i
      BY <1>1, CatalogConstants DEF Catalog!CatalogInv, Catalog!BirthSound
<1>6. v5' \in [Slots -> Catalog!Work \cup {None}]
      BY <1>4, CatalogFacts DEF Catalog!CatalogInv
<1> QED BY <1>3, <1>4, <1>5, <1>6, BehindKeeps

------------------------------------------------------------------------------
(* Handlers *)

\* The handler in slot s ends; of its request a may be left.
LEMMA EndedKeeps ==
    ASSUME Catalog!CatalogInv, NEW s \in Slots, Catalog!Live(s),
           NEW a \in Catalog!Work \cup {None}, v5' = [v5 EXCEPT ![s] = a],
           a # None => /\ Catalog!WorkSound(a) /\ ~a.live
                       /\ a.op = v5[s].op /\ a.item = v5[s].item /\ a.step = "sent"
                       /\ v5[s].step = "sent" /\ a.op \in Catalog!Writes /\ a.list = Catalog!Empty,
           UNCHANGED <<v1, v2, v7, v8>>, v3' \in Catalog!Lists, v6' \in SUBSET Items,
           v4' \in Catalog!Page, ~v4'.loading,
           \A i \in Items : v2[i] = Unborn => v3'[i] = None /\ i \notin {v4'.form, v4'.dialog, v4'.map},
           v4'.loaded => \A i \in Items \ v6' : v3'[i] = Catalog!Rows[i],
           v1 # "plain" /\ v4'.dialog # None => v4'.map \in {None, v4'.dialog},
           v1 = "vehicles" => v4'.map \in {None, v4'.dialog},
           v1 = "plain" => v4'.dialog = None
    PROVE  Catalog!CatalogInv'
<1>1. /\ v5' \in [Slots -> Catalog!Work \cup {None}] /\ v5'[s] = a
      /\ \A t \in Slots \ {s} : v5'[t] = v5[t]
      BY CatalogFacts DEF Catalog!CatalogInv
<1>2. \A t \in Slots : ~Catalog!Live(t)' /\ ~Catalog!Done(t)'
      BY <1>1, OneHandler DEF Catalog!Live, Catalog!Done
<1>3. Catalog!TypeOK'
      BY <1>1, ClicksTyped DEF Catalog!CatalogInv, Catalog!TypeOK
<1>4. \A t \in Slots : v5'[t] # None => Catalog!WorkSound(v5'[t])
      BY <1>1 DEF Catalog!CatalogInv
<1>5. Catalog!BirthSound'
  <2>1. ASSUME NEW i \in Items, v2[i] = Unborn
        PROVE  /\ v3'[i] = None /\ i \notin {v4'.form, v4'.dialog, v4'.map}
               /\ \A t \in Slots : v5'[t] # None => v5'[t].list[i] = None
        BY <1>1, <2>1, EmptyTyped DEF Catalog!CatalogInv, Catalog!BirthSound
  <2>2. ASSUME NEW t \in Slots, v5'[t] # None, v5'[t].op # "fetch", v2[v5'[t].item] = Unborn
        PROVE  v5'[t].op = "create" /\ v5'[t].step # "done"
        BY <1>1, <2>2 DEF Catalog!CatalogInv, Catalog!BirthSound, Catalog!Live
  <2>3. ASSUME NEW t \in Slots, v5'[t] # None, v5'[t].op = "create", v5'[t].step = "sent"
        PROVE  /\ v2[v5'[t].item] = Unborn
               /\ \A u \in Slots \ {t} : v5'[u] # None => v5'[u].item # v5'[t].item
    <3>1. v5[t] # None /\ v5[t].op = "create" /\ v5[t].step = "sent" /\ v5'[t].item = v5[t].item
          BY <1>1, <2>3 DEF Catalog!Live
    <3>2. /\ v2[v5[t].item] = Unborn
          /\ \A u \in Slots \ {t} : v5[u] # None => v5[u].item # v5[t].item
          BY <3>1 DEF Catalog!CatalogInv, Catalog!BirthSound
    <3>3. \A u \in Slots : v5'[u] # None => v5[u] # None /\ v5'[u].item = v5[u].item
          BY <1>1 DEF Catalog!Live
    <3> QED BY <3>1, <3>2, <3>3
  <2> QED BY <2>1, <2>2, <2>3 DEF Catalog!BirthSound
<1>6. Catalog!HandlerSound'
      BY <1>2 DEF Catalog!HandlerSound
<1>7. Catalog!ListSound'
  <2>1. Catalog!Rows' = Catalog!Rows
        BY DEF Catalog!Rows, Catalog!Stored
  <2> QED BY <1>2, <2>1 DEF Catalog!ListSound
<1>8. Catalog!DialogSound' /\ Catalog!DialogShowsItsOwn'
  <2>1. \A t \in Slots : v5'[t] # None => v5[t] # None /\ v5'[t].op = v5[t].op
        BY <1>1 DEF Catalog!Live
  <2> QED BY <2>1 DEF Catalog!CatalogInv, Catalog!DialogSound, Catalog!DialogShowsItsOwn
<1> QED BY <1>3, <1>4, <1>5, <1>6, <1>7, <1>8 DEF Catalog!CatalogInv

\* What a handler that waits finds.
LEMMA HandlerFacts ==
    ASSUME Catalog!CatalogInv, NEW s \in Slots, Catalog!Live(s)
    PROVE  /\ v5[s] \in Catalog!Work /\ Catalog!WorkSound(v5[s]) /\ v4 \in Catalog!Page
           /\ v3 \in Catalog!Lists
           /\ v5[s].op \in Catalog!Writes => v5[s].list = v3
           /\ v5[s].op = "fetch" => ~v4.loaded
           /\ v1 = "trips" /\ v4.dialog # None =>
                 /\ v5[s].op \in {"seats", "block"} /\ v5[s].item = v4.dialog
                 /\ v5[s].op = "block" => v4.map = v4.dialog
           /\ v5[s].op \in {"seats", "block"} => v1 = "trips"
           /\ v1 = "vehicles" => v4.map \in {None, v4.dialog}
           /\ v1 = "plain" => v4.dialog = None
           /\ v5[s].step # "done" /\ v4.loaded => \A i \in Items \ v6 : v3[i] = Catalog!Rows[i]
           /\ v5[s].step = "done" /\ (v4.loaded \/ v5[s].op = "fetch") =>
                 \A i \in Items \ v6 : Catalog!Relisted(v5[s], v3)[i] = Catalog!Rows[i]
<1>1. v5[s] \in Catalog!Work /\ v4 \in Catalog!Page /\ v3 \in Catalog!Lists
      BY CatalogFacts DEF Catalog!CatalogInv, Catalog!Live
<1>2. \A t \in Slots : Catalog!Done(t) => t = s
      BY OneHandler
<1>3. Catalog!Done(s) <=> v5[s].step = "done"
      BY DEF Catalog!Live, Catalog!Done
<1>4. /\ v5[s].step # "done" /\ v4.loaded => \A i \in Items \ v6 : v3[i] = Catalog!Rows[i]
      /\ v5[s].step = "done" /\ (v4.loaded \/ v5[s].op = "fetch") =>
            \A i \in Items \ v6 : Catalog!Relisted(v5[s], v3)[i] = Catalog!Rows[i]
      BY <1>2, <1>3 DEF Catalog!CatalogInv, Catalog!ListSound
<1>5. Catalog!WorkSound(v5[s])
      BY DEF Catalog!CatalogInv, Catalog!Live
<1>6. /\ v5[s].op \in Catalog!Writes => v5[s].list = v3
      /\ v5[s].op = "fetch" => ~v4.loaded
      /\ v1 = "trips" /\ v4.dialog # None =>
            /\ v5[s].op \in {"seats", "block"} /\ v5[s].item = v4.dialog
            /\ v5[s].op = "block" => v4.map = v4.dialog
      BY DEF Catalog!CatalogInv, Catalog!HandlerSound
<1>7. /\ v5[s].op \in {"seats", "block"} => v1 = "trips"
      /\ v1 = "vehicles" => v4.map \in {None, v4.dialog}
      /\ v1 = "plain" => v4.dialog = None
      BY DEF Catalog!CatalogInv, Catalog!DialogSound, Catalog!Live
<1> QED BY <1>1, <1>4, <1>5, <1>6, <1>7

\* The page after a handler.
LEMMA SucceededTyped ==
    ASSUME v4 \in Catalog!Page, NEW w \in Catalog!Work
    PROVE  LET p == Catalog!Succeeded(w) IN
           /\ p \in Catalog!Page /\ ~p.loading
           /\ p.loaded => w.op = "fetch" \/ v4.loaded
           /\ p.form \in {None, v4.form}
           /\ p.dialog = IF w.op = "configure" THEN None ELSE v4.dialog
           /\ p.map = IF w.op = "configure" THEN None
                      ELSE IF w.op \in {"seats", "block"} THEN w.item ELSE v4.map
<1> DEFINE l == [v4 EXCEPT !.loading = FALSE]
<1>0. w.item \in Catalog!MaybeItem /\ w.op \in Catalog!Ops
      BY DEF Catalog!Work
<1>1. l \in Catalog!Page /\ l.loading = FALSE /\ l.loaded = v4.loaded /\ l.form = v4.form
      /\ l.dialog = v4.dialog /\ l.map = v4.map
      BY DEF Catalog!Page
<1>2. Catalog!Succeeded(w) =
         CASE w.op = "fetch" -> [l EXCEPT !.loaded = TRUE]
           [] w.op \in {"create", "update"} -> [l EXCEPT !.form = None]
           [] w.op = "configure" -> [l EXCEPT !.dialog = None, !.map = None]
           [] w.op \in {"seats", "block"} -> [l EXCEPT !.map = w.item]
           [] OTHER -> l
      BY DEF Catalog!Succeeded
<1> HIDE DEF l
<1>3. CASE w.op = "fetch"
      BY <1>1, <1>2, <1>3 DEF Catalog!Page
<1>4. CASE w.op \in {"create", "update"}
      BY <1>1, <1>2, <1>4 DEF Catalog!Page, Catalog!MaybeItem
<1>5. CASE w.op = "configure"
      BY <1>1, <1>2, <1>5 DEF Catalog!Page, Catalog!MaybeItem
<1>6. CASE w.op \in {"seats", "block"}
      BY <1>0, <1>1, <1>2, <1>6 DEF Catalog!Page
<1>7. CASE w.op \in {"delete", "status"}
      BY <1>1, <1>2, <1>7 DEF Catalog!Page
<1> QED BY <1>0, <1>3, <1>4, <1>5, <1>6, <1>7 DEF Catalog!Ops

LEMMA FailedTyped ==
    ASSUME v4 \in Catalog!Page, NEW w \in Catalog!Work
    PROVE  LET p == Catalog!Failed(w) IN
           /\ p \in Catalog!Page /\ ~p.loading /\ p.loaded = v4.loaded /\ p.form = v4.form
           /\ p.dialog = v4.dialog
           /\ p.map = IF w.op = "seats" THEN None ELSE v4.map
<1>1. Catalog!Failed(w) =
         [v4 EXCEPT !.loading = FALSE, !.map = IF w.op = "seats" THEN None ELSE v4.map]
      BY DEF Catalog!Failed
<1> QED BY <1>1 DEF Catalog!Page, Catalog!MaybeItem

LEMMA RepliesKeep ==
    ASSUME Catalog!CatalogInv, NEW s \in Slots, Catalog!Reply(s)
    PROVE  Catalog!CatalogInv'
<1> DEFINE w == v5[s]
<1>1. Catalog!Live(s)
      BY DEF Catalog!Reply, Catalog!CatalogInv, Catalog!WorkSound, Catalog!Live
<1>2. /\ v5' = [v5 EXCEPT ![s] = None] /\ UNCHANGED <<v1, v2, v6, v7, v8>>
      /\ IF w.step = "done" THEN v3' = Catalog!Relisted(w, v3) /\ v4' = Catalog!Succeeded(w)
         ELSE v4' = Catalog!Failed(w) /\ UNCHANGED v3
      BY DEF Catalog!Reply
<1>3. w \in Catalog!Work /\ Catalog!WorkSound(w) /\ w.live /\ w # None /\ v6 \in SUBSET Items
      BY <1>1, HandlerFacts DEF Catalog!Live, Catalog!CatalogInv, Catalog!TypeOK
<1>4. \A i \in Items : v2[i] = Unborn => v3[i] = None /\ w.list[i] = None
                                   /\ i \notin {v4.form, v4.dialog, v4.map}
      BY <1>3 DEF Catalog!CatalogInv, Catalog!BirthSound
<1>5. w.op # "fetch" /\ v2[w.item] = Unborn => w.op = "create" /\ w.step # "done"
      BY <1>3 DEF Catalog!CatalogInv, Catalog!BirthSound
<1> HIDE DEF w
<1>6. CASE w.step = "done"
  <2>1. /\ v4' \in Catalog!Page /\ ~v4'.loading
        /\ v4'.loaded => w.op = "fetch" \/ v4.loaded
        /\ v4'.form \in {None, v4.form}
        /\ v4'.dialog = IF w.op = "configure" THEN None ELSE v4.dialog
        /\ v4'.map = IF w.op = "configure" THEN None
                     ELSE IF w.op \in {"seats", "block"} THEN w.item ELSE v4.map
        BY <1>1, <1>2, <1>3, <1>6, HandlerFacts, SucceededTyped
  <2>2. v3 \in Catalog!Lists /\ v3' = Catalog!Relisted(w, v3) /\ v3' \in Catalog!Lists
    <3>1. v3 \in Catalog!Lists /\ v3' = Catalog!Relisted(w, v3)
          BY <1>1, <1>2, <1>6, HandlerFacts
    <3> QED BY <1>3, <3>1, RelistedTyped
  <2>3. ASSUME NEW i \in Items, v2[i] = Unborn PROVE v3'[i] = None
    <3>1. w.op \in Catalog!Writes \cup {"fetch", "seats", "block"}
          BY <1>3 DEF Catalog!Work, Catalog!Ops, Catalog!Writes
    <3>2. w.op \in Catalog!Writes => i # w.item
          BY <1>5, <1>6, <2>3 DEF Catalog!Writes
    <3>3. v3'[i] \in {w.list[i], v3[i]}
          BY <1>3, <2>2, <3>1, <3>2, RelistedTyped
    <3> QED BY <1>4, <2>3, <3>3
  <2>4. \A i \in Items : v2[i] = Unborn => i \notin {v4'.form, v4'.dialog, v4'.map}
        BY <1>4, <1>5, <1>6, <2>1, CatalogConstants
  <2>5. v4'.loaded => \A i \in Items \ v6' : v3'[i] = Catalog!Rows[i]
    <3>1. v4.loaded \/ w.op = "fetch" =>
             \A i \in Items \ v6 : Catalog!Relisted(w, v3)[i] = Catalog!Rows[i]
          BY <1>1, <1>6, HandlerFacts DEF w
    <3> QED BY <1>2, <2>1, <2>2, <3>1
  <2>6. /\ v1 # "plain" /\ v4'.dialog # None => v4'.map \in {None, v4'.dialog}
        /\ v1 = "vehicles" => v4'.map \in {None, v4'.dialog}
        /\ v1 = "plain" => v4'.dialog = None
    <3>1. v1 \in Catalog!Kinds
          BY DEF Catalog!CatalogInv, Catalog!TypeOK
    <3>2. CASE v1 = "trips"
      <4>1. v4'.dialog # None => w.op \in {"seats", "block"} /\ v4'.map = v4'.dialog
            BY <1>1, <2>1, <3>2, HandlerFacts DEF w
      <4> QED BY <3>2, <4>1
    <3>3. CASE v1 # "trips"
      <4>1. w.op \notin {"seats", "block"}
            BY <1>1, <3>3, HandlerFacts DEF w
      <4>2. v1 = "vehicles" => v4.map \in {None, v4.dialog}
            BY <1>1, HandlerFacts
      <4>3. v1 = "plain" => v4.dialog = None
            BY <1>1, HandlerFacts
      <4> QED BY <2>1, <3>1, <3>3, <4>1, <4>2, <4>3 DEF Catalog!Kinds
    <3> QED BY <3>2, <3>3
  <2> QED BY <1>1, <1>2, <1>3, <2>1, <2>2, <2>3, <2>4, <2>5, <2>6, EndedKeeps
<1>7. CASE w.step # "done"
  <2>1. /\ v4' \in Catalog!Page /\ ~v4'.loading /\ v4'.loaded = v4.loaded /\ v4'.form = v4.form
        /\ v4'.dialog = v4.dialog /\ v4'.map = IF w.op = "seats" THEN None ELSE v4.map
        BY <1>1, <1>2, <1>3, <1>7, HandlerFacts, FailedTyped
  <2>2. v3' \in Catalog!Lists /\ v3' = v3
        BY <1>1, <1>2, <1>7, HandlerFacts
  <2>3. \A i \in Items : v2[i] = Unborn => v3'[i] = None /\ i \notin {v4'.form, v4'.dialog, v4'.map}
        BY <1>4, <2>1, <2>2, CatalogConstants
  <2>4. v4'.loaded => \A i \in Items \ v6' : v3'[i] = Catalog!Rows[i]
        BY <1>1, <1>2, <1>7, <2>1, <2>2, HandlerFacts DEF w
  <2>5. /\ v1 # "plain" /\ v4'.dialog # None => v4'.map \in {None, v4'.dialog}
        /\ v1 = "vehicles" => v4'.map \in {None, v4'.dialog}
        /\ v1 = "plain" => v4'.dialog = None
    <3>1. v1 \in Catalog!Kinds
          BY DEF Catalog!CatalogInv, Catalog!TypeOK
    <3>2. CASE v1 = "trips"
          BY <1>1, <2>1, <3>2, HandlerFacts DEF w
    <3>3. CASE v1 # "trips"
          BY <1>1, <2>1, <3>1, <3>3, HandlerFacts DEF w, Catalog!Kinds
    <3> QED BY <3>2, <3>3
  <2> QED BY <1>1, <1>2, <1>3, <2>1, <2>2, <2>3, <2>4, <2>5, EndedKeeps
<1> QED BY <1>6, <1>7

LEMMA DeadlinesKeep ==
    ASSUME Catalog!CatalogInv, NEW s \in Slots, Catalog!Deadline(s)
    PROVE  Catalog!CatalogInv'
<1> DEFINE w == v5[s]
           a == Catalog!Abandoned(w)
<1>1. Catalog!Live(s)
      BY DEF Catalog!Deadline, Catalog!Live
<1>2. /\ v5' = [v5 EXCEPT ![s] = a] /\ UNCHANGED <<v1, v2, v3, v7, v8>> /\ v4' = Catalog!Failed(w)
      /\ v6' = IF w.step = "done" /\ w.item # None THEN v6 \cup {w.item} ELSE v6
      BY DEF Catalog!Deadline
<1>3. w \in Catalog!Work /\ Catalog!WorkSound(w) /\ w.live /\ w # None /\ v6 \in SUBSET Items
      BY <1>1, HandlerFacts DEF Catalog!Live, Catalog!CatalogInv, Catalog!TypeOK
<1>4. \A i \in Items : v2[i] = Unborn => v3[i] = None /\ i \notin {v4.form, v4.dialog, v4.map}
      BY <1>3 DEF Catalog!CatalogInv, Catalog!BirthSound
<1>5. /\ a \in Catalog!Work \cup {None}
      /\ a # None => /\ Catalog!WorkSound(a) /\ ~a.live
                     /\ a.op = w.op /\ a.item = w.item /\ a.step = "sent" /\ w.step = "sent"
                     /\ a.op \in Catalog!Writes /\ a.list = Catalog!Empty
      BY <1>3, AbandonedSound
<1> HIDE DEF w, a
<1>6. /\ v4' \in Catalog!Page /\ ~v4'.loading /\ v4'.loaded = v4.loaded /\ v4'.form = v4.form
      /\ v4'.dialog = v4.dialog /\ v4'.map = IF w.op = "seats" THEN None ELSE v4.map
      BY <1>1, <1>2, <1>3, HandlerFacts, FailedTyped
<1>7. v3' \in Catalog!Lists /\ v3' = v3 /\ v6' \in SUBSET Items
      BY <1>1, <1>2, <1>3, HandlerFacts DEF Catalog!Work, Catalog!MaybeItem
<1>8. \A i \in Items : v2[i] = Unborn => v3'[i] = None /\ i \notin {v4'.form, v4'.dialog, v4'.map}
      BY <1>4, <1>6, <1>7, CatalogConstants
<1>9. v4'.loaded => \A i \in Items \ v6' : v3'[i] = Catalog!Rows[i]
  <2> SUFFICES ASSUME v4.loaded, NEW i \in Items \ v6' PROVE v3[i] = Catalog!Rows[i]
      BY <1>6, <1>7
  <2>1. CASE w.step # "done"
        BY <1>1, <1>2, <2>1, HandlerFacts DEF w
  <2>2. CASE w.step = "done"
    <3>1. w.op # "fetch" /\ Catalog!Relisted(w, v3)[i] = Catalog!Rows[i]
          BY <1>1, <1>2, <2>2, HandlerFacts DEF w
    <3>2. w.op \in Catalog!Writes \cup {"seats", "block"}
          BY <1>3, <3>1 DEF Catalog!Work, Catalog!Ops, Catalog!Writes
    <3>3. i # w.item
          BY <1>2, <2>2, CatalogConstants
    <3>4. w.op \in Catalog!Writes => w.list = v3
          BY <1>1, HandlerFacts DEF w
    <3>5. v3 \in Catalog!Lists
          BY <1>1, HandlerFacts
    <3>6. Catalog!Relisted(w, v3)[i] = v3[i]
      <4>1. CASE w.op \in {"seats", "block"}
            BY <1>3, <3>5, <4>1, RelistedTyped
      <4>2. CASE w.op \in Catalog!Writes
        <5>1. Catalog!Relisted(w, v3)[i] = w.list[i]
              BY <1>3, <3>3, <3>5, <4>2, RelistedTyped
        <5> QED BY <3>4, <4>2, <5>1
      <4> QED BY <3>2, <4>1, <4>2
    <3> QED BY <3>1, <3>6
  <2> QED BY <2>1, <2>2
<1>10. /\ v1 # "plain" /\ v4'.dialog # None => v4'.map \in {None, v4'.dialog}
       /\ v1 = "vehicles" => v4'.map \in {None, v4'.dialog}
       /\ v1 = "plain" => v4'.dialog = None
  <2>1. v1 \in Catalog!Kinds
        BY DEF Catalog!CatalogInv, Catalog!TypeOK
  <2>2. CASE v1 = "trips"
        BY <1>1, <1>6, <2>2, HandlerFacts DEF w
  <2>3. CASE v1 # "trips"
        BY <1>1, <1>6, <2>1, <2>3, HandlerFacts DEF w, Catalog!Kinds
  <2> QED BY <2>2, <2>3
<1>11. a # None => /\ a.op = v5[s].op /\ a.item = v5[s].item /\ v5[s].step = "sent"
       BY <1>5 DEF w
<1> QED BY <1>1, <1>2, <1>5, <1>6, <1>7, <1>8, <1>9, <1>10, <1>11, EndedKeeps

LEMMA CatalogStep ==
    ASSUME Catalog!CatalogInv, Catalog!Next
    PROVE  Catalog!CatalogInv'
BY ClicksKeep, ShowsKeep, RevisitKeeps, ServeKeeps, OtherEditsKeep, RepliesKeep, DeadlinesKeep
   DEF Catalog!Next, Catalog!SlotStep

\* A row changes when a write is served, or another administrator edits it.
LEMMA RowsChange ==
    ASSUME Catalog!CatalogInv, Catalog!Next
    PROVE  \/ v2' = v2
           \/ \E s \in Slots :
                 /\ v5[s] # None /\ v5[s].step = "sent" /\ v5[s].op \in Catalog!Writes
                 /\ Catalog!Accepted(v5[s])
                 /\ v2' = [v2 EXCEPT ![v5[s].item] = Catalog!Executed(v5[s])]
                 /\ \A t \in Slots \ {s} : v5'[t] = v5[t]
           \/ \E i \in Items : Catalog!OtherEdits(i)
<1>1. ASSUME NEW s \in Slots, Catalog!SlotStep(s), ~Catalog!Serve(s) PROVE v2' = v2
      BY <1>1 DEF Catalog!SlotStep, Catalog!Create, Catalog!Update, Catalog!Delete, Catalog!OpenSeats,
                  Catalog!SetStatus, Catalog!SaveLayout, Catalog!BlockSeats, Catalog!Revisit,
                  Catalog!Reply, Catalog!Deadline, Catalog!Click
<1>2. ASSUME NEW s \in Slots, Catalog!Serve(s), v2' # v2
      PROVE  /\ v5[s] # None /\ v5[s].step = "sent" /\ v5[s].op \in Catalog!Writes
             /\ Catalog!Accepted(v5[s])
             /\ v2' = [v2 EXCEPT ![v5[s].item] = Catalog!Executed(v5[s])]
             /\ \A t \in Slots \ {s} : v5'[t] = v5[t]
  <2>1. /\ v5[s] # None /\ v5[s].step = "sent" /\ v5[s].op \in Catalog!Writes
        /\ Catalog!Accepted(v5[s])
        /\ v2' = [v2 EXCEPT ![v5[s].item] = Catalog!Executed(v5[s])]
        /\ \E w : Catalog!Answer(s, w)
        BY <1>2 DEF Catalog!Serve, Catalog!Refuse
  <2>2. v5 \in [Slots -> Catalog!Work \cup {None}]
        BY CatalogFacts DEF Catalog!CatalogInv
  <2> QED BY <2>1, <2>2 DEF Catalog!Answer
<1>3. ASSUME NEW i \in Items, Catalog!StartEdit(i) \/ Catalog!OpenLayout(i) PROVE v2' = v2
      BY <1>3 DEF Catalog!StartEdit, Catalog!OpenLayout, Catalog!Show
<1>4. ASSUME Catalog!CancelEdit \/ Catalog!Preview \/ Catalog!CloseDialog PROVE v2' = v2
      BY <1>4 DEF Catalog!CancelEdit, Catalog!Preview, Catalog!CloseDialog, Catalog!Show
<1> QED BY <1>1, <1>2, <1>3, <1>4 DEF Catalog!Next

LEMMA EditsStand ==
    ASSUME Catalog!CatalogInv, Catalog!Next
    PROVE  Catalog!StateStands /\ Catalog!DeletionStands
<1>1. v2 \in [Items -> Catalog!Row \cup {Unborn, Deleted}]
      BY CatalogFacts DEF Catalog!CatalogInv
<1>2. CASE v2' = v2
      BY <1>2 DEF Catalog!StateStands, Catalog!DeletionStands
<1>3. ASSUME NEW s \in Slots, v5[s] # None, v5[s].step = "sent", v5[s].op \in Catalog!Writes,
             Catalog!Accepted(v5[s]),
             v2' = [v2 EXCEPT ![v5[s].item] = Catalog!Executed(v5[s])],
             \A t \in Slots \ {s} : v5'[t] = v5[t]
      PROVE  Catalog!StateStands /\ Catalog!DeletionStands
  <2>1. v5[s] \in Catalog!Work /\ Catalog!WorkSound(v5[s])
        BY <1>3, CatalogFacts DEF Catalog!CatalogInv
  <2>2. v5[s].op = "update" /\ (v1 = "vehicles" => v5[s].item \in v8) =>
           Catalog!Executed(v5[s]).state = v2[v5[s].item].state
        BY <1>3, <2>1, ExecutedTyped
  <2>3. v2[v5[s].item] # Deleted /\ v5[s].item \in Items
    <3>1. v5[s].item \in Items /\ (v5[s].op # "create" => v2[v5[s].item] \in Catalog!Row)
          BY <1>3, <2>1, ExecutedTyped
    <3>2. v5[s].op = "create" => v2[v5[s].item] = Unborn
          BY <1>3 DEF Catalog!CatalogInv, Catalog!BirthSound
    <3> QED BY <3>1, <3>2, CatalogConstants
  <2>4. Catalog!StateStands
        BY <1>1, <1>3, <2>2, <2>3 DEF Catalog!StateStands
  <2>5. Catalog!DeletionStands
        BY <1>1, <1>3, <2>3 DEF Catalog!DeletionStands
  <2> QED BY <2>4, <2>5
<1>4. ASSUME NEW i \in Items, Catalog!OtherEdits(i)
      PROVE  Catalog!StateStands /\ Catalog!DeletionStands
      BY <1>1, <1>4 DEF Catalog!OtherEdits, Catalog!Stored, Catalog!StateStands, Catalog!DeletionStands
<1> QED BY <1>2, <1>3, <1>4, RowsChange

------------------------------------------------------------------------------
(* The checkout: v1 hold, v2 booking, v3 cookie, v4 tab, v5 reading, v6 job,   *)
(* v7 clicks, v8 shadowed.                                                     *)

LEMMA CheckoutConstants == None \notin Holds
BY PartsTyped DEF Checkout!NoneIsNoHold

LEMMA CheckoutFacts ==
    ASSUME Checkout!CheckoutInv
    PROVE  /\ v1 \in [Holds -> {"unused", "live", "over"}]
           /\ v2 \in [Holds -> {"none", "PENDING_PAYMENT", "PAID"}]
           /\ v3 \in [Checkout!Kind -> Checkout!MaybeHold]
           /\ v4 \in [Items -> Checkout!TabState]
           /\ v5 \in [Items -> Checkout!Reading]
           /\ v6 \in [Slots -> Checkout!JobState]
           /\ v7 \in 0..CheckoutClicks
           /\ v8 \in SUBSET Holds
           /\ v3["checkout"] \in Checkout!MaybeHold /\ v3["booking"] \in Checkout!MaybeHold
           /\ \A j \in Slots : /\ v6[j].task # "idle" => v6[j].tab \in Items /\ v6[j].hold \in Holds
                               /\ v6[j].task = "idle" => v6[j].hold = None /\ ~v6[j].mounted
BY DEF Checkout!CheckoutInv, Checkout!TypeOK, Checkout!JobSound, Checkout!Kind

LEMMA CheckoutClicksTyped ==
    ASSUME Checkout!CheckoutInv, v7' = v7 \/ Checkout!Counted
    PROVE  v7' \in 0..CheckoutClicks
BY CheckoutFacts, ClicksCounted DEF Checkout!Counted

\* A handler goes on, perhaps without its page; what a tab shows stays.
Weaker(q, p) ==
    /\ q.task = p.task /\ q.step = p.step /\ q.tab = p.tab /\ q.hold = p.hold
    /\ q.mounted => p.mounted
    /\ q.sure => p.sure

Fainter(q, p) ==
    /\ q.page = p.page /\ q.ctx = p.ctx /\ q.code = p.code
    /\ q.sure => p.sure

Idle(q) == q.task = "idle" /\ q.hold = None /\ ~q.mounted /\ ~q.sure

LEMMA TabsDisturbed ==
    ASSUME NEW T \in [Items -> Checkout!TabState], NEW kind, NEW k
    PROVE  /\ Checkout!Disturb(T, kind, k) \in [Items -> Checkout!TabState]
           /\ \A t \in Items : /\ Fainter(Checkout!Disturb(T, kind, k)[t], T[t])
                               /\ Checkout!Disturb(T, kind, k)[t].sure => Checkout!Undisturbed(kind, k)
<1>1. \A t \in Items : /\ [T[t] EXCEPT !.sure = FALSE] \in Checkout!TabState
                       /\ [T[t] EXCEPT !.sure = FALSE].sure = FALSE
                       /\ Fainter([T[t] EXCEPT !.sure = FALSE], T[t])
      BY DEF Checkout!TabState, Fainter
<1>2. \A t \in Items : Fainter(T[t], T[t])
      BY DEF Fainter
<1>3. CASE Checkout!Undisturbed(kind, k)
      BY <1>2, <1>3 DEF Checkout!Disturb
<1>4. CASE ~Checkout!Undisturbed(kind, k)
      BY <1>1, <1>4 DEF Checkout!Disturb
<1> QED BY <1>3, <1>4

LEMMA JobsDisturbed ==
    ASSUME NEW J \in [Slots -> Checkout!JobState], NEW kind, NEW k
    PROVE  /\ Checkout!Disturb(J, kind, k) \in [Slots -> Checkout!JobState]
           /\ \A j \in Slots : /\ Weaker(Checkout!Disturb(J, kind, k)[j], J[j])
                               /\ Checkout!Disturb(J, kind, k)[j].sure => Checkout!Undisturbed(kind, k)
<1>1. \A j \in Slots : /\ [J[j] EXCEPT !.sure = FALSE] \in Checkout!JobState
                       /\ [J[j] EXCEPT !.sure = FALSE].sure = FALSE
                       /\ Weaker([J[j] EXCEPT !.sure = FALSE], J[j])
      BY DEF Checkout!JobState, Weaker
<1>2. \A j \in Slots : Weaker(J[j], J[j])
      BY DEF Weaker
<1>3. CASE Checkout!Undisturbed(kind, k)
      BY <1>2, <1>3 DEF Checkout!Disturb
<1>4. CASE ~Checkout!Undisturbed(kind, k)
      BY <1>1, <1>4 DEF Checkout!Disturb
<1> QED BY <1>3, <1>4

LEMMA JobsLeft ==
    ASSUME NEW J \in [Slots -> Checkout!JobState], NEW t
    PROVE  /\ Checkout!Leave(t, J) \in [Slots -> Checkout!JobState]
           /\ \A j \in Slots : Weaker(Checkout!Leave(t, J)[j], J[j])
<1>1. \A j \in Slots : /\ [J[j] EXCEPT !.mounted = FALSE] \in Checkout!JobState
                       /\ Weaker([J[j] EXCEPT !.mounted = FALSE], J[j])
      BY DEF Checkout!JobState, Weaker
<1>2. \A j \in Slots : Weaker(J[j], J[j])
      BY DEF Weaker
<1> QED BY <1>1, <1>2 DEF Checkout!Leave

LEMMA OpenedTyped ==
    ASSUME NEW page \in Checkout!Pages
    PROVE  LET p == Checkout!Opened(page) IN
           /\ p \in Checkout!TabState /\ p.page = page /\ ~p.sure
<1>1. CASE page \in {"checkout", "payment"}
      BY <1>1 DEF Checkout!Opened, Checkout!TabState, Checkout!MaybeHold
<1>2. CASE page \notin {"checkout", "payment"}
      BY <1>2 DEF Checkout!Opened, Checkout!TabState, Checkout!MaybeHold
<1> QED BY <1>1, <1>2

LEMMA NoJobTyped ==
    /\ Checkout!NoJob \in Checkout!JobState /\ Checkout!NoJob.task = "idle"
    /\ Checkout!NoJob.hold = None /\ ~Checkout!NoJob.mounted /\ ~Checkout!NoJob.sure
BY DEF Checkout!NoJob, Checkout!JobState, Checkout!MaybeHold

LEMMA NoReadingTyped ==
    Checkout!NoReading \in Checkout!Reading /\ ~Checkout!NoReading.mounted
BY DEF Checkout!NoReading, Checkout!Reading, Checkout!MaybeHold

LEMMA ReleasedTyped ==
    ASSUME Checkout!CheckoutInv, NEW j \in Slots
    PROVE  /\ Checkout!Released(j) \in [Items -> Checkout!TabState]
           /\ \A t \in Items : Fainter(Checkout!Released(j)[t], v4[t])
<1>0. v4 \in [Items -> Checkout!TabState] /\ \A t \in Items : Fainter(v4[t], v4[t])
      BY CheckoutFacts DEF Fainter
<1>1. CASE v6[j].mounted
  <2>1. v6[j].tab \in Items
        BY <1>1, CheckoutFacts
  <2>2. Checkout!Released(j) = [v4 EXCEPT ![v6[j].tab] = [v4[v6[j].tab] EXCEPT !.busy = FALSE]]
        BY <1>1 DEF Checkout!Released
  <2>3. /\ [v4[v6[j].tab] EXCEPT !.busy = FALSE] \in Checkout!TabState
        /\ Fainter([v4[v6[j].tab] EXCEPT !.busy = FALSE], v4[v6[j].tab])
        BY <1>0, <2>1 DEF Checkout!TabState, Fainter
  <2> QED BY <1>0, <2>1, <2>2, <2>3
<1>2. CASE ~v6[j].mounted
  <2>1. Checkout!Released(j) = v4
        BY <1>2 DEF Checkout!Released
  <2> QED BY <1>0, <2>1
<1> QED BY <1>1, <1>2

LEMMA CheckoutInitially == Checkout!Init => Checkout!CheckoutInv
<1> SUFFICES ASSUME Checkout!Init PROVE Checkout!CheckoutInv
    OBVIOUS
<1>1. /\ v1 = [k \in Holds |-> "unused"] /\ v2 = [k \in Holds |-> "none"]
      /\ v3 = [c \in Checkout!Kind |-> None] /\ v4 = [t \in Items |-> Checkout!Opened("trip")]
      /\ v5 = [t \in Items |-> Checkout!NoReading] /\ v6 = [j \in Slots |-> Checkout!NoJob]
      /\ v7 = 0 /\ v8 = {}
      BY DEF Checkout!Init
<1>2. /\ Checkout!Opened("trip") \in Checkout!TabState /\ Checkout!Opened("trip").page = "trip"
      /\ ~Checkout!Opened("trip").sure
      BY OpenedTyped DEF Checkout!Pages
<1>3. Checkout!TypeOK
  <2>1. v7 \in 0..CheckoutClicks
        BY <1>1, ClicksCounted
  <2>2. v3 \in [Checkout!Kind -> Checkout!MaybeHold] /\ v8 \in SUBSET Holds
        BY <1>1 DEF Checkout!MaybeHold
  <2> QED BY <1>1, <1>2, <2>1, <2>2, NoJobTyped, NoReadingTyped DEF Checkout!TypeOK
<1>4. \A j \in Slots : Checkout!JobSound(j)
      BY <1>1, NoJobTyped DEF Checkout!JobSound
<1>5. Checkout!HoldsSound
      BY <1>1, NoJobTyped DEF Checkout!HoldsSound
<1>6. Checkout!SureSound
      BY <1>1, <1>2, NoJobTyped DEF Checkout!SureSound
<1>7. \A t \in Items : Checkout!ReadingSound(t)
      BY <1>1, NoReadingTyped DEF Checkout!ReadingSound
<1>8. Checkout!BookingIsShown
      BY <1>1, <1>2 DEF Checkout!BookingIsShown
<1> QED BY <1>3, <1>4, <1>5, <1>6, <1>7, <1>8 DEF Checkout!CheckoutInv

------------------------------------------------------------------------------
(* What keeps each part of the invariant *)

\* Handlers go on or end; the one in slot j may be new.
LEMMA JobsKept ==
    ASSUME Checkout!CheckoutInv, NEW j \in Slots,
           \A k \in Holds : v1[k] # "unused" => v1'[k] # "unused",
           \A i \in Slots :
              /\ v6'[i].task # "idle" => v6'[i].tab \in Items /\ v6'[i].hold \in Holds
              /\ v6'[i].task = "idle" => v6'[i].hold = None /\ ~v6'[i].mounted
              /\ v6'[i].task = "hold" /\ v6'[i].step = "ask" => v1'[v6'[i].hold] = "unused"
              /\ v6'[i].task \in {"submit", "clear"} =>
                    \/ v1'[v6'[i].hold] # "unused"
                    \/ v6[i].task \in {"submit", "clear"} /\ v6[i].hold = v6'[i].hold
              /\ v6'[i].task = "hold" =>
                    \/ /\ v6[i].task = "hold" /\ v6[i].hold = v6'[i].hold
                       /\ v6'[i].step = "ask" => v6[i].step = "ask"
                    \/ i = j /\ \A u \in Slots : v6[u].hold # v6'[i].hold
    PROVE  \A i \in Slots : Checkout!JobSound(i)'
<1> SUFFICES ASSUME NEW i \in Slots PROVE Checkout!JobSound(i)'
    OBVIOUS
<1>1. v6'[i].task \in {"submit", "clear"} => v1'[v6'[i].hold] # "unused"
      BY DEF Checkout!CheckoutInv, Checkout!JobSound
<1>2. ASSUME v6'[i].task = "hold", v6'[i].step = "ask", NEW u \in Slots \ {i}, v6'[u].task = "hold"
      PROVE  v6'[u].hold # v6'[i].hold
  <2>1. CASE i = j /\ \A x \in Slots : v6[x].hold # v6'[i].hold
        BY <1>2, <2>1
  <2>2. CASE v6[i].task = "hold" /\ v6[i].hold = v6'[i].hold /\ v6[i].step = "ask"
    <3>1. \A x \in Slots \ {i} : v6[x].task = "hold" => v6[x].hold # v6[i].hold
          BY <2>2 DEF Checkout!CheckoutInv, Checkout!JobSound
    <3> QED BY <1>2, <2>2, <3>1
  <2> QED BY <1>2, <2>1, <2>2
<1> QED BY <1>1, <1>2 DEF Checkout!JobSound

\* No context is dropped but of a hold that is over, lost, or booked for its cookie.
LEMMA HoldsKept ==
    ASSUME Checkout!CheckoutInv, v8 \subseteq v8',
           \A kind \in Checkout!Kind :
              v3[kind] \in {None, v3'["checkout"], v3'["booking"]} \cup v8' \/ v1'[v3[kind]] # "live",
           \A k \in Holds : v1'[k] = "live" =>
              v1[k] = "live" \/ k \in v8' \/ \E j \in Slots : v6'[j].task = "hold" /\ v6'[j].hold = k,
           \A i \in Slots : v6[i].task = "hold" /\ v1'[v6[i].hold] = "live" =>
              \/ v6[i].hold \in v8' \cup {v3'["checkout"]}
              \/ v6'[i].task = "hold" /\ v6'[i].hold = v6[i].hold,
           \A i \in Slots : v6'[i].task = "clear" /\ v1'[v6'[i].hold] = "live" =>
              \/ v6'[i].hold \in v8' \cup {v3'["booking"]}
              \/ /\ v6[i].task = "clear" /\ v6[i].hold = v6'[i].hold /\ v1[v6[i].hold] = "live"
                 /\ v3'["booking"] = v3["booking"] \/ v3["booking"] \in v8'
    PROVE  Checkout!HoldsSound'
<1>1. ASSUME NEW k \in Holds, v1'[k] = "live" PROVE Checkout!Anchored(k)'
  <2>1. CASE v1[k] = "live"
    <3>1. Checkout!Anchored(k)
          BY <2>1 DEF Checkout!CheckoutInv, Checkout!HoldsSound
    <3>2. k # None
          BY CheckoutConstants
    <3> QED BY <1>1, <3>1, <3>2 DEF Checkout!Anchored, Checkout!Kind
  <2>2. CASE v1[k] # "live"
        BY <1>1, <2>2 DEF Checkout!Anchored
  <2> QED BY <2>1, <2>2
<1>2. \A i \in Slots : v6'[i].task = "clear" /\ v1'[v6'[i].hold] = "live" =>
         v3'["booking"] = v6'[i].hold \/ v6'[i].hold \in v8'
      BY DEF Checkout!CheckoutInv, Checkout!HoldsSound
<1> QED BY <1>1, <1>2 DEF Checkout!HoldsSound

\* Who is sure was it before, of a cookie that stays, or has just read it.
LEMMA SureKept ==
    ASSUME Checkout!CheckoutInv,
           \A t \in Items : v4'[t].sure /\ v4'[t].page = "payment" =>
              \/ v4'[t].ctx = v3'["booking"]
              \/ v4[t].sure /\ Fainter(v4'[t], v4[t]) /\ v3'["booking"] = v3["booking"],
           \A t \in Items : v4'[t].sure /\ v4'[t].page = "booking" =>
              \/ v4'[t].ctx = v4'[t].code
              \/ v4[t].sure /\ Fainter(v4'[t], v4[t]),
           \A j \in Slots : v6'[j].sure /\ v6'[j].task = "pay" =>
              \/ v6'[j].hold = v3'["booking"]
              \/ v6[j].sure /\ Weaker(v6'[j], v6[j]) /\ v3'["booking"] = v3["booking"]
    PROVE  Checkout!SureSound' /\ Checkout!BookingIsShown'
<1>1. Checkout!SureSound'
      BY DEF Checkout!CheckoutInv, Checkout!SureSound, Fainter, Weaker
<1>2. Checkout!BookingIsShown'
      BY DEF Checkout!CheckoutInv, Checkout!BookingIsShown, Fainter
<1> QED BY <1>1, <1>2

LEMMA ReadingKept ==
    ASSUME Checkout!CheckoutInv,
           \A t \in Items : v5'[t] = Checkout!NoReading \/ (v5'[t] = v5[t] /\ v4'[t].page = v4[t].page)
    PROVE  \A t \in Items : Checkout!ReadingSound(t)'
BY NoReadingTyped DEF Checkout!CheckoutInv, Checkout!ReadingSound, Checkout!NoReading

\* Handlers that go on or end, while no hold is drawn.
LEMMA JobsWeaker ==
    ASSUME Checkout!CheckoutInv,
           \A k \in Holds : v1'[k] = "unused" <=> v1[k] = "unused",
           \A i \in Slots : Idle(v6'[i]) \/ Weaker(v6'[i], v6[i])
    PROVE  \A i \in Slots : Checkout!JobSound(i)'
<1> SUFFICES ASSUME NEW j \in Slots PROVE Checkout!JobSound(j)'
    OBVIOUS
<1>1. ASSUME NEW i \in Slots
      PROVE  /\ v6'[i].task # "idle" => v6'[i].tab \in Items /\ v6'[i].hold \in Holds
             /\ v6'[i].task = "idle" => v6'[i].hold = None /\ ~v6'[i].mounted
             /\ v6'[i].task # "idle" => Weaker(v6'[i], v6[i])
      BY CheckoutFacts DEF Idle, Weaker
<1>2. ASSUME NEW i \in Slots, v6'[i].task = "hold"
      PROVE  /\ v6[i].task = "hold" /\ v6[i].hold = v6'[i].hold /\ v6[i].step = v6'[i].step
             /\ v6'[i].step = "ask" => v1'[v6'[i].hold] = "unused"
      BY <1>1, <1>2 DEF Weaker, Checkout!CheckoutInv, Checkout!JobSound
<1>3. ASSUME NEW i \in Slots, v6'[i].task \in {"submit", "clear"}
      PROVE  v6[i].task \in {"submit", "clear"} /\ v6[i].hold = v6'[i].hold
      BY <1>1, <1>3 DEF Weaker
<1> QED BY <1>1, <1>2, <1>3, JobsKept

\* A reading of the checkout or the payment page starts, and those of others stay.
LEMMA MountTyped ==
    ASSUME Checkout!CheckoutInv, NEW t \in Items, NEW page \in Checkout!Pages,
           v3'["booking"] \in Checkout!MaybeHold, Checkout!Mount(t, page),
           v4' \in [Items -> Checkout!TabState], v4'[t].page = page,
           \A u \in Items \ {t} : v4'[u].page = v4[u].page
    PROVE  /\ v5' \in [Items -> Checkout!Reading]
           /\ \A u \in Items : Checkout!ReadingSound(u)'
<1>1. v5 \in [Items -> Checkout!Reading] /\ v3["checkout"] \in Checkout!MaybeHold
      BY CheckoutFacts
<1>2. PICK r : /\ v5' = [v5 EXCEPT ![t] = r] /\ r \in Checkout!Reading
               /\ r = Checkout!NoReading \/ r.kind \in Checkout!Kind
               /\ r.mounted => page = IF r.kind = "checkout" THEN "checkout" ELSE "payment"
  <2>1. CASE page = "checkout"
    <3> DEFINE r == [kind |-> "checkout", carried |-> v3["checkout"], mounted |-> TRUE]
    <3>1. r \in Checkout!Reading /\ r.kind = "checkout" /\ r.kind \in Checkout!Kind
          BY <1>1 DEF Checkout!Reading, Checkout!Kind
    <3>2. v5' = [v5 EXCEPT ![t] = r]
          BY <2>1 DEF Checkout!Mount
    <3> HIDE DEF r
    <3> QED BY <2>1, <3>1, <3>2
  <2>2. CASE page = "payment"
    <3> DEFINE r == [kind |-> "booking", carried |-> v3'["booking"], mounted |-> TRUE]
    <3>1. r \in Checkout!Reading /\ r.kind = "booking" /\ r.kind \in Checkout!Kind
          BY <1>1 DEF Checkout!Reading, Checkout!Kind
    <3>2. v5' = [v5 EXCEPT ![t] = r]
          BY <2>2 DEF Checkout!Mount
    <3> HIDE DEF r
    <3> QED BY <2>2, <3>1, <3>2
  <2>3. CASE page \notin {"checkout", "payment"}
    <3> DEFINE r == [v5[t] EXCEPT !.mounted = FALSE]
    <3>0. v5[t] \in Checkout!Reading /\ (v5[t] = Checkout!NoReading \/ v5[t].kind \in Checkout!Kind)
          BY <1>1 DEF Checkout!CheckoutInv, Checkout!ReadingSound
    <3>1. r \in Checkout!Reading /\ r.kind = v5[t].kind /\ r.mounted = FALSE
          BY <3>0 DEF Checkout!Reading
    <3>2. v5[t] = Checkout!NoReading => r = Checkout!NoReading
      <4>1. v5[t] = Checkout!NoReading => v5[t].mounted = FALSE
            BY DEF Checkout!NoReading
      <4> QED BY <3>0, <4>1 DEF Checkout!Reading
    <3>3. v5' = [v5 EXCEPT ![t] = r]
          BY <2>3 DEF Checkout!Mount
    <3> HIDE DEF r
    <3> QED BY <3>0, <3>1, <3>2, <3>3
  <2> QED BY <2>1, <2>2, <2>3
<1>3. v5' \in [Items -> Checkout!Reading] /\ v5'[t] = r /\ \A u \in Items \ {t} : v5'[u] = v5[u]
      BY <1>1, <1>2
<1>4. Checkout!ReadingSound(t)'
      BY <1>2, <1>3 DEF Checkout!ReadingSound, Checkout!NoReading
<1>5. ASSUME NEW u \in Items \ {t} PROVE Checkout!ReadingSound(u)'
      BY <1>3 DEF Checkout!CheckoutInv, Checkout!ReadingSound, Checkout!NoReading
<1> QED BY <1>3, <1>4, <1>5

------------------------------------------------------------------------------
(* The cookies and the pages *)

LEMMA VisitKeeps ==
    ASSUME Checkout!CheckoutInv, NEW t \in Items, NEW page \in Checkout!Pages, Checkout!Visit(t, page)
    PROVE  Checkout!CheckoutInv'
<1>1. /\ v4' = [v4 EXCEPT ![t] = Checkout!Opened(page)] /\ v6' = Checkout!Leave(t, v6)
      /\ UNCHANGED <<v1, v2, v3, v8>> /\ Checkout!Mount(t, page) /\ Checkout!Counted
      /\ page # "booking"
      BY DEF Checkout!Visit
<1>2. /\ v4' \in [Items -> Checkout!TabState] /\ v4'[t].page = page /\ ~v4'[t].sure
      /\ \A u \in Items \ {t} : v4'[u] = v4[u]
      BY <1>1, CheckoutFacts, OpenedTyped
<1>3. v6' \in [Slots -> Checkout!JobState] /\ \A j \in Slots : Weaker(v6'[j], v6[j])
      BY <1>1, CheckoutFacts, JobsLeft
<1>4. v5' \in [Items -> Checkout!Reading] /\ \A u \in Items : Checkout!ReadingSound(u)'
      BY <1>1, <1>2, CheckoutFacts, MountTyped
<1>5. Checkout!TypeOK'
      BY <1>1, <1>2, <1>3, <1>4, CheckoutFacts, CheckoutClicksTyped DEF Checkout!TypeOK
<1>6. \A j \in Slots : Checkout!JobSound(j)'
      BY <1>1, <1>3, JobsWeaker
<1>7. Checkout!HoldsSound'
      BY <1>1, <1>3, HoldsKept DEF Weaker, Checkout!Kind
<1>8. Checkout!SureSound' /\ Checkout!BookingIsShown'
  <2>1. \A u \in Items : v4'[u].sure => v4[u].sure /\ Fainter(v4'[u], v4[u])
        BY <1>2 DEF Fainter
  <2>2. \A j \in Slots : v6'[j].sure => v6[j].sure
        BY <1>3 DEF Weaker
  <2> QED BY <1>1, <1>3, <2>1, <2>2, SureKept
<1> QED BY <1>4, <1>5, <1>6, <1>7, <1>8 DEF Checkout!CheckoutInv

\* What Set and Lost do together.
LEMMA LostFacts ==
    ASSUME Checkout!CheckoutInv, NEW kind \in Checkout!Kind, NEW k \in Checkout!MaybeHold,
           NEW kept \in Checkout!MaybeHold, Checkout!Set(kind, k), Checkout!Lost(kind, kept)
    PROVE  /\ v3' \in [Checkout!Kind -> Checkout!MaybeHold] /\ v3'[kind] = k
           /\ \A c \in Checkout!Kind : c # kind => v3'[c] = v3[c]
           /\ v3'["booking"] \in Checkout!MaybeHold
           /\ v8' \in SUBSET Holds /\ v8 \subseteq v8'
           /\ v3[kind] \in {kept, None} \cup v8'
BY CheckoutFacts DEF Checkout!Set, Checkout!Lost, Checkout!MaybeHold, Checkout!Kind

LEMMA ContextAnswersKeep ==
    ASSUME Checkout!CheckoutInv, NEW t \in Items, Checkout!ContextAnswered(t)
    PROVE  Checkout!CheckoutInv'
<1> DEFINE r == v5[t]
           k == IF Checkout!Valid(r.kind, r.carried) THEN r.carried ELSE None
           others == IF k = None THEN Checkout!Disturb(v4, r.kind, None) ELSE v4
<1>1. /\ r # Checkout!NoReading /\ v5' = [v5 EXCEPT ![t] = Checkout!NoReading]
      /\ k = None => /\ Checkout!Set(r.kind, None) /\ Checkout!Lost(r.kind, None)
                     /\ v6' = Checkout!Disturb(v6, r.kind, None)
      /\ k # None => UNCHANGED <<v3, v8, v6>>
      /\ UNCHANGED <<v1, v2, v7>>
      BY DEF Checkout!ContextAnswered
<1>2. v4' = IF r.mounted THEN [others EXCEPT ![t].ctx = k, ![t].loading = FALSE,
                                             ![t].sure = Checkout!Undisturbed(r.kind, k)]
            ELSE others
      BY DEF Checkout!ContextAnswered
<1>3. /\ r.kind \in Checkout!Kind /\ k \in Checkout!MaybeHold
      /\ r.mounted => v4[t].page = IF r.kind = "checkout" THEN "checkout" ELSE "payment"
      BY <1>1, CheckoutFacts DEF Checkout!CheckoutInv, Checkout!ReadingSound, Checkout!Reading,
                                 Checkout!MaybeHold
<1> HIDE DEF k
<1>4. /\ others \in [Items -> Checkout!TabState]
      /\ \A u \in Items : /\ Fainter(others[u], v4[u])
                          /\ k = None /\ others[u].sure => Checkout!Undisturbed(r.kind, None)
  <2>1. v4 \in [Items -> Checkout!TabState] /\ \A u \in Items : Fainter(v4[u], v4[u])
        BY CheckoutFacts DEF Fainter
  <2> QED BY <2>1, TabsDisturbed
<1> HIDE DEF others
<1>5. /\ v4' \in [Items -> Checkout!TabState]
      /\ \A u \in Items \ {t} : v4'[u] = others[u]
      /\ v4'[t].page = v4[t].page /\ v4'[t].code = v4[t].code
      /\ \/ v4'[t] = others[t]
         \/ /\ r.mounted /\ v4'[t].ctx = k
            /\ v4'[t].sure => Checkout!Undisturbed(r.kind, k)
  <2>1. CASE r.mounted
    <3> DEFINE w == [others[t] EXCEPT !.ctx = k, !.loading = FALSE,
                                      !.sure = Checkout!Undisturbed(r.kind, k)]
    <3>1. v4' = [others EXCEPT ![t] = w]
          BY <1>2, <2>1
    <3>2. others[t] \in Checkout!TabState /\ others[t].page = v4[t].page /\ others[t].code = v4[t].code
          BY <1>4 DEF Fainter
    <3>3. Checkout!Undisturbed(r.kind, k) \in BOOLEAN
          BY DEF Checkout!Undisturbed
    <3>4. /\ w \in Checkout!TabState /\ w.page = v4[t].page /\ w.code = v4[t].code
          /\ w.ctx = k /\ (w.sure => Checkout!Undisturbed(r.kind, k))
          BY <1>3, <3>2, <3>3 DEF Checkout!TabState
    <3> HIDE DEF w
    <3> QED BY <1>4, <2>1, <3>1, <3>4
  <2>2. CASE ~r.mounted
    <3>1. v4' = others
          BY <1>2, <2>2
    <3> QED BY <1>4, <3>1 DEF Fainter
  <2> QED BY <2>1, <2>2
<1>6. /\ v6' \in [Slots -> Checkout!JobState]
      /\ \A j \in Slots : /\ Weaker(v6'[j], v6[j])
                          /\ k = None /\ v6'[j].sure => Checkout!Undisturbed(r.kind, None)
  <2>1. v6 \in [Slots -> Checkout!JobState] /\ \A j \in Slots : Weaker(v6[j], v6[j])
        BY CheckoutFacts DEF Weaker
  <2> QED BY <1>1, <2>1, JobsDisturbed
<1> HIDE DEF r
<1>7. /\ v3' \in [Checkout!Kind -> Checkout!MaybeHold] /\ v8' \in SUBSET Holds /\ v8 \subseteq v8'
      /\ \A c \in Checkout!Kind : v3'[c] = v3[c] \/ (c = r.kind /\ v3'[c] = None /\ v3[c] \in {None} \cup v8')
      /\ k = None => v3'[r.kind] = None
  <2>1. CASE k = None
    <3>1. None \in Checkout!MaybeHold
          BY DEF Checkout!MaybeHold
    <3> QED BY <1>1, <1>3, <2>1, <3>1, LostFacts
  <2>2. CASE k # None
        BY <1>1, <2>2, CheckoutFacts
  <2> QED BY <2>1, <2>2
<1>8. v5' \in [Items -> Checkout!Reading] /\ v5'[t] = Checkout!NoReading
      /\ \A u \in Items \ {t} : v5'[u] = v5[u]
      BY <1>1, CheckoutFacts, NoReadingTyped
<1>9. Checkout!TypeOK'
      BY <1>1, <1>5, <1>6, <1>7, <1>8, CheckoutFacts, CheckoutClicksTyped DEF Checkout!TypeOK
<1>10. \A j \in Slots : Checkout!JobSound(j)'
      BY <1>1, <1>6, JobsWeaker
<1>11. Checkout!HoldsSound'
      BY <1>1, <1>6, <1>7, HoldsKept DEF Weaker, Checkout!Kind
<1>12. \A u \in Items : Checkout!ReadingSound(u)'
      BY <1>4, <1>5, <1>8, ReadingKept DEF Fainter
<1>13. ASSUME Checkout!Undisturbed(r.kind, None) \/ k # None
       PROVE  v3'["booking"] = v3["booking"]
      BY <1>1, <1>3, <1>7, <1>13 DEF Checkout!Undisturbed, Checkout!Kind
<1>14. ASSUME NEW u \in Items, v4'[u].sure, v4'[u].page = "payment"
       PROVE  \/ v4'[u].ctx = v3'["booking"]
              \/ v4[u].sure /\ Fainter(v4'[u], v4[u]) /\ v3'["booking"] = v3["booking"]
  <2>1. CASE v4'[u] = others[u]
        BY <1>4, <1>13, <1>14, <2>1 DEF Fainter
  <2>2. CASE v4'[u] # others[u]
    <3>1. u = t /\ r.mounted /\ v4'[t].ctx = k /\ Checkout!Undisturbed(r.kind, k)
          BY <1>5, <1>14, <2>2
    <3>2. r.kind = "booking" /\ v3["booking"] = k
          BY <1>3, <1>5, <1>14, <3>1 DEF Checkout!Undisturbed, Checkout!Kind
    <3> QED BY <1>1, <1>7, <3>1, <3>2
  <2> QED BY <2>1, <2>2
<1>15. ASSUME NEW u \in Items, v4'[u].sure, v4'[u].page = "booking"
       PROVE  v4[u].sure /\ Fainter(v4'[u], v4[u])
  <2>1. v4'[u] = others[u]
        BY <1>3, <1>5, <1>15
  <2> QED BY <1>4, <1>15, <2>1 DEF Fainter
<1>16. ASSUME NEW j \in Slots, v6'[j].sure
       PROVE  v6[j].sure /\ Weaker(v6'[j], v6[j]) /\ v3'["booking"] = v3["booking"]
      BY <1>6, <1>13, <1>16 DEF Weaker
<1>17. Checkout!SureSound' /\ Checkout!BookingIsShown'
      BY <1>14, <1>15, <1>16, SureKept
<1> QED BY <1>9, <1>10, <1>11, <1>12, <1>17 DEF Checkout!CheckoutInv

LEMMA BookingCookieKeeps ==
    ASSUME Checkout!CheckoutInv, Checkout!BookingCookieExpires
    PROVE  Checkout!CheckoutInv'
<1> DEFINE k == v3["booking"]
<1>1. /\ k # None /\ v1[k] = "over" /\ v3' = [v3 EXCEPT !["booking"] = None]
      /\ v4' = Checkout!Disturb(v4, "booking", None) /\ v6' = Checkout!Disturb(v6, "booking", None)
      /\ UNCHANGED <<v1, v2, v5, v7, v8>>
      BY DEF Checkout!BookingCookieExpires, Checkout!Set
<1>2. ~Checkout!Undisturbed("booking", None)
      BY <1>1 DEF Checkout!Undisturbed
<1>3. v4' \in [Items -> Checkout!TabState] /\ \A t \in Items : Fainter(v4'[t], v4[t]) /\ ~v4'[t].sure
      BY <1>1, <1>2, CheckoutFacts, TabsDisturbed
<1>4. v6' \in [Slots -> Checkout!JobState] /\ \A j \in Slots : Weaker(v6'[j], v6[j]) /\ ~v6'[j].sure
      BY <1>1, <1>2, CheckoutFacts, JobsDisturbed
<1>5. /\ v3' \in [Checkout!Kind -> Checkout!MaybeHold] /\ v3'["booking"] = None
      /\ v3'["checkout"] = v3["checkout"]
      BY <1>1, CheckoutFacts DEF Checkout!Kind, Checkout!MaybeHold
<1>6. Checkout!TypeOK'
      BY <1>1, <1>3, <1>4, <1>5, CheckoutFacts, CheckoutClicksTyped DEF Checkout!TypeOK
<1>7. \A j \in Slots : Checkout!JobSound(j)'
      BY <1>1, <1>4, JobsWeaker
<1>8. Checkout!HoldsSound'
  <2>1. \A kind \in Checkout!Kind : v3[kind] = v3'["checkout"] \/ v1'[v3[kind]] # "live"
        BY <1>1, <1>5 DEF Checkout!Kind
  <2>2. ASSUME NEW i \in Slots, v6'[i].task = "clear", v1'[v6'[i].hold] = "live"
        PROVE  v6'[i].hold \in v8'
    <3>1. v6[i].task = "clear" /\ v6[i].hold = v6'[i].hold /\ v1[v6[i].hold] = "live"
          BY <1>1, <1>4, <2>2 DEF Weaker
    <3>2. v6[i].hold # k
          BY <1>1, <3>1
    <3> QED BY <1>1, <3>1, <3>2 DEF Checkout!CheckoutInv, Checkout!HoldsSound
  <2>3. \A i \in Slots : v6[i].task = "hold" => v6'[i].task = "hold" /\ v6'[i].hold = v6[i].hold
        BY <1>4 DEF Weaker
  <2> HIDE DEF k
  <2> QED BY <1>1, <2>1, <2>2, <2>3, HoldsKept
<1>9. Checkout!SureSound' /\ Checkout!BookingIsShown'
      BY <1>3, <1>4, SureKept
<1>10. \A t \in Items : Checkout!ReadingSound(t)'
      BY <1>1, <1>3, ReadingKept DEF Fainter
<1> QED BY <1>6, <1>7, <1>8, <1>9, <1>10 DEF Checkout!CheckoutInv

\* The cookies stay, and what handlers and tabs had, but for handlers that end.
LEMMA QuietKeeps ==
    ASSUME Checkout!CheckoutInv, v3' = v3, v7' = v7 \/ Checkout!Counted,
           v1' \in [Holds -> {"unused", "live", "over"}],
           \A k \in Holds : /\ v1'[k] = "unused" <=> v1[k] = "unused"
                            /\ v1'[k] = "live" => v1[k] = "live",
           v2' \in [Holds -> {"none", "PENDING_PAYMENT", "PAID"}],
           v4' \in [Items -> Checkout!TabState], \A t \in Items : Fainter(v4'[t], v4[t]),
           v5' \in [Items -> Checkout!Reading],
           \A t \in Items : v5'[t] = Checkout!NoReading \/ v5'[t] = v5[t],
           v6' \in [Slots -> Checkout!JobState],
           \A j \in Slots : \/ Weaker(v6'[j], v6[j])
                            \/ /\ Idle(v6'[j])
                               /\ v6[j].task = "hold" /\ v1'[v6[j].hold] = "live" => v6[j].hold \in v8',
           v8' \in SUBSET Holds, v8 \subseteq v8'
    PROVE  Checkout!CheckoutInv'
<1>1. Checkout!TypeOK'
      BY CheckoutFacts, CheckoutClicksTyped DEF Checkout!TypeOK
<1>2. \A j \in Slots : Checkout!JobSound(j)'
  <2>1. \A k \in Holds : v1'[k] = "unused" <=> v1[k] = "unused"
        OBVIOUS
  <2>2. \A i \in Slots : Idle(v6'[i]) \/ Weaker(v6'[i], v6[i])
        OBVIOUS
  <2> QED BY <2>1, <2>2, JobsWeaker
<1>3. Checkout!HoldsSound'
  <2>1. ASSUME NEW i \in Slots, v6[i].task = "hold", v1'[v6[i].hold] = "live"
        PROVE  v6[i].hold \in v8' \/ (v6'[i].task = "hold" /\ v6'[i].hold = v6[i].hold)
        BY <2>1 DEF Weaker
  <2>2. ASSUME NEW i \in Slots, v6'[i].task = "clear", v1'[v6'[i].hold] = "live"
        PROVE  v6[i].task = "clear" /\ v6[i].hold = v6'[i].hold /\ v1[v6[i].hold] = "live"
    <3>1. v6[i].task = "clear" /\ v6[i].hold = v6'[i].hold
          BY <2>2 DEF Weaker, Idle
    <3>2. v6[i].hold \in Holds /\ v1'[v6[i].hold] = "live"
          BY <2>2, <3>1, CheckoutFacts
    <3>3. v1[v6[i].hold] = "live"
          BY <3>2
    <3> QED BY <3>1, <3>3
  <2>3. \A kind \in Checkout!Kind : v3[kind] \in {v3'["checkout"], v3'["booking"]}
        BY DEF Checkout!Kind
  <2>4. \A k \in Holds : v1'[k] = "live" => v1[k] = "live"
        OBVIOUS
  <2> QED BY <2>1, <2>2, <2>3, <2>4, HoldsKept
<1>4. Checkout!SureSound' /\ Checkout!BookingIsShown'
  <2>1. \A t \in Items : v4'[t].sure => v4[t].sure
        BY DEF Fainter
  <2>2. \A j \in Slots : v6'[j].sure => v6[j].sure /\ Weaker(v6'[j], v6[j])
        BY DEF Weaker, Idle
  <2> QED BY <2>1, <2>2, SureKept
<1>5. \A t \in Items : Checkout!ReadingSound(t)'
      BY ReadingKept DEF Fainter
<1> QED BY <1>1, <1>2, <1>3, <1>4, <1>5 DEF Checkout!CheckoutInv

LEMMA ReadingFailsKeeps ==
    ASSUME Checkout!CheckoutInv, NEW t \in Items, Checkout!ContextFails(t)
    PROVE  Checkout!CheckoutInv'
<1>1. /\ v5' = [v5 EXCEPT ![t] = Checkout!NoReading] /\ Checkout!Counted
      /\ v4' = IF v5[t].mounted THEN [v4 EXCEPT ![t].loading = FALSE] ELSE v4
      /\ UNCHANGED <<v1, v2, v3, v6, v8>>
      BY DEF Checkout!ContextFails
<1>2. v4 \in [Items -> Checkout!TabState] /\ \A u \in Items : Fainter(v4[u], v4[u])
      BY CheckoutFacts DEF Fainter
<1>3. [v4[t] EXCEPT !.loading = FALSE] \in Checkout!TabState
      /\ Fainter([v4[t] EXCEPT !.loading = FALSE], v4[t])
      BY <1>2 DEF Checkout!TabState, Fainter
<1>4. v4' = v4 \/ v4' = [v4 EXCEPT ![t] = [v4[t] EXCEPT !.loading = FALSE]]
      BY <1>1
<1>5. v4' \in [Items -> Checkout!TabState] /\ \A u \in Items : Fainter(v4'[u], v4[u])
      BY <1>2, <1>3, <1>4
<1>6. v5' \in [Items -> Checkout!Reading] /\ \A u \in Items : v5'[u] = Checkout!NoReading \/ v5'[u] = v5[u]
      BY <1>1, CheckoutFacts, NoReadingTyped
<1>7. v6' \in [Slots -> Checkout!JobState] /\ \A j \in Slots : Weaker(v6'[j], v6[j])
      BY <1>1, CheckoutFacts DEF Weaker
<1> QED BY <1>1, <1>5, <1>6, <1>7, CheckoutFacts, QuietKeeps

LEMMA HoldExpiresKeeps ==
    ASSUME Checkout!CheckoutInv, NEW k \in Holds, Checkout!HoldExpires(k)
    PROVE  Checkout!CheckoutInv'
<1>1. v1[k] = "live" /\ v1' = [v1 EXCEPT ![k] = "over"] /\ UNCHANGED <<v2, v3, v4, v5, v6, v7, v8>>
      BY DEF Checkout!HoldExpires
<1>2. /\ v1' \in [Holds -> {"unused", "live", "over"}]
      /\ \A x \in Holds : /\ v1'[x] = "unused" <=> v1[x] = "unused"
                          /\ v1'[x] = "live" => v1[x] = "live"
      BY <1>1, CheckoutFacts
<1>3. \A t \in Items : Fainter(v4'[t], v4[t])
      BY <1>1 DEF Fainter
<1>4. \A j \in Slots : Weaker(v6'[j], v6[j])
      BY <1>1 DEF Weaker
<1>5. /\ v3' = v3 /\ v7' = v7 /\ v8' \in SUBSET Holds /\ v8 \subseteq v8'
      /\ v2' \in [Holds -> {"none", "PENDING_PAYMENT", "PAID"}]
      /\ v4' \in [Items -> Checkout!TabState] /\ v5' \in [Items -> Checkout!Reading]
      /\ v6' \in [Slots -> Checkout!JobState] /\ \A t \in Items : v5'[t] = v5[t]
      BY <1>1, CheckoutFacts
<1> QED BY <1>2, <1>3, <1>4, <1>5, QuietKeeps

------------------------------------------------------------------------------
(* Handlers *)

LEMMA StartKeeps ==
    ASSUME Checkout!CheckoutInv, NEW j \in Slots, NEW t \in Items, NEW k \in Holds,
           NEW task \in {"hold", "submit", "pay", "show"}, Checkout!Start(j, task, t, k),
           task = "hold" => v1[k] = "unused" /\ \A i \in Slots : v6[i].hold # k,
           task = "submit" => v1[k] # "unused",
           task = "pay" => v4[t].page = "payment" /\ v4[t].ctx = k
    PROVE  Checkout!CheckoutInv'
<1> DEFINE q == [task |-> task, step |-> IF task = "show" THEN "store" ELSE "ask",
                 tab |-> t, hold |-> k, mounted |-> TRUE, sure |-> v4[t].sure]
           w == [v4[t] EXCEPT !.busy = TRUE]
<1>1. /\ Checkout!Counted /\ v6[j] = Checkout!NoJob /\ v6' = [v6 EXCEPT ![j] = q]
      /\ v4' = [v4 EXCEPT ![t] = w] /\ UNCHANGED <<v1, v2, v3, v5, v8>>
      BY DEF Checkout!Start
<1>2. /\ q \in Checkout!JobState /\ q.task = task /\ q.tab = t /\ q.hold = k
      /\ q.sure => v4[t].sure
  <2>1. v4[t].sure \in BOOLEAN
        BY CheckoutFacts DEF Checkout!TabState
  <2>2. CASE task = "show"
        BY <2>1, <2>2 DEF Checkout!JobState, Checkout!MaybeHold
  <2>3. CASE task # "show"
        BY <2>1, <2>3 DEF Checkout!JobState, Checkout!MaybeHold
  <2> QED BY <2>2, <2>3
<1>3. w \in Checkout!TabState /\ Fainter(w, v4[t])
      BY CheckoutFacts DEF Checkout!TabState, Fainter
<1> HIDE DEF q, w
<1>4. /\ v6' \in [Slots -> Checkout!JobState] /\ v6'[j] = q
      /\ \A i \in Slots \ {j} : v6'[i] = v6[i]
      BY <1>1, <1>2, CheckoutFacts
<1>5. v4' \in [Items -> Checkout!TabState] /\ \A u \in Items : Fainter(v4'[u], v4[u])
  <2>1. \A u \in Items : Fainter(v4[u], v4[u])
        BY DEF Fainter
  <2> QED BY <1>1, <1>3, <2>1, CheckoutFacts
<1>6. Checkout!TypeOK'
      BY <1>1, <1>4, <1>5, CheckoutFacts, CheckoutClicksTyped DEF Checkout!TypeOK
<1>7. \A i \in Slots : Checkout!JobSound(i)'
  <2>1. ASSUME NEW i \in Slots \ {j}
        PROVE  /\ v6'[i].task # "idle" => v6'[i].tab \in Items /\ v6'[i].hold \in Holds
               /\ v6'[i].task = "idle" => v6'[i].hold = None /\ ~v6'[i].mounted
               /\ v6'[i].task = "hold" /\ v6'[i].step = "ask" => v1'[v6'[i].hold] = "unused"
        BY <1>1, <1>4, CheckoutFacts DEF Checkout!CheckoutInv, Checkout!JobSound
  <2> QED BY <1>1, <1>2, <1>4, <2>1, JobsKept
<1>8. Checkout!HoldsSound'
  <2>1. v6[j].task = "idle"
        BY <1>1, NoJobTyped
  <2> QED BY <1>1, <1>2, <1>4, <2>1, HoldsKept DEF Checkout!Kind
<1>9. Checkout!SureSound' /\ Checkout!BookingIsShown'
  <2>1. \A u \in Items : v4'[u].sure => v4[u].sure
        BY <1>5 DEF Fainter
  <2>2. q.sure /\ q.task = "pay" => q.hold = v3["booking"]
        BY <1>2 DEF Checkout!CheckoutInv, Checkout!SureSound
  <2>3. \A i \in Slots \ {j} : Weaker(v6'[i], v6[i]) /\ (v6'[i].sure => v6[i].sure)
        BY <1>4 DEF Weaker
  <2> QED BY <1>1, <1>4, <1>5, <2>1, <2>2, <2>3, SureKept
<1>10. \A u \in Items : Checkout!ReadingSound(u)'
      BY <1>1, <1>5, ReadingKept DEF Fainter
<1> QED BY <1>6, <1>7, <1>8, <1>9, <1>10 DEF Checkout!CheckoutInv

LEMMA StartsKeep ==
    ASSUME Checkout!CheckoutInv, NEW t \in Items, NEW j \in Slots,
           \/ Checkout!Submit(t, j) \/ Checkout!Pay(t, j)
           \/ \E k \in Holds : Checkout!HoldSeats(t, j, k) \/ Checkout!Show(t, j, k)
    PROVE  Checkout!CheckoutInv'
<1>0. v4[t].ctx \in Checkout!MaybeHold
      BY CheckoutFacts DEF Checkout!TabState
<1>1. CASE Checkout!Submit(t, j)
      BY <1>0, <1>1, StartKeeps DEF Checkout!Submit, Checkout!Valid, Checkout!MaybeHold
<1>2. CASE Checkout!Pay(t, j)
      BY <1>0, <1>2, StartKeeps DEF Checkout!Pay, Checkout!MaybeHold
<1>3. ASSUME NEW k \in Holds, Checkout!HoldSeats(t, j, k) PROVE Checkout!CheckoutInv'
      BY <1>3, StartKeeps DEF Checkout!HoldSeats
<1>4. ASSUME NEW k \in Holds, Checkout!Show(t, j, k) PROVE Checkout!CheckoutInv'
      BY <1>4, StartKeeps DEF Checkout!Show
<1> QED BY <1>1, <1>2, <1>3, <1>4

LEMMA FailFacts ==
    ASSUME Checkout!CheckoutInv, NEW j \in Slots, v6' = [v6 EXCEPT ![j] = Checkout!NoJob]
    PROVE  /\ v6' \in [Slots -> Checkout!JobState] /\ v6'[j] = Checkout!NoJob /\ Idle(v6'[j])
           /\ \A i \in Slots \ {j} : v6'[i] = v6[i] /\ Weaker(v6'[i], v6[i])
BY CheckoutFacts, NoJobTyped DEF Idle, Weaker

\* The handler in slot j ends with an error.
LEMMA FailKeeps ==
    ASSUME Checkout!CheckoutInv, NEW j \in Slots, v6' = [v6 EXCEPT ![j] = Checkout!NoJob],
           v4' = Checkout!Released(j) \/ v4' = v4,
           v6[j].task = "hold" => v1[v6[j].hold] # "live" \/ v6[j].hold \in v8',
           UNCHANGED <<v1, v3, v5>>, v7' = v7 \/ Checkout!Counted,
           v2' \in [Holds -> {"none", "PENDING_PAYMENT", "PAID"}],
           v8' \in SUBSET Holds, v8 \subseteq v8'
    PROVE  Checkout!CheckoutInv'
<1>1. v4' \in [Items -> Checkout!TabState] /\ \A t \in Items : Fainter(v4'[t], v4[t])
  <2>1. v4 \in [Items -> Checkout!TabState] /\ \A t \in Items : Fainter(v4[t], v4[t])
        BY CheckoutFacts DEF Fainter
  <2> QED BY <2>1, ReleasedTyped
<1>2. /\ v6' \in [Slots -> Checkout!JobState] /\ Idle(v6'[j])
      /\ \A i \in Slots \ {j} : Weaker(v6'[i], v6[i])
      BY FailFacts
<1> QED BY <1>1, <1>2, CheckoutFacts, QuietKeeps

LEMMA HoldAnsweredKeeps ==
    ASSUME Checkout!CheckoutInv, NEW j \in Slots, Checkout!HoldAnswered(j)
    PROVE  Checkout!CheckoutInv'
<1> DEFINE k == v6[j].hold
<1>1. /\ v6[j].task = "hold" /\ v6[j].step = "ask" /\ UNCHANGED <<v2, v3, v5>>
      /\ k \in Holds /\ v1[k] = "unused"
      /\ \A i \in Slots \ {j} : v6[i].task = "hold" => v6[i].hold # k
      BY DEF Checkout!HoldAnswered, Checkout!CheckoutInv, Checkout!JobSound
<1>2. CASE Checkout!Fail(j) /\ UNCHANGED <<v1, v8, v7>>
      BY <1>1, <1>2, CheckoutFacts, FailKeeps DEF Checkout!Fail
<1>3. ASSUME v1' = [v1 EXCEPT ![k] = "live"], v4' = Checkout!Released(j),
             v7' = v7 \/ Checkout!Counted, v8' \in SUBSET Holds, v8 \subseteq v8',
             v6' \in [Slots -> Checkout!JobState],
             \A i \in Slots \ {j} : v6'[i] = v6[i],
             \/ Idle(v6'[j]) /\ k \in v8'
             \/ /\ v6'[j].task = "hold" /\ v6'[j].step = "store" /\ v6'[j].hold = k
                /\ v6'[j].tab = v6[j].tab
      PROVE  Checkout!CheckoutInv'
  <2>1. v4' \in [Items -> Checkout!TabState] /\ \A t \in Items : Fainter(v4'[t], v4[t])
        BY <1>3, ReleasedTyped
  <2>2. /\ v1' \in [Holds -> {"unused", "live", "over"}] /\ v1'[k] = "live"
        /\ \A x \in Holds \ {k} : v1'[x] = v1[x]
        BY <1>1, <1>3, CheckoutFacts
  <2>3. Checkout!TypeOK'
        BY <1>1, <1>3, <2>1, <2>2, CheckoutFacts, CheckoutClicksTyped DEF Checkout!TypeOK
  <2>4. \A i \in Slots : Checkout!JobSound(i)'
    <3>1. ASSUME NEW i \in Slots \ {j}
          PROVE  /\ v6'[i].task # "idle" => v6'[i].tab \in Items /\ v6'[i].hold \in Holds
                 /\ v6'[i].task = "idle" => v6'[i].hold = None /\ ~v6'[i].mounted
                 /\ v6'[i].task = "hold" /\ v6'[i].step = "ask" => v1'[v6'[i].hold] = "unused"
      <4>1. v6'[i] = v6[i]
            BY <1>3
      <4>2. v6[i].task = "hold" /\ v6[i].step = "ask" => v1[v6[i].hold] = "unused" /\ v6[i].hold # k
            BY <1>1 DEF Checkout!CheckoutInv, Checkout!JobSound
      <4> QED BY <2>2, <4>1, <4>2, CheckoutFacts
    <3>2. /\ v6'[j].task # "idle" => v6'[j].tab \in Items /\ v6'[j].hold \in Holds
          /\ v6'[j].task = "idle" => v6'[j].hold = None /\ ~v6'[j].mounted
          /\ v6'[j].task \in {"idle", "hold"}
          /\ v6'[j].task = "hold" => v6'[j].step = "store" /\ v6'[j].hold = k
          BY <1>1, <1>3, CheckoutFacts DEF Idle
    <3>3. \A x \in Holds : v1[x] # "unused" => v1'[x] # "unused"
          BY <2>2
    <3> HIDE DEF k
    <3> QED BY <1>1, <1>3, <3>1, <3>2, <3>3, JobsKept DEF k
  <2>5. Checkout!HoldsSound'
    <3>1. \A i \in Slots : v6'[i].task = "clear" =>
             i # j /\ v6[i].task = "clear" /\ v6[i].hold = v6'[i].hold
          BY <1>3 DEF Idle
    <3>2. ASSUME NEW i \in Slots, v6'[i].task = "clear", v1'[v6'[i].hold] = "live"
          PROVE  v6[i].task = "clear" /\ v6[i].hold = v6'[i].hold /\ v1[v6[i].hold] = "live"
      <4>1. v6[i].task = "clear" /\ v6[i].hold = v6'[i].hold
            BY <3>1, <3>2
      <4>2. v1[v6[i].hold] # "unused" /\ v6[i].hold \in Holds
            BY <4>1 DEF Checkout!CheckoutInv, Checkout!JobSound
      <4> QED BY <1>1, <2>2, <3>2, <4>1, <4>2
    <3>3. \A kind \in Checkout!Kind : v3[kind] \in {v3'["checkout"], v3'["booking"]}
          BY <1>1 DEF Checkout!Kind
    <3>4. ASSUME NEW i \in Slots, v6[i].task = "hold"
          PROVE  v6[i].hold \in v8' \/ (v6'[i].task = "hold" /\ v6'[i].hold = v6[i].hold)
          BY <1>1, <1>3, <3>4
    <3>5. ASSUME NEW x \in Holds, v1'[x] = "live"
          PROVE  v1[x] = "live" \/ x \in v8' \/ \E i \in Slots : v6'[i].task = "hold" /\ v6'[i].hold = x
          BY <1>3, <2>2, <3>5
    <3> QED BY <1>1, <1>3, <3>2, <3>3, <3>4, <3>5, HoldsKept
  <2>6. Checkout!SureSound' /\ Checkout!BookingIsShown'
    <3>1. \A t \in Items : v4'[t].sure => v4[t].sure
          BY <2>1 DEF Fainter
    <3>2. ASSUME NEW i \in Slots, v6'[i].task = "pay" PROVE v6'[i] = v6[i] /\ Weaker(v6'[i], v6[i])
          BY <1>3, <3>2 DEF Weaker, Idle
    <3>3. \A i \in Slots : v6'[i].sure /\ v6'[i].task = "pay" => v6[i].sure /\ Weaker(v6'[i], v6[i])
          BY <3>2
    <3> QED BY <1>1, <2>1, <3>1, <3>3, SureKept
  <2>7. \A t \in Items : Checkout!ReadingSound(t)'
        BY <1>1, <2>1, ReadingKept DEF Fainter
  <2> QED BY <2>3, <2>4, <2>5, <2>6, <2>7 DEF Checkout!CheckoutInv
<1>4. CASE /\ v1' = [v1 EXCEPT ![k] = "live"] /\ v6' = [v6 EXCEPT ![j].step = "store"]
           /\ v4' = Checkout!Released(j) /\ UNCHANGED <<v8, v7>>
  <2> DEFINE q == [v6[j] EXCEPT !.step = "store"]
  <2>1. /\ q \in Checkout!JobState /\ q.task = "hold" /\ q.step = "store" /\ q.hold = k
        /\ q.tab = v6[j].tab
        BY <1>1, CheckoutFacts DEF Checkout!JobState
  <2>2. v6' = [v6 EXCEPT ![j] = q]
        BY <1>4
  <2> HIDE DEF q
  <2>3. /\ v6' \in [Slots -> Checkout!JobState] /\ v6'[j] = q
        /\ \A i \in Slots \ {j} : v6'[i] = v6[i]
        BY <2>1, <2>2, CheckoutFacts
  <2> HIDE DEF k
  <2> QED BY <1>3, <1>4, <2>1, <2>3, CheckoutFacts
<1>5. CASE /\ v1' = [v1 EXCEPT ![k] = "live"] /\ v8' = v8 \cup {k} /\ Checkout!Fail(j)
           /\ Checkout!Counted
  <2>1. v6' = [v6 EXCEPT ![j] = Checkout!NoJob] /\ v4' = Checkout!Released(j)
        BY <1>5 DEF Checkout!Fail
  <2>2. v6' \in [Slots -> Checkout!JobState] /\ Idle(v6'[j]) /\ \A i \in Slots \ {j} : v6'[i] = v6[i]
        BY <2>1, FailFacts
  <2>3. v8' \in SUBSET Holds /\ v8 \subseteq v8' /\ k \in v8'
        BY <1>1, <1>5, CheckoutFacts
  <2> QED BY <1>3, <1>5, <2>1, <2>2, <2>3
<1> QED BY <1>2, <1>4, <1>5 DEF Checkout!HoldAnswered

LEMMA StoreCheckoutKeeps ==
    ASSUME Checkout!CheckoutInv, NEW j \in Slots, Checkout!StoreCheckout(j)
    PROVE  Checkout!CheckoutInv'
<1> DEFINE k == v6[j].hold
           t == v6[j].tab
           J == [v6 EXCEPT ![j] = Checkout!NoJob]
           r == [kind |-> "checkout", carried |-> k, mounted |-> TRUE]
<1>1. /\ v6[j].task = "hold" /\ Checkout!Set("checkout", k) /\ Checkout!Lost("checkout", k)
      /\ v4' = [v4 EXCEPT ![t] = Checkout!Opened("checkout")] /\ v6' = Checkout!Leave(t, J)
      /\ v5' = [v5 EXCEPT ![t] = r] /\ UNCHANGED <<v1, v2, v7>>
      BY DEF Checkout!StoreCheckout
<1>2. k \in Holds /\ t \in Items /\ k \in Checkout!MaybeHold
      BY <1>1, CheckoutFacts DEF Checkout!MaybeHold
<1>3. /\ J \in [Slots -> Checkout!JobState] /\ Idle(J[j]) /\ \A i \in Slots \ {j} : J[i] = v6[i]
      BY CheckoutFacts, NoJobTyped DEF Idle
<1>4. r \in Checkout!Reading /\ r.kind = "checkout"
      BY <1>2 DEF Checkout!Reading, Checkout!Kind
<1> HIDE DEF J, r, k, t
<1>5. /\ v6' \in [Slots -> Checkout!JobState] /\ Idle(v6'[j])
      /\ \A i \in Slots \ {j} : Weaker(v6'[i], v6[i])
      BY <1>1, <1>3, JobsLeft DEF Idle, Weaker
<1>6. /\ v4' \in [Items -> Checkout!TabState] /\ v4'[t].page = "checkout" /\ ~v4'[t].sure
      /\ \A u \in Items \ {t} : v4'[u] = v4[u]
      BY <1>1, <1>2, CheckoutFacts, OpenedTyped DEF Checkout!Pages
<1>7. /\ v5' \in [Items -> Checkout!Reading] /\ v5'[t] = r /\ \A u \in Items \ {t} : v5'[u] = v5[u]
      BY <1>1, <1>2, <1>4, CheckoutFacts
<1>8. /\ v3' \in [Checkout!Kind -> Checkout!MaybeHold] /\ v3'["checkout"] = k
      /\ v3'["booking"] = v3["booking"]
      /\ v8' \in SUBSET Holds /\ v8 \subseteq v8' /\ v3["checkout"] \in {k, None} \cup v8'
      BY <1>1, <1>2, LostFacts DEF Checkout!Kind
<1>9. Checkout!TypeOK'
      BY <1>1, <1>5, <1>6, <1>7, <1>8, CheckoutFacts, CheckoutClicksTyped DEF Checkout!TypeOK
<1>10. \A i \in Slots : Checkout!JobSound(i)'
  <2>1. \A i \in Slots : Idle(v6'[i]) \/ Weaker(v6'[i], v6[i])
        BY <1>5
  <2> QED BY <1>1, <2>1, JobsWeaker
<1>11. Checkout!HoldsSound'
  <2>1. \A kind \in Checkout!Kind : v3[kind] \in {None, v3'["checkout"], v3'["booking"]} \cup v8'
        BY <1>8 DEF Checkout!Kind
  <2>2. ASSUME NEW i \in Slots, v6[i].task = "hold"
        PROVE  v6[i].hold = v3'["checkout"] \/ (v6'[i].task = "hold" /\ v6'[i].hold = v6[i].hold)
        BY <1>5, <1>8, <2>2 DEF Weaker, k
  <2>3. \A i \in Slots : v6'[i].task = "clear" => v6[i].task = "clear" /\ v6[i].hold = v6'[i].hold
        BY <1>5 DEF Weaker, Idle
  <2> QED BY <1>1, <1>8, <2>1, <2>2, <2>3, HoldsKept
<1>12. Checkout!SureSound' /\ Checkout!BookingIsShown'
  <2>1. \A u \in Items : v4'[u].sure => v4[u].sure /\ Fainter(v4'[u], v4[u])
        BY <1>6 DEF Fainter
  <2>2. \A i \in Slots : v6'[i].sure => v6[i].sure /\ Weaker(v6'[i], v6[i])
        BY <1>5 DEF Weaker, Idle
  <2> QED BY <1>8, <2>1, <2>2, SureKept
<1>13. \A u \in Items : Checkout!ReadingSound(u)'
  <2>1. ASSUME NEW u \in Items, u = t PROVE Checkout!ReadingSound(u)'
        BY <1>4, <1>6, <1>7, <2>1 DEF Checkout!ReadingSound, Checkout!Kind
  <2>2. ASSUME NEW u \in Items, u # t PROVE Checkout!ReadingSound(u)'
    <3>1. v5'[u] = v5[u] /\ v4'[u] = v4[u]
          BY <1>6, <1>7, <2>2
    <3> QED BY <3>1 DEF Checkout!CheckoutInv, Checkout!ReadingSound, Checkout!NoReading
  <2> QED BY <2>1, <2>2
<1> QED BY <1>9, <1>10, <1>11, <1>12, <1>13 DEF Checkout!CheckoutInv

LEMMA StoreCheckoutFailsKeeps ==
    ASSUME Checkout!CheckoutInv, NEW j \in Slots, Checkout!StoreCheckoutFails(j)
    PROVE  Checkout!CheckoutInv'
<1> DEFINE k == v6[j].hold
<1>1. /\ v6[j].task = "hold" /\ k \in Holds /\ k # None
      BY CheckoutFacts, CheckoutConstants DEF Checkout!StoreCheckoutFails
<1>2. /\ v6' = [v6 EXCEPT ![j] = Checkout!NoJob] /\ UNCHANGED <<v1, v2, v3, v4, v5>>
      /\ IF Checkout!Valid("checkout", k) THEN Checkout!Counted /\ v8' = v8 \cup {k}
         ELSE UNCHANGED <<v7, v8>>
      BY DEF Checkout!StoreCheckoutFails
<1>3. /\ v8' \in SUBSET Holds /\ v8 \subseteq v8' /\ (v7' = v7 \/ Checkout!Counted)
      /\ v1[k] # "live" \/ k \in v8'
      BY <1>1, <1>2, CheckoutFacts DEF Checkout!Valid
<1> QED BY <1>2, <1>3, CheckoutFacts, FailKeeps

LEMMA BookingAnsweredKeeps ==
    ASSUME Checkout!CheckoutInv, NEW j \in Slots, Checkout!BookingAnswered(j)
    PROVE  Checkout!CheckoutInv'
<1> DEFINE k == v6[j].hold
<1>1. v6[j].task = "submit" /\ k \in Holds /\ UNCHANGED <<v1, v3, v5, v8>>
      BY CheckoutFacts DEF Checkout!BookingAnswered, Checkout!AfterCreate
<1>2. v2' \in [Holds -> {"none", "PENDING_PAYMENT", "PAID"}]
      BY CheckoutFacts DEF Checkout!BookingAnswered
<1>3. CASE Checkout!Fail(j) /\ (v7' = v7 \/ Checkout!Counted)
      BY <1>1, <1>2, <1>3, CheckoutFacts, FailKeeps DEF Checkout!Fail
<1>4. CASE v6' = [v6 EXCEPT ![j].step = "store"] /\ UNCHANGED <<v4, v7>>
  <2> DEFINE q == [v6[j] EXCEPT !.step = "store"]
  <2>1. /\ q \in Checkout!JobState /\ q.task = "submit" /\ q.hold = k
        /\ q.tab = v6[j].tab
        BY <1>1, CheckoutFacts DEF Checkout!JobState
  <2>2. v6' = [v6 EXCEPT ![j] = q]
        BY <1>4
  <2> HIDE DEF q
  <2>3. /\ v6' \in [Slots -> Checkout!JobState] /\ v6'[j] = q
        /\ \A i \in Slots \ {j} : v6'[i] = v6[i]
        BY <2>1, <2>2, CheckoutFacts
  <2>4. Checkout!TypeOK'
        BY <1>1, <1>2, <1>4, <2>3, CheckoutFacts, CheckoutClicksTyped DEF Checkout!TypeOK
  <2>5. \A i \in Slots : Checkout!JobSound(i)'
    <3>1. ASSUME NEW i \in Slots \ {j}
          PROVE  /\ v6'[i].task # "idle" => v6'[i].tab \in Items /\ v6'[i].hold \in Holds
                 /\ v6'[i].task = "idle" => v6'[i].hold = None /\ ~v6'[i].mounted
                 /\ v6'[i].task = "hold" /\ v6'[i].step = "ask" => v1'[v6'[i].hold] = "unused"
          BY <1>1, <2>3, CheckoutFacts DEF Checkout!CheckoutInv, Checkout!JobSound
    <3>2. v6'[j].tab \in Items /\ v6'[j].hold \in Holds
          BY <1>1, <2>1, <2>3, CheckoutFacts
    <3> QED BY <1>1, <2>1, <2>3, <3>1, <3>2, JobsKept
  <2>6. Checkout!HoldsSound'
    <3>1. \A kind \in Checkout!Kind : v3[kind] \in {v3'["checkout"], v3'["booking"]}
          BY <1>1 DEF Checkout!Kind
    <3> QED BY <1>1, <2>1, <2>3, <3>1, HoldsKept
  <2>7. Checkout!SureSound' /\ Checkout!BookingIsShown'
    <3>1. \A u \in Items : v4'[u].sure => v4[u].sure /\ Fainter(v4'[u], v4[u])
          BY <1>4 DEF Fainter
    <3>2. \A i \in Slots : v6'[i].sure /\ v6'[i].task = "pay" => v6[i].sure /\ Weaker(v6'[i], v6[i])
          BY <2>1, <2>3 DEF Weaker
    <3> QED BY <1>1, <3>1, <3>2, SureKept
  <2>8. \A t \in Items : Checkout!ReadingSound(t)'
        BY <1>1, <1>4, ReadingKept
  <2> QED BY <2>4, <2>5, <2>6, <2>7, <2>8 DEF Checkout!CheckoutInv
<1> QED BY <1>3, <1>4 DEF Checkout!BookingAnswered

LEMMA StoreBookingFailsKeeps ==
    ASSUME Checkout!CheckoutInv, NEW j \in Slots, Checkout!StoreBookingFails(j)
    PROVE  Checkout!CheckoutInv'
BY CheckoutFacts, FailKeeps DEF Checkout!StoreBookingFails, Checkout!Fail

LEMMA ClearAnsweredKeeps ==
    ASSUME Checkout!CheckoutInv, NEW j \in Slots, Checkout!ClearAnswered(j)
    PROVE  Checkout!CheckoutInv'
<1> DEFINE k == v6[j].hold
<1>1. /\ v6[j].task = "clear" /\ v6' = [v6 EXCEPT ![j] = Checkout!NoJob]
      /\ UNCHANGED <<v1, v2, v4, v5>> /\ k \in Holds /\ k \in Checkout!MaybeHold
      BY CheckoutFacts DEF Checkout!ClearAnswered, Checkout!MaybeHold
<1>2. CASE Checkout!Counted /\ UNCHANGED <<v3, v8>>
      BY <1>1, <1>2, CheckoutFacts, FailKeeps
<1>3. CASE Checkout!Set("checkout", None) /\ Checkout!Lost("checkout", k) /\ v7' = v7
  <2> HIDE DEF k
  <2>1. None \in Checkout!MaybeHold
        BY DEF Checkout!MaybeHold
  <2>2. /\ v3' \in [Checkout!Kind -> Checkout!MaybeHold] /\ v3'["checkout"] = None
        /\ v3'["booking"] = v3["booking"]
        /\ v8' \in SUBSET Holds /\ v8 \subseteq v8' /\ v3["checkout"] \in {k, None} \cup v8'
        BY <1>1, <1>3, <2>1, LostFacts DEF Checkout!Kind
  <2>3. /\ v6' \in [Slots -> Checkout!JobState] /\ Idle(v6'[j])
        /\ \A i \in Slots \ {j} : v6'[i] = v6[i] /\ Weaker(v6'[i], v6[i])
        BY <1>1, FailFacts
  <2>4. Checkout!TypeOK'
        BY <1>1, <1>3, <2>2, <2>3, CheckoutFacts, CheckoutClicksTyped DEF Checkout!TypeOK
  <2>5. \A i \in Slots : Checkout!JobSound(i)'
    <3>1. \A i \in Slots : Idle(v6'[i]) \/ Weaker(v6'[i], v6[i])
          BY <2>3
    <3> QED BY <1>1, <3>1, JobsWeaker
  <2>6. Checkout!HoldsSound'
    <3>1. v1[k] = "live" => v3["booking"] = k \/ k \in v8
          BY <1>1 DEF Checkout!CheckoutInv, Checkout!HoldsSound, k
    <3>2. ASSUME NEW kind \in Checkout!Kind
          PROVE  v3[kind] \in {None, v3'["booking"]} \cup v8' \/ v1'[v3[kind]] # "live"
      <4>1. CASE kind = "booking"
            BY <2>2, <4>1
      <4>2. CASE kind = "checkout"
            BY <1>1, <2>2, <3>1, <4>2
      <4> QED BY <4>1, <4>2 DEF Checkout!Kind
    <3>3. \A i \in Slots : v6[i].task = "hold" => v6'[i].task = "hold" /\ v6'[i].hold = v6[i].hold
          BY <1>1, <2>3
    <3>4. \A i \in Slots : v6'[i].task = "clear" => v6[i].task = "clear" /\ v6[i].hold = v6'[i].hold
          BY <2>3 DEF Idle
    <3> QED BY <1>1, <2>2, <3>2, <3>3, <3>4, HoldsKept
  <2>7. Checkout!SureSound' /\ Checkout!BookingIsShown'
    <3>1. \A u \in Items : v4'[u].sure => v4[u].sure /\ Fainter(v4'[u], v4[u])
          BY <1>1 DEF Fainter
    <3>2. \A i \in Slots : v6'[i].sure => v6[i].sure /\ Weaker(v6'[i], v6[i])
          BY <2>3 DEF Weaker, Idle
    <3> QED BY <2>2, <3>1, <3>2, SureKept
  <2>8. \A t \in Items : Checkout!ReadingSound(t)'
        BY <1>1, ReadingKept
  <2> QED BY <2>4, <2>5, <2>6, <2>7, <2>8 DEF Checkout!CheckoutInv
<1> QED BY <1>2, <1>3 DEF Checkout!ClearAnswered, Checkout!ClearedKind

LEMMA WeakerTrans ==
    ASSUME NEW q, NEW p, NEW r, Weaker(q, p), Weaker(p, r)
    PROVE  Weaker(q, r)
BY DEF Weaker

\* A handler navigates its tab.
LEMMA PushFacts ==
    ASSUME Checkout!CheckoutInv, NEW j \in Slots, NEW opened \in Checkout!TabState,
           NEW J \in [Slots -> Checkout!JobState], v6[j].tab \in Items, Checkout!Push(j, opened, J)
    PROVE  /\ v4' \in [Items -> Checkout!TabState] /\ v4'[v6[j].tab] = opened
           /\ \A u \in Items : u # v6[j].tab =>
                 /\ Fainter(v4'[u], v4[u])
                 /\ v4'[u].sure => v3'["booking"] = v3["booking"]
           /\ v6' \in [Slots -> Checkout!JobState]
           /\ \A i \in Slots : /\ Weaker(v6'[i], J[i])
                               /\ v6'[i].sure => v3'["booking"] = v3["booking"]
           /\ v5[v6[j].tab] = Checkout!NoReading
<1> DEFINE T == Checkout!Disturb(v4, "booking", v3'["booking"])
           D == Checkout!Disturb(J, "booking", v3'["booking"])
<1>1. /\ v4' = [T EXCEPT ![v6[j].tab] = opened] /\ v6' = Checkout!Leave(v6[j].tab, D)
      /\ v5[v6[j].tab] = Checkout!NoReading
      BY DEF Checkout!Push
<1>2. Checkout!Undisturbed("booking", v3'["booking"]) => v3'["booking"] = v3["booking"]
      BY DEF Checkout!Undisturbed
<1>3. /\ T \in [Items -> Checkout!TabState]
      /\ \A u \in Items : Fainter(T[u], v4[u]) /\ (T[u].sure => v3'["booking"] = v3["booking"])
      BY <1>2, CheckoutFacts, TabsDisturbed
<1>4. /\ D \in [Slots -> Checkout!JobState]
      /\ \A i \in Slots : Weaker(D[i], J[i]) /\ (D[i].sure => v3'["booking"] = v3["booking"])
      BY <1>2, JobsDisturbed
<1> HIDE DEF T, D
<1>5. v6' \in [Slots -> Checkout!JobState] /\ \A i \in Slots : Weaker(v6'[i], D[i])
      BY <1>1, <1>4, JobsLeft
<1>6. \A i \in Slots : /\ Weaker(v6'[i], J[i])
                       /\ v6'[i].sure => v3'["booking"] = v3["booking"]
  <2> SUFFICES ASSUME NEW i \in Slots
               PROVE  Weaker(v6'[i], J[i]) /\ (v6'[i].sure => v3'["booking"] = v3["booking"])
      OBVIOUS
  <2>1. Weaker(v6'[i], D[i]) /\ Weaker(D[i], J[i])
        BY <1>4, <1>5
  <2>2. v6'[i].sure => D[i].sure
        BY <2>1 DEF Weaker
  <2> QED BY <1>4, <2>1, <2>2, WeakerTrans
<1> QED BY <1>1, <1>3, <1>5, <1>6

LEMMA BookingPageTyped ==
    ASSUME NEW k \in Holds, NEW sure \in BOOLEAN
    PROVE  LET p == Checkout!BookingPage(k, sure) IN
           /\ p \in Checkout!TabState /\ p.page = "booking" /\ p.code = k
           /\ v3'["booking"] = k => p.ctx = k
           /\ p.sure => sure
<1> DEFINE o == Checkout!Opened("booking")
<1>1. o \in Checkout!TabState /\ o.page = "booking"
      BY OpenedTyped DEF Checkout!Pages
<1>2. Checkout!BookingPage(k, sure) =
         [o EXCEPT !.code = k, !.sure = sure, !.ctx = IF v3'["booking"] = k THEN k ELSE None]
      BY DEF Checkout!BookingPage
<1> HIDE DEF o
<1>3. CASE v3'["booking"] = k
      BY <1>1, <1>2, <1>3 DEF Checkout!TabState, Checkout!MaybeHold
<1>4. CASE v3'["booking"] # k
      BY <1>1, <1>2, <1>4 DEF Checkout!TabState, Checkout!MaybeHold
<1> QED BY <1>3, <1>4

LEMMA StoreBookingKeeps ==
    ASSUME Checkout!CheckoutInv, NEW j \in Slots, Checkout!StoreBooking(j)
    PROVE  Checkout!CheckoutInv'
<1> DEFINE k == v6[j].hold
           q == [v6[j] EXCEPT !.task = "clear", !.step = "ask"]
           J == [v6 EXCEPT ![j] = q]
<1>1. PICK t \in Items : t = v6[j].tab
      BY CheckoutFacts DEF Checkout!StoreBooking
<1>2. /\ v6[j].task = "submit" /\ Checkout!Set("booking", k) /\ Checkout!Lost("booking", k)
      /\ Checkout!Push(j, Checkout!Opened("payment"), J)
      /\ Checkout!Mount(t, "payment") /\ UNCHANGED <<v1, v2, v7>>
  <2>1. [v6 EXCEPT ![j].task = "clear", ![j].step = "ask"] = J
        BY CheckoutFacts
  <2> QED BY <1>1, <2>1 DEF Checkout!StoreBooking
<1>3. k \in Holds /\ k \in Checkout!MaybeHold /\ v1[k] # "unused"
      BY <1>2, CheckoutFacts DEF Checkout!MaybeHold, Checkout!CheckoutInv, Checkout!JobSound
<1>4. q \in Checkout!JobState /\ q.task = "clear" /\ q.hold = k /\ q.tab = t
      BY <1>1, CheckoutFacts DEF Checkout!JobState
<1> HIDE DEF q
<1>5. J \in [Slots -> Checkout!JobState] /\ J[j] = q /\ \A i \in Slots \ {j} : J[i] = v6[i]
      BY <1>4, CheckoutFacts
<1> HIDE DEF J, k
<1>6. Checkout!Opened("payment") \in Checkout!TabState /\ Checkout!Opened("payment").page = "payment"
      /\ ~Checkout!Opened("payment").sure
      BY OpenedTyped DEF Checkout!Pages
<1>7. /\ v4' \in [Items -> Checkout!TabState] /\ v4'[t].page = "payment" /\ ~v4'[t].sure
      /\ \A u \in Items \ {t} : /\ Fainter(v4'[u], v4[u])
                                /\ v4'[u].sure => v3'["booking"] = v3["booking"]
      /\ v6' \in [Slots -> Checkout!JobState]
      /\ \A i \in Slots : /\ Weaker(v6'[i], J[i])
                          /\ v6'[i].sure => v3'["booking"] = v3["booking"]
      BY <1>1, <1>2, <1>5, <1>6, PushFacts
<1>8. /\ v3' \in [Checkout!Kind -> Checkout!MaybeHold] /\ v3'["booking"] = k
      /\ v3'["checkout"] = v3["checkout"]
      /\ v8' \in SUBSET Holds /\ v8 \subseteq v8' /\ v3["booking"] \in {k, None} \cup v8'
      /\ v3'["booking"] \in Checkout!MaybeHold
      BY <1>2, <1>3, LostFacts DEF Checkout!Kind
<1>9. v5' \in [Items -> Checkout!Reading] /\ \A u \in Items : Checkout!ReadingSound(u)'
  <2>1. \A u \in Items \ {t} : v4'[u].page = v4[u].page
        BY <1>7 DEF Fainter
  <2>2. "payment" \in Checkout!Pages
        BY DEF Checkout!Pages
  <2> QED BY <1>2, <1>7, <1>8, <2>1, <2>2, MountTyped
<1>10. Checkout!TypeOK'
      BY <1>2, <1>7, <1>8, <1>9, CheckoutFacts, CheckoutClicksTyped DEF Checkout!TypeOK
<1>11. /\ v6'[j].task = "clear" /\ v6'[j].hold = k /\ v6'[j].tab = t
       /\ \A i \in Slots \ {j} : Weaker(v6'[i], v6[i])
  <2>1. Weaker(v6'[j], q)
        BY <1>5, <1>7
  <2> QED BY <1>4, <1>5, <1>7, <2>1 DEF Weaker
<1>12. \A i \in Slots : Checkout!JobSound(i)'
  <2>1. ASSUME NEW i \in Slots \ {j}
        PROVE  /\ v6'[i].task # "idle" => v6'[i].tab \in Items /\ v6'[i].hold \in Holds
               /\ v6'[i].task = "idle" => v6'[i].hold = None /\ ~v6'[i].mounted
               /\ v6'[i].task = "hold" /\ v6'[i].step = "ask" => v1'[v6'[i].hold] = "unused"
               /\ v6'[i].task = v6[i].task /\ v6'[i].hold = v6[i].hold /\ v6'[i].step = v6[i].step
        BY <1>2, <1>11, CheckoutFacts DEF Weaker, Checkout!CheckoutInv, Checkout!JobSound
  <2> QED BY <1>2, <1>3, <1>11, <2>1, JobsKept
<1>13. Checkout!HoldsSound'
  <2>1. \A kind \in Checkout!Kind : v3[kind] \in {None, v3'["checkout"], v3'["booking"]} \cup v8'
        BY <1>8 DEF Checkout!Kind
  <2>2. ASSUME NEW i \in Slots, v6[i].task = "hold"
        PROVE  v6'[i].task = "hold" /\ v6'[i].hold = v6[i].hold
        BY <1>2, <1>11, <2>2 DEF Weaker
  <2>3. ASSUME NEW i \in Slots, v6'[i].task = "clear"
        PROVE  v6'[i].hold = v3'["booking"] \/ (v6[i].task = "clear" /\ v6[i].hold = v6'[i].hold)
        BY <1>8, <1>11, <2>3 DEF Weaker
  <2>4. ASSUME NEW i \in Slots, v6'[i].task = "clear", v1'[v6'[i].hold] = "live"
        PROVE  v6'[i].hold \in v8' \cup {v3'["booking"]}
    <3>1. CASE v6[i].task = "clear" /\ v6[i].hold = v6'[i].hold
      <4>1. v3["booking"] = v6[i].hold \/ v6[i].hold \in v8
            BY <1>2, <2>4, <3>1 DEF Checkout!CheckoutInv, Checkout!HoldsSound
      <4>2. v6[i].hold # None
            BY <3>1, CheckoutFacts, CheckoutConstants
      <4> QED BY <1>8, <3>1, <4>1, <4>2
    <3> QED BY <2>3, <2>4, <3>1
  <2> QED BY <1>2, <1>8, <2>1, <2>2, <2>4, HoldsKept
<1>14. Checkout!SureSound' /\ Checkout!BookingIsShown'
  <2>1. \A u \in Items : v4'[u].sure =>
           v4[u].sure /\ Fainter(v4'[u], v4[u]) /\ v3'["booking"] = v3["booking"]
        BY <1>7 DEF Fainter
  <2>2. \A i \in Slots : v6'[i].sure /\ v6'[i].task = "pay" =>
           v6[i].sure /\ Weaker(v6'[i], v6[i]) /\ v3'["booking"] = v3["booking"]
        BY <1>7, <1>11 DEF Weaker
  <2> QED BY <2>1, <2>2, SureKept
<1> QED BY <1>9, <1>10, <1>12, <1>13, <1>14 DEF Checkout!CheckoutInv

\* A handler ends and shows a booking.
LEMMA ShowsBooking ==
    ASSUME Checkout!CheckoutInv, NEW j \in Slots, v6[j].task \in {"pay", "show"},
           NEW sure \in BOOLEAN, sure => v3'["booking"] = v6[j].hold,
           Checkout!Push(j, Checkout!BookingPage(v6[j].hold, sure), [v6 EXCEPT ![j] = Checkout!NoJob]),
           v3' \in [Checkout!Kind -> Checkout!MaybeHold], v3'["checkout"] = v3["checkout"],
           v3'["booking"] = v3["booking"] \/ v3["booking"] \in {v3'["booking"], None} \cup v8',
           v8' \in SUBSET Holds, v8 \subseteq v8', UNCHANGED <<v1, v5, v7>>,
           v2' \in [Holds -> {"none", "PENDING_PAYMENT", "PAID"}]
    PROVE  Checkout!CheckoutInv'
<1> DEFINE k == v6[j].hold
           J == [v6 EXCEPT ![j] = Checkout!NoJob]
           p == Checkout!BookingPage(k, sure)
<1>1. PICK t \in Items : t = v6[j].tab
      BY CheckoutFacts
<1>2. k \in Holds
      BY CheckoutFacts
<1>3. J \in [Slots -> Checkout!JobState] /\ Idle(J[j]) /\ \A i \in Slots \ {j} : J[i] = v6[i]
      BY CheckoutFacts, NoJobTyped DEF Idle
<1>4. /\ p \in Checkout!TabState /\ p.page = "booking" /\ p.code = k /\ (p.sure => sure)
      /\ v3'["booking"] = k => p.ctx = k
      BY <1>2, BookingPageTyped
<1>5. Checkout!Push(j, p, J)
      OBVIOUS
<1> HIDE DEF J, p
<1>6. /\ v4' \in [Items -> Checkout!TabState] /\ v4'[t] = p
      /\ \A u \in Items \ {t} : /\ Fainter(v4'[u], v4[u])
                                /\ v4'[u].sure => v3'["booking"] = v3["booking"]
      /\ v6' \in [Slots -> Checkout!JobState]
      /\ \A i \in Slots : /\ Weaker(v6'[i], J[i])
                          /\ v6'[i].sure => v3'["booking"] = v3["booking"]
      /\ v5[t] = Checkout!NoReading
      BY <1>1, <1>3, <1>4, <1>5, PushFacts
<1>7. Idle(v6'[j]) /\ \A i \in Slots \ {j} : Weaker(v6'[i], v6[i])
      BY <1>3, <1>6 DEF Idle, Weaker
<1>8. Checkout!TypeOK'
      BY <1>6, CheckoutFacts, CheckoutClicksTyped DEF Checkout!TypeOK
<1>9. \A i \in Slots : Checkout!JobSound(i)'
  <2>1. \A i \in Slots : Idle(v6'[i]) \/ Weaker(v6'[i], v6[i])
        BY <1>7
  <2> QED BY <2>1, JobsWeaker
<1>10. Checkout!HoldsSound'
  <2>1. \A kind \in Checkout!Kind : v3[kind] \in {None, v3'["checkout"], v3'["booking"]} \cup v8'
        BY DEF Checkout!Kind
  <2>2. \A i \in Slots : v6[i].task = "hold" => v6'[i].task = "hold" /\ v6'[i].hold = v6[i].hold
        BY <1>7 DEF Weaker
  <2>3. ASSUME NEW i \in Slots, v6'[i].task = "clear", v1'[v6'[i].hold] = "live"
        PROVE  v6'[i].hold \in v8' \cup {v3'["booking"]}
    <3>1. v6[i].task = "clear" /\ v6[i].hold = v6'[i].hold
          BY <1>7, <2>3 DEF Weaker, Idle
    <3>2. v3["booking"] = v6[i].hold \/ v6[i].hold \in v8
          BY <2>3, <3>1 DEF Checkout!CheckoutInv, Checkout!HoldsSound
    <3>3. v6[i].hold # None
          BY <3>1, CheckoutFacts, CheckoutConstants
    <3> QED BY <3>1, <3>2, <3>3
  <2> QED BY <2>1, <2>2, <2>3, HoldsKept
<1>11. Checkout!SureSound' /\ Checkout!BookingIsShown'
  <2>1. \A u \in Items \ {t} : v4'[u].sure =>
           v4[u].sure /\ Fainter(v4'[u], v4[u]) /\ v3'["booking"] = v3["booking"]
        BY <1>6 DEF Fainter
  <2>2. v4'[t].page = "booking" /\ (v4'[t].sure => v4'[t].ctx = v4'[t].code)
        BY <1>4, <1>6
  <2>3. \A i \in Slots : v6'[i].sure /\ v6'[i].task = "pay" =>
           v6[i].sure /\ Weaker(v6'[i], v6[i]) /\ v3'["booking"] = v3["booking"]
        BY <1>6, <1>7 DEF Weaker, Idle
  <2> QED BY <2>1, <2>2, <2>3, SureKept
<1>12. \A u \in Items : Checkout!ReadingSound(u)'
  <2>1. \A u \in Items : v5'[u] = Checkout!NoReading \/ (v5'[u] = v5[u] /\ v4'[u].page = v4[u].page)
        BY <1>6 DEF Fainter
  <2> QED BY <2>1, ReadingKept
<1> QED BY <1>8, <1>9, <1>10, <1>11, <1>12 DEF Checkout!CheckoutInv

LEMMA PaymentAnsweredKeeps ==
    ASSUME Checkout!CheckoutInv, NEW j \in Slots, Checkout!PaymentAnswered(j)
    PROVE  Checkout!CheckoutInv'
<1>1. v6[j].task = "pay" /\ v6[j].hold \in Holds /\ UNCHANGED <<v1, v3, v5, v8>>
      BY CheckoutFacts DEF Checkout!PaymentAnswered
<1>2. v2' \in [Holds -> {"none", "PENDING_PAYMENT", "PAID"}]
      BY CheckoutFacts DEF Checkout!PaymentAnswered
<1>3. CASE Checkout!Fail(j) /\ (v7' = v7 \/ Checkout!Counted)
      BY <1>1, <1>2, <1>3, CheckoutFacts, FailKeeps DEF Checkout!Fail
<1>4. CASE /\ Checkout!Push(j, Checkout!BookingPage(v6[j].hold, v6[j].sure),
                            [v6 EXCEPT ![j] = Checkout!NoJob])
           /\ UNCHANGED v7
  <2>1. v6[j].sure \in BOOLEAN
        BY CheckoutFacts DEF Checkout!JobState
  <2>2. v6[j].sure => v3'["booking"] = v6[j].hold
        BY <1>1 DEF Checkout!CheckoutInv, Checkout!SureSound
  <2> QED BY <1>1, <1>2, <1>4, <2>1, <2>2, CheckoutFacts, ShowsBooking
<1> QED BY <1>3, <1>4 DEF Checkout!PaymentAnswered

LEMMA ShowAnsweredKeeps ==
    ASSUME Checkout!CheckoutInv, NEW j \in Slots, Checkout!ShowAnswered(j)
    PROVE  Checkout!CheckoutInv'
<1>1. /\ v6[j].task = "show" /\ v6[j].hold \in Holds /\ v6[j].hold \in Checkout!MaybeHold
      /\ UNCHANGED <<v1, v2, v5, v7>>
      BY CheckoutFacts DEF Checkout!ShowAnswered, Checkout!MaybeHold
<1>2. CASE Checkout!Fail(j) /\ UNCHANGED <<v3, v8>>
      BY <1>1, <1>2, CheckoutFacts, FailKeeps DEF Checkout!Fail
<1>3. CASE /\ Checkout!Set("booking", v6[j].hold) /\ Checkout!Lost("booking", v6[j].hold)
           /\ Checkout!Push(j, Checkout!BookingPage(v6[j].hold, TRUE),
                            [v6 EXCEPT ![j] = Checkout!NoJob])
  <2>1. /\ v3' \in [Checkout!Kind -> Checkout!MaybeHold] /\ v3'["booking"] = v6[j].hold
        /\ v3'["checkout"] = v3["checkout"]
        /\ v8' \in SUBSET Holds /\ v8 \subseteq v8' /\ v3["booking"] \in {v6[j].hold, None} \cup v8'
        BY <1>1, <1>3, LostFacts DEF Checkout!Kind
  <2> QED BY <1>1, <1>3, <2>1, CheckoutFacts, ShowsBooking
<1> QED BY <1>2, <1>3 DEF Checkout!ShowAnswered

LEMMA CheckoutStep ==
    ASSUME Checkout!CheckoutInv, Checkout!Next
    PROVE  Checkout!CheckoutInv'
<1>1. ASSUME NEW t \in Items, Checkout!TabStep(t) PROVE Checkout!CheckoutInv'
      BY <1>1, VisitKeeps, ContextAnswersKeep, ReadingFailsKeeps, StartsKeep DEF Checkout!TabStep
<1>2. ASSUME NEW j \in Slots, Checkout!JobStep(j) PROVE Checkout!CheckoutInv'
      BY <1>2, HoldAnsweredKeeps, StoreCheckoutKeeps, StoreCheckoutFailsKeeps, BookingAnsweredKeeps,
         StoreBookingKeeps, StoreBookingFailsKeeps, ClearAnsweredKeeps, PaymentAnsweredKeeps,
         ShowAnsweredKeeps DEF Checkout!JobStep
<1> QED BY <1>1, <1>2, HoldExpiresKeeps, BookingCookieKeeps DEF Checkout!Next

\* The two properties of the checkout
LEMMA HoldsWithinReach == Checkout!CheckoutInv => Checkout!WithinReach
BY DEF Checkout!CheckoutInv, Checkout!HoldsSound, Checkout!Anchored, Checkout!WithinReach,
       Checkout!InReach

------------------------------------------------------------------------------
(* The parts together *)

WebInv ==
    /\ part \in {"checkout", "search", "suggest", "catalog", "report", "session"}
    /\ part = "checkout" => Checkout!CheckoutInv
    /\ part = "search" => Search!SearchInv
    /\ part = "suggest" => Suggest!SuggestInv
    /\ part = "catalog" => Catalog!CatalogInv
    /\ part = "report" => Report!ReportInv
    /\ part = "session" => Session!SessionInv

LEMMA WebInitially == Init => WebInv
BY CheckoutInitially, SearchInitially, SuggestInitially, CatalogInitially, ReportInitially,
   SessionInitially DEF Init, WebInv

LEMMA WebStep == WebInv /\ Next => WebInv'
BY CheckoutStep, SearchStep, SuggestStep, CatalogStep, ReportStep, SessionStep DEF Next, WebInv

\* Nothing of a part depends on anything but its variables.
LEMMA WebStutters == WebInv /\ UNCHANGED vars => WebInv'
<1> SUFFICES ASSUME WebInv, UNCHANGED vars PROVE WebInv'
    OBVIOUS
<1>0. UNCHANGED <<v1, v2, v3, v4, v5, v6, v7, v8, v9, v10>> /\ part' = part
      BY DEF vars
<1>1. Checkout!CheckoutInv => Checkout!CheckoutInv'
      BY <1>0 DEF Checkout!CheckoutInv, Checkout!TypeOK, Checkout!JobSound, Checkout!HoldsSound,
                  Checkout!Anchored, Checkout!SureSound, Checkout!ReadingSound, Checkout!BookingIsShown
<1>2. Search!SearchInv => Search!SearchInv'
      BY <1>0 DEF Search!SearchInv, Search!TypeOK, Search!LatestWins
<1>3. Suggest!SuggestInv => Suggest!SuggestInv'
      BY <1>0 DEF Suggest!SuggestInv, Suggest!TypeOK, Suggest!SuggestionsMatch
<1>4. Catalog!CatalogInv => Catalog!CatalogInv'
      BY <1>0 DEF Catalog!CatalogInv, Catalog!TypeOK, Catalog!BirthSound, Catalog!HandlerSound,
                  Catalog!Live, Catalog!ListSound, Catalog!Done, Catalog!Rows, Catalog!Stored,
                  Catalog!DialogSound, Catalog!DialogShowsItsOwn
<1>5. Report!ReportInv => Report!ReportInv'
      BY <1>0 DEF Report!ReportInv, Report!TypeOK
<1>6. Session!SessionInv => Session!SessionInv'
      BY <1>0 DEF Session!SessionInv, Session!TypeOK
<1> QED BY <1>0, <1>1, <1>2, <1>3, <1>4, <1>5, <1>6 DEF WebInv

\* The invariants of all parts: no interleaving of clicks, answers, deadlines, lost
\* replies and navigation breaks them.
THEOREM WebInvariant == Spec => []WebInv
<1>1. WebInv /\ [Next]_vars => WebInv'
      BY WebStep, WebStutters
<1> QED BY WebInitially, <1>1, PTL DEF Spec

\* Seats that are held, and their booking, stay in reach of the customer: every
\* action that overwrites or clears a cookie (api/flow-context) leaves the hold to
\* another cookie, to a handler, or to the context of another hold.
THEOREM HoldsStayInReach == Spec => []WithinReach
<1>1. WebInv => WithinReach
      BY HoldsWithinReach DEF WebInv, WithinReach
<1> QED BY WebInvariant, <1>1, PTL

\* The booking page (booking/[bookingCode]) shows whoever paid or looked a booking
\* up that booking.
THEOREM PaidBookingIsShown == Spec => []BookingIsShown
<1>1. WebInv => BookingIsShown
      BY DEF WebInv, BookingIsShown, Checkout!CheckoutInv
<1> QED BY WebInvariant, <1>1, PTL

\* The search page, the location fields, the catalog and the reports show what was
\* found last, in whatever order their requests are answered.
THEOREM PagesStayTrue == Spec => []PagesTrue
<1>1. ASSUME WebInv PROVE PagesTrue
  <2>1. TypeOK
        BY <1>1 DEF WebInv, TypeOK, Checkout!CheckoutInv, Search!SearchInv, Suggest!SuggestInv,
                    Catalog!CatalogInv, Report!ReportInv, Session!SessionInv
  <2>2. part = "search" => Search!LatestWins
        BY <1>1 DEF WebInv, Search!SearchInv
  <2>3. part = "suggest" => Suggest!SuggestionsMatch
        BY <1>1 DEF WebInv, Suggest!SuggestInv
  <2>4. part = "catalog" => Catalog!ListTrue /\ Catalog!DialogShowsItsOwn
    <3> SUFFICES ASSUME Catalog!CatalogInv PROVE Catalog!ListTrue /\ Catalog!DialogShowsItsOwn
        BY <1>1 DEF WebInv
    <3>1. ~v4.loading => \A s \in Slots : ~Catalog!Done(s)
          BY OneHandler
    <3> QED BY <3>1 DEF Catalog!CatalogInv, Catalog!ListSound, Catalog!ListTrue
  <2>5. part = "report" => Report!ReportTrue
        BY <1>1 DEF WebInv, Report!ReportInv, Report!ReportTrue
  <2> QED BY <1>1, <2>1, <2>2, <2>3, <2>4, <2>5 DEF PagesTrue, WebInv
<1> QED BY WebInvariant, <1>1, PTL

\* The layout of the console and api/auth sign nobody out who has a valid session, for
\* anything that fails or is asked while it lasts.
THEOREM SessionsLast == Spec => []ValidSessionKept
<1>1. WebInv => ValidSessionKept
      BY DEF WebInv, ValidSessionKept, Session!SessionInv, Session!ValidSessionKept
<1> QED BY WebInvariant, <1>1, PTL

\* The edits of the console (updateTrip, updateVehicle and their kin), however old
\* their forms, change no status of a trip and no number of seats of a layout, and
\* bring back no deleted row.
THEOREM EditsAreSafe == Spec => EditsUndoNothing
<1>1. WebInv /\ [Next]_vars =>
         [part = "catalog" => Catalog!StateStands /\ Catalog!DeletionStands]_vars
      BY EditsStand DEF WebInv, Next
<1> QED BY WebInvariant, <1>1, PTL DEF Spec, EditsUndoNothing
===============================================================================
