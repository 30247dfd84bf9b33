---------------------------- MODULE LocationInput -----------------------------
(***************************************************************************)
(* The field for an origin or a destination, with its suggestions          *)
(* (web/src/components/LocationInput.jsx).  Every change of its value      *)
(* starts a timer, and the timer a request.                                *)
(***************************************************************************)
CONSTANTS
    Word,      \* what may be typed; Empty is one of them
    Empty,
    Lookup,    \* slots for requests in flight (bound)
    None

EmptyIsAWord == Empty \in Word /\ None \notin Word \cup Lookup

VARIABLES
    value,     \* the text in the field
    timer,     \* debounceRef: the timer of the latest value is running
    latest,    \* the lookup that latestRequestRef recognizes
    lookup,    \* the keyword of each request in flight
    list       \* the keyword the suggestions were found for, or None

vars == <<value, timer, latest, lookup, list>>

TypeOK ==
    /\ value \in Word
    /\ timer \in BOOLEAN
    /\ latest \in Lookup \cup {None}
    /\ lookup \in [Lookup -> Word \cup {None}]
    /\ list \in Word \cup {None}

Init ==
    /\ value \in Word
    /\ timer = TRUE
    /\ latest = None
    /\ lookup = [r \in Lookup |-> None]
    /\ list = None

\* Typing, or picking a suggestion.
Change(word) ==
    /\ word # value
    /\ value' = word
    /\ timer' = TRUE
    /\ latest' = None
    /\ UNCHANGED <<lookup, list>>

TimerFires(r) ==
    /\ timer
    /\ timer' = FALSE
    /\ IF value = Empty
       THEN list' = None /\ UNCHANGED <<latest, lookup>>
       ELSE /\ lookup[r] = None
            /\ lookup' = [lookup EXCEPT ![r] = value]
            /\ latest' = r
            /\ UNCHANGED list
    /\ UNCHANGED value

\* The answer, or None when the request fails.
LookupAnswered(r) ==
    /\ lookup[r] # None
    /\ IF latest = r
       THEN list' \in {lookup[r], None} /\ latest' = None
       ELSE UNCHANGED <<list, latest>>
    /\ lookup' = [lookup EXCEPT ![r] = None]
    /\ UNCHANGED <<value, timer>>

Next ==
    \/ \E word \in Word : Change(word)
    \/ \E r \in Lookup : TimerFires(r) \/ LookupAnswered(r)

Spec == Init /\ [][Next]_vars

\* When nothing is on its way any more, the suggestions are those for the text in
\* the field, in whatever order the answers came.
SuggestionsMatch == ~timer /\ latest = None => list \in {value, None}

\* The invariant behind it: the lookup that is listened to is for the text in the field.
SuggestInv ==
    /\ TypeOK
    /\ SuggestionsMatch
    /\ latest # None => ~timer /\ lookup[latest] = value
==============================================================================
