---------------------------- MODULE CircuitBreaker ----------------------------
(***************************************************************************)
(* callGrpc of the GraphQL gateway: one circuit breaker per downstream     *)
(* service, shared by every call that is in flight to it.  A call is       *)
(* admitted or refused when it starts and updates the breaker when it      *)
(* ends, by which time the breaker may have gone through other states.     *)
(*                                                                         *)
(* Time is counted in ticks.  A call ends by its deadline: the event loop  *)
(* is taken to deliver DEADLINE_EXCEEDED before the clock passes it.       *)
(* A refused call is no step: it leaves the breaker alone.                 *)
(***************************************************************************)
EXTENDS Integers

CONSTANTS
    Call,       \* slots for calls in flight to one service
    Threshold,  \* circuitFailureThreshold
    Timeout,    \* timeoutMs
    Cooldown,   \* circuitCooldownMs
    MaxTime     \* bound: the clock stops there

ASSUME ThresholdIsPositive == Threshold \in Nat \ {0}
ASSUME TimesAreNat == Timeout \in Nat /\ Cooldown \in Nat /\ MaxTime \in Nat

VARIABLES
    now,               \* Date.now()
    state,             \* breaker.state
    failures,          \* breaker.failures, not counted beyond Threshold
    openedAt,          \* breaker.openedAt
    halfOpenInFlight,  \* breaker.halfOpenInFlight
    call               \* the calls in flight

breaker == <<state, failures, openedAt, halfOpenInFlight>>
breakerVars == <<now, breaker, call>>

Calls == [started : Nat, kind : {"none", "ordinary", "trial"}]

NoCall == [started |-> 0, kind |-> "none"]

InFlight(c) == call[c].kind # "none"

Trials == {c \in Call : call[c].kind = "trial"}

BreakerTypeOK ==
    /\ now \in Nat
    /\ state \in {"closed", "open", "half-open"}
    /\ failures \in 0..Threshold
    /\ openedAt \in Nat
    /\ halfOpenInFlight \in BOOLEAN
    /\ call \in [Call -> Calls]

BreakerInit ==
    /\ now = 0
    /\ state = "closed"
    /\ failures = 0
    /\ openedAt = 0
    /\ halfOpenInFlight = FALSE
    /\ call = [c \in Call |-> NoCall]

Send(c, kind) == call' = [call EXCEPT ![c] = [started |-> now, kind |-> kind]]

\* Mutant form: every call is a trial once the cooldown is over.
AdmitEveryTrial(c) ==
    /\ ~InFlight(c)
    /\ \/ /\ state = "closed"
          /\ Send(c, "ordinary")
          /\ UNCHANGED breaker
       \/ /\ state # "closed"
          /\ now - openedAt >= Cooldown
          /\ state' = "half-open"
          /\ halfOpenInFlight' = TRUE
          /\ Send(c, "trial")
          /\ UNCHANGED <<failures, openedAt>>
    /\ UNCHANGED now

\* The breaker is closed, or open for longer than the cooldown.  A half-open
\* one without a call in flight admits calls too, as ordinary ones.
Admit(c) ==
    /\ ~InFlight(c)
    /\ \/ /\ state # "open"
          /\ ~(state = "half-open" /\ halfOpenInFlight)
          /\ Send(c, "ordinary")
          /\ UNCHANGED breaker
       \/ /\ state = "open"
          /\ now - openedAt >= Cooldown
          /\ state' = "half-open"
          /\ halfOpenInFlight' = TRUE
          /\ Send(c, "trial")
          /\ UNCHANGED <<failures, openedAt>>
    /\ UNCHANGED now

Return(c) == InFlight(c) /\ call' = [call EXCEPT ![c] = NoCall]

\* A response, or an error that shows the service is up: recordSuccess.
Succeed(c) ==
    /\ Return(c)
    /\ state' = "closed"
    /\ failures' = 0
    /\ halfOpenInFlight' = FALSE
    /\ UNCHANGED <<now, openedAt>>

\* Mutant form: a late failure changes the state, but openedAt only once.
FailKeepsOpenedAt(c) ==
    LET count == IF failures < Threshold THEN failures + 1 ELSE Threshold
    IN  /\ Return(c)
        /\ failures' = count
        /\ state' = IF state = "half-open" \/ count = Threshold THEN "open" ELSE state
        /\ openedAt' = IF openedAt = 0 /\ count = Threshold THEN now ELSE openedAt
        /\ halfOpenInFlight' = FALSE
        /\ UNCHANGED now

\* UNAVAILABLE or DEADLINE_EXCEEDED: recordFailure.
Fail(c) ==
    LET count == IF failures < Threshold THEN failures + 1 ELSE Threshold
    IN  /\ Return(c)
        /\ failures' = count
        /\ IF state = "half-open" \/ count = Threshold
           THEN state' = "open" /\ openedAt' = now
           ELSE UNCHANGED <<state, openedAt>>
        /\ halfOpenInFlight' = FALSE
        /\ UNCHANGED now

\* No deadline is passed over.
Tick ==
    /\ now < MaxTime
    /\ \A c \in Call : InFlight(c) => now < call[c].started + Timeout
    /\ now' = now + 1
    /\ UNCHANGED <<breaker, call>>

BreakerNext ==
    \/ Tick
    \/ \E c \in Call : Admit(c)
    \/ \E c \in Call : Succeed(c)
    \/ \E c \in Call : Fail(c)

BreakerSpec == BreakerInit /\ [][BreakerNext]_breakerVars

------------------------------------------------------------------------------
(* Properties. *)

(* "A single trial call is already probing the downstream" (call.js): two
   trials are never in flight at once, although any call that ends, however
   long ago it was admitted, moves the breaker. *)
SingleTrial == \A c, d \in Trials : c = d

(* "always clear the flag once that trial resolves" (call.js): a half-open
   breaker has its trial in flight, so it cannot refuse every call for ever. *)
NeverJammed == state = "half-open" => halfOpenInFlight /\ Trials # {}

\* A half-open breaker has exactly one trial, on which its next state depends.
TrialsOrderly == SingleTrial /\ NeverJammed

(* "so a downed service can't queue up requests against the gateway"
   (call.js): while the breaker is not closed, every call still in flight
   started before it opened, the trial excepted. *)
NoPileUp ==
    state # "closed" =>
        \A c \in Call : call[c].kind = "ordinary" => call[c].started <= openedAt
==============================================================================
