--------------------------- MODULE WorkflowConsumer ---------------------------
(***************************************************************************)
(* createWorkflowConsumer (packages/shared/src/events.js): a consumer of   *)
(* RabbitMQ that connects again when its connection or channel closes.     *)
(* Whether to reconnect is decided in callbacks, from three variables of   *)
(* the closure: reconnectTimer, connectingPromise, and the flag "active"   *)
(* of the link that closed.  The returned close() has no caller in the     *)
(* program and is left out.                                                *)
(***************************************************************************)
VARIABLES
    booting,    \* createWorkflowConsumer has not returned yet
    attempt,    \* where connectConsumer is; "none": connectingPromise is null
    timer,      \* reconnectTimer is set
    link,       \* the latest connection with its channel
    overlooked  \* for the properties: it closed after connectConsumer was done
                \* with it and before connectingPromise was cleared

consumerVars == <<booting, attempt, timer, link, overlooked>>

Attempt == {"none", "connect", "configure", "finish"}

ConsumerTypeOK ==
    /\ booting \in BOOLEAN
    /\ attempt \in Attempt
    /\ timer \in BOOLEAN
    /\ link \in {"none", "open", "closed"}
    /\ overlooked \in BOOLEAN

ConsumerInit ==
    /\ booting = TRUE
    /\ attempt = "connect"
    /\ timer = FALSE
    /\ link = "none"
    /\ overlooked = FALSE

------------------------------------------------------------------------------
\* Mutant form: without the test of connectingPromise.
ScheduleReconnectAlways == timer' = TRUE

\* scheduleReconnect, which leaves it to the attempt that is under way.
ScheduleReconnect == timer' = (timer \/ attempt = "none")

\* connect and createChannel; then the close handlers are registered.
Connect ==
    /\ attempt = "connect"
    /\ attempt' = "configure"
    /\ link' = "open"
    /\ UNCHANGED <<booting, timer, overlooked>>

\* configureWorkflowConsumer, up to the reply to consume: messages may come.
Configure ==
    /\ attempt = "configure"
    /\ link = "open"
    /\ attempt' = "finish"
    /\ UNCHANGED <<booting, timer, link, overlooked>>

\* Mutant form: the catch of the timer's callback only reports the error.
AttemptFailedSilently ==
    /\ attempt' = IF booting THEN "connect" ELSE "none"
    /\ timer' = FALSE

\* The first attempt fails the process, which is started again.  A later one is
\* repeated: connectingPromise is null again when the catch runs.
AttemptFailed ==
    /\ attempt' = IF booting THEN "connect" ELSE "none"
    /\ timer' = ~booting

ConnectFails ==
    /\ attempt = "connect"
    /\ AttemptFailed
    /\ UNCHANGED <<booting, link, overlooked>>

\* The link is closed again, or has closed by itself.
ConfigureFails ==
    /\ attempt = "configure"
    /\ AttemptFailed
    /\ link' = "none"
    /\ UNCHANGED <<booting, overlooked>>

\* The finally of ensureConnected clears connectingPromise.
Finish ==
    /\ attempt = "finish"
    /\ attempt' = "none"
    /\ booting' = FALSE
    /\ UNCHANGED <<timer, link, overlooked>>

TimerFires ==
    /\ timer
    /\ timer' = FALSE
    /\ attempt' = "connect"
    /\ UNCHANGED <<booting, link, overlooked>>

\* The connection or the channel closes: recover runs once for each link.
LinkLost ==
    /\ link = "open"
    /\ link' = "closed"
    /\ ScheduleReconnect
    /\ overlooked' = (overlooked \/ attempt = "finish")
    /\ UNCHANGED <<booting, attempt>>

\* The process dies and is started again.
Restart ==
    /\ booting' = TRUE
    /\ attempt' = "connect"
    /\ timer' = FALSE
    /\ link' = "none"
    /\ overlooked' = FALSE

ConsumerProgress ==
    Connect \/ Configure \/ ConnectFails \/ ConfigureFails \/ Finish \/ TimerFires

ConsumerNext == ConsumerProgress \/ LinkLost \/ Restart

ConsumerSpec == ConsumerInit /\ [][ConsumerNext]_consumerVars

------------------------------------------------------------------------------
\* Messages reach the handler.
Consuming == link = "open" /\ attempt \in {"finish", "none"}

\* A consumer without a link is about to get one: an attempt is under way or its
\* timer runs.  The one exception is a link that closes in the moment between
\* the end of connectConsumer and the clearing of connectingPromise.
Reconnecting == link = "open" \/ timer \/ attempt # "none" \/ overlooked

\* There is one link: none is opened, or about to be, while the last is open or
\* another attempt is under way.  Two would deliver to the same handler at once.
OneLink ==
    /\ ~(timer /\ attempt # "none")
    /\ timer \/ attempt = "connect" => link # "open"

\* The consumer has a link or is about to get one, and never two.
KeepsOneLink == Reconnecting /\ OneLink
==============================================================================
