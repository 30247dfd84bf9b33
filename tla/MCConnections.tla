---------------------------- MODULE MCConnections -----------------------------
(***************************************************************************)
(* Three parts of the services that share no state, checked in one run: a  *)
(* behaviour is one of a single part, while the others stay as they began. *)
(***************************************************************************)
EXTENDS CircuitBreaker, Realtime, ConnectionPools

VARIABLE part

allVars == <<part, breakerVars, vars, poolsVars>>

PartsInit ==
    /\ part \in {"breaker", "bridge", "pools"}
    /\ BreakerInit /\ Init /\ PoolsInit

BreakerStep(A) == part = "breaker" /\ A /\ UNCHANGED <<part, vars, poolsVars>>
BridgeStep(A) == part = "bridge" /\ A /\ UNCHANGED <<part, breakerVars, poolsVars>>
PoolsStep(A) == part = "pools" /\ A /\ UNCHANGED <<part, breakerVars, vars>>

PartsNext == BreakerStep(BreakerNext) \/ BridgeStep(Next) \/ PoolsStep(PoolsNext)

\* The fairness of Realtime and of ConnectionPools
PartsFairness ==
    /\ WF_allVars(BridgeStep(Reconnect))
    /\ \A s \in Seat : WF_allVars(BridgeStep(Deliver(s)))
    /\ WF_allVars(BridgeStep(ReadHolds("bridge") \/ Publish("bridge")))
    /\ WF_allVars(BridgeStep(OrphanEnds))
    /\ WF_allVars(PoolsStep(Progress))

PartsSpec == PartsInit /\ [][PartsNext]_allVars /\ PartsFairness

------------------------------------------------------------------------------
(* Properties of the parts that do not keep their names *)

\* Every variable has its type, and every connection that is out of its pool belongs
\* to a call that will give it back: no error, deadline or timeout loses one.
PartsSound == BreakerTypeOK /\ TypeOK /\ PoolsTypeOK /\ PoolsAccounted

\* Calls that wait for each other's lock and connections come to their end.
PoolsCallsEnd == part = "pools" => CallsEnd
==============================================================================
