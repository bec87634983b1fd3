----------------------------- MODULE MCRequests -----------------------------
(***************************************************************************)
(* The way of a request through the balancer: it waits for the slot of an  *)
(* agent, and is then forwarded to it.  A behaviour exercises one of the   *)
(* two and the other stays at rest.                                        *)
(***************************************************************************)
EXTENDS Dispatch, Forwarding, TLC

CONSTANT a1

VARIABLE part

\* An agent keeps its id when it reconnects, and requests are interchangeable.
IdOfController == [c \in Controller |-> a1]

RequestSymmetry == Permutations(Request)

RequestsInit == part \in {"dispatch", "forwarding"} /\ Init /\ ForwardingInit

RequestsNext ==
    /\ UNCHANGED part
    /\ \/ part = "dispatch" /\ Next /\ UNCHANGED forwardingVars
       \/ part = "forwarding" /\ ForwardingNext /\ UNCHANGED vars

RequestsSpec == RequestsInit /\ [][RequestsNext]_<<part, vars, forwardingVars>>
-----------------------------------------------------------------------------
\* Every variable of the two parts has its type.
RequestsTypeOK == TypeOK /\ ForwardingTypeOK
=============================================================================
