----------------------------- MODULE MCServing ------------------------------
(***************************************************************************)
(* What must go on while a program serves, and end when it ends: requests  *)
(* that wait for a slot, requests that were forwarded, and the services    *)
(* themselves.  A behaviour exercises one of them and the others stay at   *)
(* rest.                                                                   *)
(***************************************************************************)
EXTENDS MCRequests, Lifecycle

ServingInit ==
    /\ part \in {"dispatch", "forwarding", "lifecycle"}
    /\ Init /\ ForwardingInit /\ LifecycleInit
    /\ part # "lifecycle" => program = "agent" /\ runs_in = "command"

ServingNext ==
    /\ UNCHANGED part
    /\ \/ part = "dispatch" /\ Next /\ UNCHANGED <<forwardingVars, lifecycleVars>>
       \/ part = "forwarding" /\ ForwardingNext /\ UNCHANGED <<vars, lifecycleVars>>
       \/ part = "lifecycle" /\ LifecycleNext /\ UNCHANGED <<vars, forwardingVars>>

\* Requests and connections are polled (see Fairness in Dispatch).  The task of a
\* forwarded request is polled and its timers fire, its agent reads the socket and
\* checks the stoppers; nothing makes a scheduler generate.  The services are polled,
\* their connections, the manager and whoever awaits them.  A part at rest is not.
ServingSpec ==
    /\ ServingInit /\ [][ServingNext]_<<part, vars, forwardingVars, lifecycleVars>>
    /\ \A r \in Request : WF_vars(part = "dispatch" /\ RequestStep(r))
    /\ \A c \in Controller : WF_vars(part = "dispatch" /\ SignalSocket(c))
    /\ \A c \in Controller :
          WF_vars(part = "dispatch" /\ socket[c] = "rejected" /\ RemoveAgent(c))
    /\ WF_forwardingVars(part = "forwarding" /\ BalancerStep)
    /\ WF_forwardingVars(part = "forwarding" /\ (GenerateResponses \/ StopStream))
    /\ WF_forwardingVars(part = "forwarding" /\ \E a \in stopped : Terminate(a))
    /\ \A s \in Services : WF_lifecycleVars(part = "lifecycle" /\ ServiceStep(s))
    /\ \A s \in Services : WF_lifecycleVars(part = "lifecycle" /\ CloseConnectionOnShutdown(s))
    /\ \A s \in Services : WF_lifecycleVars(part = "lifecycle" /\ CompleteAnswer(s))
    /\ WF_lifecycleVars(part = "lifecycle" /\ ManagerStep)
    /\ WF_lifecycleVars(part = "lifecycle" /\ OwnerStep)
-----------------------------------------------------------------------------
\* The variables of a program's life have their types, and its end leaves nothing
\* behind and hides no failure (serve_http_until_shutdown, ServiceThread).
LifeIsSound == LifecycleTypeOK /\ EndIsClean
=============================================================================
