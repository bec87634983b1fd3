----------------------------- MODULE Forwarding -----------------------------
(***************************************************************************)
(* A dispatched request: the balancer's forward_responses_stream on one    *)
(* side, the agent's generate_responses on the other, two message queues   *)
(* in between.                                                             *)
(*                                                                         *)
(* The balancer registers a sender under the request id, sends the request *)
(* to the agent and forwards what comes back until a terminal response.    *)
(* When the client goes away or a response is overdue it asks the agent to *)
(* stop, and keeps the agent's slot until the agent confirms.  Messages    *)
(* carry nothing but the request id, and a client may use an id again as   *)
(* soon as the balancer has finished with it: Attempt numbers the uses of  *)
(* one id, and a message is tagged with the use it was generated for only  *)
(* so that properties can tell.                                            *)
(***************************************************************************)
EXTENDS Naturals, Sequences

CONSTANTS
    MaxAttempts,   \* bound: how often the client uses the request id
    MaxTokens      \* bound: responses generated before the terminal one

ASSUME ForwardingAssumption == MaxAttempts \in Nat /\ MaxTokens \in Nat

VARIABLES
    attempt,       \* the current use of the request id; 0 before the first
    mode,          \* where request_from_agent stands, and the forwarding mode
    cancelled,     \* the request's cancellation token
    client,        \* the client's socket: "open" or "gone"
    shutdown,      \* the balancer's shutdown token
    link,          \* the agent's socket: "open", "closing" (token cancelled), "closed"
    inbox,         \* the response channel of the registered sender
    to_agent,      \* messages on their way to the agent
    to_balancer,   \* responses on their way to the balancer
    stopper,       \* the use whose stopper is registered at the agent, or 0
    stopped,       \* the uses whose stopper was signalled
    job,           \* per use, its generation at the agent
    generated,     \* per use, the responses generated so far
    responses,     \* the response channel of the agent's forwarding task
    received,      \* per use, what the client has received
    withdrawn,     \* history: the uses the client cancelled or left
    abandoned      \* history: the uses whose draining timed out

balancerVars == <<attempt, mode, inbox, received, abandoned>>
atAgentVars == <<stopper, stopped, job, generated, responses>>
environmentVars == <<cancelled, client, shutdown, link, withdrawn>>
forwardingVars == <<attempt, mode, cancelled, client, shutdown, link, inbox, to_agent,
          to_balancer, stopper, stopped, job, generated, responses, received,
          withdrawn, abandoned>>

Attempt == 1 .. MaxAttempts

Response == [kind : {"token", "done"}, job : Attempt, index : Nat]
ErrorEnvelope == [kind : {"error"}]
Modes == {"idle", "waiting", "register", "send", "forwarding", "draining", "finished"}

\* The sender of the request id is registered.
SenderRegistered == mode \in {"send", "forwarding", "draining"}

StopMessage == [kind |-> "stop"]
RequestMessage(a) == [kind |-> "request", attempt |-> a]
ToAgent == {StopMessage} \cup {RequestMessage(a) : a \in Attempt}

ForwardingTypeOK ==
    /\ attempt \in 0 .. MaxAttempts
    /\ mode \in Modes
    /\ (attempt = 0) = (mode = "idle")
    /\ cancelled \in BOOLEAN
    /\ client \in {"open", "gone"}
    /\ shutdown \in BOOLEAN
    /\ link \in {"open", "closing", "closed"}
    /\ inbox \in Seq(Response)
    /\ to_agent \in Seq(ToAgent)
    /\ to_balancer \in Seq(Response)
    /\ stopper \in 0 .. MaxAttempts
    /\ stopped \in SUBSET Attempt
    /\ job \in [Attempt -> {"none", "running", "terminated", "dropped"}]
    /\ generated \in [Attempt -> 0 .. MaxTokens]
    /\ responses \in Seq(Response)
    /\ received \in [Attempt -> Seq(Response \cup ErrorEnvelope)]
    /\ withdrawn \in SUBSET Attempt
    /\ abandoned \in SUBSET Attempt

ForwardingInit ==
    /\ attempt = 0
    /\ mode = "idle"
    /\ cancelled = FALSE
    /\ client = "open"
    /\ shutdown = FALSE
    /\ link = "open"
    /\ inbox = <<>>
    /\ to_agent = <<>>
    /\ to_balancer = <<>>
    /\ stopper = 0
    /\ stopped = {}
    /\ job = [a \in Attempt |-> "none"]
    /\ generated = [a \in Attempt |-> 0]
    /\ responses = <<>>
    /\ received = [a \in Attempt |-> <<>>]
    /\ withdrawn = {}
    /\ abandoned = {}

(***************************************************************************)
(* The environment: the client, the agent's connection, the shutdown.      *)
(***************************************************************************)
\* The client sends a request; its token is a child of the connection's.
NewRequest ==
    /\ mode \in {"idle", "finished"}
    /\ attempt < MaxAttempts
    /\ client = "open"
    /\ attempt' = attempt + 1
    /\ mode' = "waiting"
    /\ cancelled' = FALSE
    /\ inbox' = <<>>
    /\ UNCHANGED <<client, shutdown, link, withdrawn, to_agent, to_balancer, atAgentVars,
                   received, abandoned>>

\* The client sends StopRespondingTo.
CancelRequest ==
    /\ mode \notin {"idle", "finished"}
    /\ ~cancelled
    /\ cancelled' = TRUE
    /\ withdrawn' = withdrawn \cup {attempt}
    /\ UNCHANGED <<client, shutdown, link, to_agent, to_balancer, balancerVars, atAgentVars>>

\* The client's socket closes: sends to its session fail from now on.  The
\* socket's loop notices and cancels the connection's token (CloseClient).
LeaveClient ==
    /\ client = "open"
    /\ client' = "gone"
    /\ withdrawn' = IF mode \in {"idle", "finished"} THEN withdrawn
                    ELSE withdrawn \cup {attempt}
    /\ UNCHANGED <<cancelled, shutdown, link, to_agent, to_balancer, balancerVars, atAgentVars>>

CloseClient ==
    /\ client = "gone"
    /\ ~cancelled
    /\ cancelled' = TRUE
    /\ UNCHANGED <<client, shutdown, link, withdrawn, to_agent, to_balancer,
                   balancerVars, atAgentVars>>

Shutdown ==
    /\ ~shutdown
    /\ shutdown' = TRUE
    /\ UNCHANGED <<cancelled, client, link, withdrawn, to_agent, to_balancer,
                   balancerVars, atAgentVars>>

\* The agent's socket ends: its loop cancels the connection's token, and the
\* task that sends to the agent then ends and drops its channel.
CloseAgent ==
    /\ link # "closed"
    /\ link' = IF link = "open" THEN "closing" ELSE "closed"
    /\ UNCHANGED <<cancelled, client, shutdown, withdrawn, to_agent, to_balancer,
                   balancerVars, atAgentVars>>

(***************************************************************************)
(* The balancer's task.  select! is biased: shutdown, then the agent's     *)
(* connection, then the client's while forwarding, then the rest.          *)
(***************************************************************************)
\* send_response on the client's session; it fails once the session is closed.
SendToClient(message) ==
    received' = IF client = "open"
                THEN [received EXCEPT ![attempt] = Append(@, message)]
                ELSE received

RespondWithError == SendToClient([kind |-> "error"])

\* agent_controller.stop_responding_to: the channel accepts the notification
\* until its receiver is dropped.
StopRespondingTo ==
    to_agent' = IF link = "closed" THEN to_agent ELSE Append(to_agent, StopMessage)

\* The forwarding mode after a stop: draining, unless the agent is unreachable.
ModeAfterStop == IF link = "closed" THEN "finished" ELSE "draining"

\* wait_for_agent_controller (see Dispatch) finds an agent.
FoundAgent ==
    /\ mode = "waiting"
    /\ mode' = "register"
    /\ UNCHANGED <<attempt, inbox, received, abandoned, to_agent, to_balancer,
                   environmentVars, atAgentVars>>

\* It finds none: the client is told why unless it cancelled.
NoAgent ==
    /\ mode = "waiting"
    /\ mode' = "finished"
    /\ IF cancelled /\ ~shutdown THEN UNCHANGED received ELSE RespondWithError
    /\ UNCHANGED <<attempt, inbox, abandoned, to_agent, to_balancer, environmentVars, atAgentVars>>

\* receiver_from_message registers a sender, unless a request of another
\* connection has registered one under the same id.
RegisterSender ==
    /\ mode = "register"
    /\ \/ /\ mode' = "send"
          /\ UNCHANGED received
       \/ /\ mode' = "finished"
          /\ RespondWithError
    /\ UNCHANGED <<attempt, inbox, abandoned, to_agent, to_balancer, environmentVars, atAgentVars>>

\* Then it sends the request to the agent.
SendRequest ==
    /\ mode = "send"
    /\ link # "closed"
    /\ to_agent' = Append(to_agent, RequestMessage(attempt))
    /\ mode' = "forwarding"
    /\ UNCHANGED <<attempt, inbox, received, abandoned, to_balancer, environmentVars, atAgentVars>>

\* The channel to the agent is closed: the client is told.
SendRequestFails ==
    /\ mode = "send"
    /\ link = "closed"
    /\ RespondWithError
    /\ mode' = "finished"
    /\ UNCHANGED <<attempt, inbox, abandoned, to_agent, to_balancer, environmentVars, atAgentVars>>

ShutdownCancelled ==
    /\ mode \in {"forwarding", "draining"}
    /\ shutdown
    /\ IF mode = "forwarding" THEN RespondWithError /\ StopRespondingTo
       ELSE UNCHANGED <<received, to_agent>>
    /\ mode' = "finished"
    /\ UNCHANGED <<attempt, inbox, abandoned, to_balancer, environmentVars, atAgentVars>>

\* Faulty variant: the client of a lost agent is not told.
AgentConnectionCloseSilent ==
    /\ mode \in {"forwarding", "draining"}
    /\ ~shutdown
    /\ link # "open"
    /\ mode' = "finished"
    /\ UNCHANGED <<received, attempt, inbox, abandoned, to_agent, to_balancer,
                   environmentVars, atAgentVars>>

AgentConnectionClose ==
    /\ mode \in {"forwarding", "draining"}
    /\ ~shutdown
    /\ link # "open"
    /\ IF mode = "forwarding" THEN RespondWithError ELSE UNCHANGED received
    /\ mode' = "finished"
    /\ UNCHANGED <<attempt, inbox, abandoned, to_agent, to_balancer, environmentVars, atAgentVars>>

\* Faulty variant: the request is over as soon as its client has gone.
ConnectionCloseEndsRequest ==
    /\ mode = "forwarding"
    /\ ~shutdown
    /\ link = "open"
    /\ cancelled
    /\ StopRespondingTo
    /\ mode' = "finished"
    /\ UNCHANGED <<attempt, inbox, received, abandoned, to_balancer, environmentVars, atAgentVars>>

\* Faulty variant: the agent is not asked to stop.
ConnectionCloseWithoutStop ==
    /\ mode = "forwarding"
    /\ ~shutdown
    /\ link = "open"
    /\ cancelled
    /\ mode' = "draining"
    /\ UNCHANGED <<attempt, inbox, received, abandoned, to_agent, to_balancer,
                   environmentVars, atAgentVars>>

\* The client cancelled or left.
ConnectionClose ==
    /\ mode = "forwarding"
    /\ ~shutdown
    /\ link = "open"
    /\ cancelled
    /\ StopRespondingTo
    /\ mode' = ModeAfterStop
    /\ UNCHANGED <<attempt, inbox, received, abandoned, to_balancer, environmentVars, atAgentVars>>

\* Faulty variant: the request is over without waiting for the agent.
ItemTimeoutEndsRequest ==
    /\ mode = "forwarding"
    /\ ~shutdown
    /\ link = "open"
    /\ ~cancelled
    /\ RespondWithError
    /\ StopRespondingTo
    /\ mode' = "finished"
    /\ UNCHANGED <<attempt, inbox, abandoned, to_balancer, environmentVars, atAgentVars>>

\* inference_item_timeout elapses while forwarding.
ItemTimeout ==
    /\ mode = "forwarding"
    /\ ~shutdown
    /\ link = "open"
    /\ ~cancelled
    /\ RespondWithError
    /\ StopRespondingTo
    /\ mode' = ModeAfterStop
    /\ UNCHANGED <<attempt, inbox, abandoned, to_balancer, environmentVars, atAgentVars>>

\* It elapses while draining: the slot is released anyway.
DrainTimeout ==
    /\ mode = "draining"
    /\ ~shutdown
    /\ link = "open"
    /\ mode' = "finished"
    /\ abandoned' = abandoned \cup {attempt}
    /\ UNCHANGED <<attempt, inbox, received, to_agent, to_balancer, environmentVars, atAgentVars>>

\* Faulty variant: the stream goes on after its terminal response.
ReceiveWhileForwardingOn ==
    /\ mode = "forwarding"
    /\ ~shutdown
    /\ link = "open"
    /\ ~cancelled
    /\ inbox # <<>>
    /\ inbox' = Tail(inbox)
    /\ SendToClient(Head(inbox))
    /\ UNCHANGED <<mode, attempt, abandoned, to_agent, to_balancer, environmentVars, atAgentVars>>

\* A response is forwarded; the terminal one ends the request, and a failed
\* send asks the agent to stop.
ReceiveWhileForwarding ==
    /\ mode = "forwarding"
    /\ ~shutdown
    /\ link = "open"
    /\ ~cancelled
    /\ inbox # <<>>
    /\ inbox' = Tail(inbox)
    /\ SendToClient(Head(inbox))
    /\ \/ /\ Head(inbox).kind = "done"
          /\ mode' = "finished"
          /\ UNCHANGED to_agent
       \/ /\ Head(inbox).kind # "done"
          /\ client = "open"
          /\ UNCHANGED <<mode, to_agent>>
       \/ /\ Head(inbox).kind # "done"
          /\ client = "gone"
          /\ StopRespondingTo
          /\ mode' = ModeAfterStop
    /\ UNCHANGED <<attempt, abandoned, to_balancer, environmentVars, atAgentVars>>

\* A response is discarded; the terminal one is the agent's confirmation.
ReceiveWhileDraining ==
    /\ mode = "draining"
    /\ ~shutdown
    /\ link = "open"
    /\ inbox # <<>>
    /\ inbox' = Tail(inbox)
    /\ mode' = IF Head(inbox).kind = "done" THEN "finished" ELSE mode
    /\ UNCHANGED <<attempt, received, abandoned, to_agent, to_balancer, environmentVars, atAgentVars>>

\* The agent's socket hands a response to the sender registered under its
\* request id; without one the response is dropped.
ForwardResponse ==
    /\ link = "open"
    /\ to_balancer # <<>>
    /\ to_balancer' = Tail(to_balancer)
    /\ inbox' = IF SenderRegistered THEN Append(inbox, Head(to_balancer)) ELSE inbox
    /\ UNCHANGED <<attempt, mode, received, abandoned, to_agent, environmentVars, atAgentVars>>

(***************************************************************************)
(* The agent.                                                              *)
(***************************************************************************)
\* A request: its stopper is registered and the request queued for the
\* scheduler.  It is dropped with a log line when the id still has a stopper,
\* or when nothing reads the queue any more.
GenerateResponses ==
    /\ link = "open"
    /\ to_agent # <<>>
    /\ Head(to_agent).kind = "request"
    /\ to_agent' = Tail(to_agent)
    /\ \/ /\ stopper = 0
          /\ stopper' = Head(to_agent).attempt
          /\ job' = [job EXCEPT ![Head(to_agent).attempt] = "running"]
          /\ responses' = <<>>
       \/ UNCHANGED <<stopper, job, responses>>
    /\ UNCHANGED <<stopped, generated, to_balancer, balancerVars, environmentVars>>

\* StopRespondingTo: the stopper of the id, if there is one, is signalled.
StopStream ==
    /\ link = "open"
    /\ to_agent # <<>>
    /\ Head(to_agent).kind = "stop"
    /\ to_agent' = Tail(to_agent)
    /\ stopped' = IF stopper = 0 THEN stopped ELSE stopped \cup {stopper}
    /\ UNCHANGED <<stopper, job, generated, responses, to_balancer, balancerVars,
                   environmentVars>>

\* The scheduler's side of a request, as generate_responses sees it.  A response
\* is lost when the forwarding task has ended.
Emit(a, kind, index) ==
    responses' = IF stopper = a
                 THEN Append(responses, [kind |-> kind, job |-> a, index |-> index])
                 ELSE responses

GenerateToken(a) ==
    /\ job[a] = "running"
    /\ generated[a] < MaxTokens
    /\ generated' = [generated EXCEPT ![a] = @ + 1]
    /\ Emit(a, "token", generated[a] + 1)
    /\ UNCHANGED <<stopper, stopped, job, to_agent, to_balancer, balancerVars, environmentVars>>

\* Generation completes, or the scheduler sees the stop signal.
Terminate(a) ==
    /\ job[a] = "running"
    /\ job' = [job EXCEPT ![a] = "terminated"]
    /\ Emit(a, "done", generated[a] + 1)
    /\ UNCHANGED <<stopper, stopped, generated, to_agent, to_balancer, balancerVars,
                   environmentVars>>

\* The request is removed from the scheduler and its channel dropped; a
\* scheduler that is torn down drops it without a terminal response.
DropRequest(a) ==
    /\ job[a] \in {"running", "terminated"}
    /\ job' = [job EXCEPT ![a] = "dropped"]
    /\ UNCHANGED <<stopper, stopped, generated, responses, to_agent, to_balancer,
                   balancerVars, environmentVars>>

\* The forwarding task moves a response to the socket.
ForwardToBalancer ==
    /\ link = "open"
    /\ responses # <<>>
    /\ responses' = Tail(responses)
    /\ to_balancer' = Append(to_balancer, Head(responses))
    /\ UNCHANGED <<stopper, stopped, job, generated, to_agent, balancerVars, environmentVars>>

\* It ends, and its stopper is deregistered, when the channel is exhausted or
\* the connection has closed.
EndForwarding ==
    /\ stopper # 0
    /\ \/ responses = <<>> /\ job[stopper] = "dropped"
       \/ link # "open"
    /\ stopper' = 0
    /\ responses' = <<>>
    /\ UNCHANGED <<stopped, job, generated, to_agent, to_balancer, balancerVars,
                   environmentVars>>

-----------------------------------------------------------------------------
Environment ==
    \/ NewRequest
    \/ CancelRequest
    \/ LeaveClient
    \/ CloseClient
    \/ Shutdown
    \/ CloseAgent

\* The balancer's task, whose timers run.
BalancerStep ==
    \/ FoundAgent
    \/ NoAgent
    \/ RegisterSender
    \/ SendRequest
    \/ SendRequestFails
    \/ ShutdownCancelled
    \/ AgentConnectionClose
    \/ ConnectionClose
    \/ ItemTimeout
    \/ DrainTimeout
    \/ ReceiveWhileForwarding
    \/ ReceiveWhileDraining

ForwardingNext ==
    \/ Environment
    \/ BalancerStep
    \/ ForwardResponse
    \/ GenerateResponses
    \/ StopStream
    \/ \E a \in Attempt : GenerateToken(a) \/ Terminate(a) \/ DropRequest(a)
    \/ ForwardToBalancer
    \/ EndForwarding

ForwardingSpec == ForwardingInit /\ [][ForwardingNext]_forwardingVars

-----------------------------------------------------------------------------
(***************************************************************************)
(* Properties.                                                             *)
(***************************************************************************)
\* The balancer has finished use a of the id, and released its slot.
Over(a) == a < attempt \/ (a = attempt /\ mode = "finished")

\* Use a is, or is about to be, in the agent's scheduler.
AtAgent(a) ==
    \/ job[a] = "running"
    \/ \E i \in 1 .. Len(to_agent) : to_agent[i] = RequestMessage(a)

Terminal(message) == message.kind # "token"

\* A request the balancer has finished was answered with a terminal message,
\* unless its client cancelled it or left (every exit of request_from_agent).
Answered ==
    \A a \in Attempt :
        Over(a) /\ a \notin withdrawn =>
            \E i \in 1 .. Len(received[a]) : Terminal(received[a][i])

\* The client gets the responses generated for its own request, complete and in
\* order, although they are routed by an id that may be in use for the second
\* time; only a drain that was given up lets late responses through
\* (register_sender, DrainingUntilAgentConfirms).
OwnResponsesInOrder ==
    \A a \in Attempt : \A i \in 1 .. Len(received[a]) :
        /\ received[a][i].kind # "error"
        /\ ~ \E b \in abandoned : b < a
        => received[a][i].job = a /\ received[a][i].index = i

\* The balancer gives up an agent's slot only once the agent works no longer on
\* the request, so that the next request finds the slot really free; what breaks
\* this is a lost connection, the shutdown and a drain that timed out, whose late
\* terminal response may even end the next use of the id.
SlotHeldWhileAgentWorks ==
    \A a \in Attempt :
        Over(a) /\ AtAgent(a) =>
            (\E b \in abandoned : b <= a) \/ link # "open" \/ shutdown

\* An agent told to stop does: once the balancer drains a request, the agent
\* eventually no longer works on it, wherever the stop meets the request
\* (StopRespondingTo, ReceiveStreamStopperCollection::stop).
StopReachesAgent ==
    \A a \in Attempt :
        (attempt = a /\ mode = "draining") ~> (~AtAgent(a) \/ link # "open")

\* The refinement mapping: a stream is open until its terminal message, or until
\* the balancer forwards no more.
StreamPhase(a) ==
    IF a > attempt THEN "unsent"
    ELSE IF \E i \in 1 .. Len(received[a]) : Terminal(received[a][i]) THEN "answered"
    ELSE IF Over(a) \/ mode = "draining" THEN "withdrawn"
    ELSE "open"

TokensReceived(a) ==
    IF \E i \in 1 .. Len(received[a]) : Terminal(received[a][i])
    THEN Len(received[a]) - 1
    ELSE Len(received[a])

Stream == INSTANCE ResponseStream WITH
    phase <- [a \in Attempt |-> StreamPhase(a)],
    tokens <- [a \in Attempt |-> TokensReceived(a)],
    withdrawals <- withdrawn

\* Every request is the stream its client is promised: responses, one terminal
\* message, eventually, and silence only towards a client that withdrew.
ImplementsResponseStream == Stream!FairSpec
=============================================================================
