----------------------------- MODULE PromptPage -----------------------------
(***************************************************************************)
(* The prompt page of the web admin panel on an inference socket: the hook *)
(* that keeps a socket open, the component that asks the balancer and      *)
(* shows the answer, and the notice that tokens are not generated.         *)
(*                                                                         *)
(* The component is mounted while the socket is connected, so a prompt     *)
(* that was submitted is asked again on the socket after a reconnect; the  *)
(* answer of an earlier prompt stays until the first frame of the next.    *)
(* A behaviour has this client, or any other one.                          *)
(***************************************************************************)
EXTENDS InferenceSocket

CONSTANTS
    MaxPrompts,      \* bound: prompts the user submits
    MaxMessages      \* bound: messages of a client that is not the page

ASSUME PromptPageAssumption ==
    MaxPrompts \in Nat /\ MaxMessages \in Nat /\ MaxTasks >= MaxPrompts + MaxSockets - 1

VARIABLES
    client,          \* "page" or "any"
    open,            \* the page is shown
    webSocket,       \* useWebSocket: the socket, 0 for none
    socketState,     \* useWebSocket: its state
    wire,            \* per socket, what the browser knows of it
    timer,           \* useWebSocket: a reconnect is due
    attempts,        \* reconnectAttempts, up to the number that matters
    prompt,          \* the prompt submitted last, 0 for none
    newest,          \* the id of the request made last, 0 for none
    subscribed,      \* the requests whose frames are taken
    answer,          \* per request, what scan has made of its frames: "empty", "filled", "over"
    shown,           \* the request whose answer is shown, 0 for none
    broken,          \* a frame did not fit the schema and ended the stream
    disabled,        \* isTokenGenerationDisabled
    sent             \* messages of the client that is not the page

pageVars == <<client, open, webSocket, socketState, wire, timer, attempts, prompt, newest,
              subscribed, answer, shown, broken, disabled, sent>>
vars == <<serverVars, pageVars>>

MAX_RECONNECT_DEBOUNCE_TIME_INCREASE == 3

TypeOK ==
    /\ InferenceSocketTypeOK
    /\ client \in {"page", "any"} /\ open \in BOOLEAN
    /\ webSocket \in 0 .. MaxSockets
    /\ socketState \in {"connecting", "connected", "connectionClosed", "connectionError"}
    /\ wire \in [Socket -> {"none", "connecting", "open", "errored", "closed"}]
    /\ timer \in BOOLEAN /\ attempts \in 0 .. MAX_RECONNECT_DEBOUNCE_TIME_INCREASE
    /\ prompt \in 0 .. MaxPrompts /\ newest \in 0 .. MaxTasks
    /\ subscribed \subseteq Id
    /\ answer \in [Id -> {"empty", "filled", "over"}]
    /\ shown \in 0 .. MaxTasks
    /\ broken \in BOOLEAN /\ disabled \in BOOLEAN /\ sent \in 0 .. MaxMessages

Init ==
    /\ InferenceSocketInit
    /\ wire = [s \in Socket |-> IF s = 1 THEN "connecting" ELSE "none"]
    /\ client \in {"page", "any"}
    /\ open = TRUE /\ webSocket = 1 /\ socketState = "connecting"
    /\ timer = FALSE /\ attempts = 0
    /\ prompt = 0 /\ newest = 0 /\ subscribed = {}
    /\ answer = [i \in Id |-> "empty"]
    /\ shown = 0 /\ broken = FALSE /\ disabled = FALSE /\ sent = 0

(***************************************************************************)
(* useWebSocket.                                                           *)
(***************************************************************************)
Page == client = "page" /\ open

\* continueConversation with a new id, and the end of the last subscription;
\* what is sent on a socket that is no longer open is lost.
\* Faulty variant: the last subscription goes on.
AskKeeping(s) ==
    /\ newest' = newest + 1
    /\ subscribed' = subscribed \cup {newest + 1}
    /\ inbox' = IF conn[s] = "open"
                THEN [inbox EXCEPT ![s] = Append(@, [kind |-> "request", id |-> newest + 1])]
                ELSE inbox

Ask(s) ==
    /\ newest' = newest + 1
    /\ subscribed' = {newest + 1}
    /\ inbox' = IF conn[s] = "open"
                THEN [inbox EXCEPT ![s] = Append(@, [kind |-> "request", id |-> newest + 1])]
                ELSE inbox

\* The component is mounted with a fresh message, and asks for the prompt that
\* is submitted already.
SocketOpens ==
    /\ Page /\ webSocket # 0
    /\ wire[webSocket] = "connecting" /\ conn[webSocket] \in {"open", "lost"}
    /\ wire' = [wire EXCEPT ![webSocket] = "open"]
    /\ socketState' = "connected"
    /\ attempts' = 0
    /\ shown' = 0
    /\ IF prompt # 0 THEN Ask(webSocket) ELSE UNCHANGED <<newest, subscribed, inbox>>
    /\ UNCHANGED <<mode, modeVersion, setting, shutdown, conn, closing, handlers, registry, outbox,
                   watcher, seen, lastMode, task, disturbances, client, open, webSocket, timer, prompt, answer,
                   broken, disabled, sent>>

\* A new version: the effect starts the timer anew; the component is unmounted.
Reconnect(state) ==
    /\ socketState' = state
    /\ timer' = TRUE
    /\ attempts' = IF attempts < MAX_RECONNECT_DEBOUNCE_TIME_INCREASE THEN attempts + 1 ELSE attempts
    /\ subscribed' = {}
    /\ UNCHANGED <<client, open, webSocket, prompt, newest, answer, shown, broken, disabled, sent>>

\* The connection cannot be made, or broke: an error, and then a close.
SocketError ==
    /\ Page /\ webSocket # 0
    /\ \/ wire[webSocket] = "connecting" /\ conn[webSocket] = "closed"
       \/ wire[webSocket] = "open" /\ conn[webSocket] = "lost"
    /\ wire' = [wire EXCEPT ![webSocket] = "errored"]
    /\ Reconnect("connectionError")
    /\ UNCHANGED serverVars

\* A close after an error, or by the balancer once its frames were taken.
SocketCloses ==
    /\ Page /\ webSocket # 0
    /\ \/ wire[webSocket] = "errored"
       \/ wire[webSocket] = "open" /\ conn[webSocket] = "closed" /\ outbox[webSocket] = <<>>
    /\ wire' = [wire EXCEPT ![webSocket] = "closed"]
    /\ Reconnect("connectionClosed")
    /\ UNCHANGED serverVars

\* The timer connects; the notice is taken back for the new socket.
ConnectAgain ==
    /\ Page /\ timer
    /\ \E s \in Socket :
          /\ s = webSocket + 1
          /\ timer' = FALSE
          /\ webSocket' = s
          /\ conn' = [conn EXCEPT ![s] = "connecting"]
          /\ wire' = [wire EXCEPT ![s] = "connecting",
                                  ![webSocket] = IF @ = "errored" THEN "closed" ELSE @]
    /\ disabled' = FALSE
    /\ UNCHANGED <<mode, modeVersion, setting, shutdown, closing, inbox, handlers, registry, outbox,
                   watcher, seen, lastMode, task, disturbances, client, open, socketState, attempts, prompt,
                   newest, subscribed, answer, shown, broken, sent>>

(***************************************************************************)
(* The conversation and the notice.                                        *)
(***************************************************************************)
\* The button and the field are disabled with the notice.
Submit ==
    /\ Page /\ socketState = "connected" /\ ~disabled /\ prompt < MaxPrompts
    /\ prompt' = prompt + 1
    /\ broken' = FALSE
    /\ Ask(webSocket)
    /\ UNCHANGED <<mode, modeVersion, setting, shutdown, conn, closing, handlers, registry, outbox,
                   watcher, seen, lastMode, task, disturbances, client, open, webSocket, socketState, wire, timer,
                   attempts, answer, shown, disabled, sent>>

\* The scan: any frame fills the message, a terminal one ends the stream.
Scan(frame) == IF frame.kind = "token" THEN "filled" ELSE "over"

TakeNotification(frame) ==
    /\ disabled' = (frame.kind = "TokenGenerationDisabled")
    /\ UNCHANGED <<subscribed, answer, shown, broken>>

\* Every frame is parsed before its id is looked at.
TakeResponse(frame) ==
    /\ IF frame.kind = "foreign"
       THEN /\ broken' = (broken \/ subscribed # {})
            /\ subscribed' = {}
            /\ UNCHANGED <<answer, shown>>
       ELSE IF frame.id \in subscribed
       THEN /\ answer' = [answer EXCEPT ![frame.id] = Scan(frame)]
            /\ shown' = frame.id
            /\ subscribed' = IF frame.kind \in Terminal THEN subscribed \ {frame.id} ELSE subscribed
            /\ UNCHANGED broken
       ELSE UNCHANGED <<answer, shown, subscribed, broken>>
    /\ UNCHANGED disabled

TakeFrame ==
    /\ client = "page" => open /\ wire[webSocket] = "open" /\ conn[webSocket] # "lost"
    /\ webSocket # 0 /\ outbox[webSocket] # <<>>
    /\ LET frame == Head(outbox[webSocket])
       IN  IF frame.id = 0 THEN TakeNotification(frame) ELSE TakeResponse(frame)
    /\ outbox' = [outbox EXCEPT ![webSocket] = Tail(@)]
    /\ UNCHANGED <<mode, modeVersion, setting, shutdown, conn, closing, inbox, handlers, registry,
                   watcher, seen, lastMode, task, disturbances, client, open, webSocket, socketState, wire, timer,
                   attempts, prompt, newest, sent>>

\* Another page is opened: the socket is closed and the timer cleared.
LeavePage ==
    /\ Page /\ Disturb
    /\ open' = FALSE
    /\ timer' = FALSE
    /\ subscribed' = {}
    /\ outbox' = [outbox EXCEPT ![webSocket] = <<>>]
    /\ inbox' = IF conn[webSocket] = "open"
                THEN [inbox EXCEPT ![webSocket] = Append(@, [kind |-> "close", id |-> 0])] ELSE inbox
    /\ conn' = [conn EXCEPT ![webSocket] = CASE @ = "connecting" -> "closed" [] @ = "open" -> "lost"
                                              [] OTHER -> @]
    /\ UNCHANGED <<mode, modeVersion, setting, shutdown, closing, handlers, registry,
                   watcher, seen, lastMode, task, client, webSocket, socketState, wire, attempts,
                   prompt, newest, answer, shown, broken, disabled, sent>>

(***************************************************************************)
(* Clients that are not the page, and the network.                         *)
(***************************************************************************)
AnyClientSends ==
    /\ client = "any" /\ sent < MaxMessages /\ conn[1] = "open"
    /\ \E message \in Message :
          /\ message.id <= 2
          /\ message.kind = "request" => Cardinality({t \in Task : task[t].status # "none"})
                                          + Len(inbox[1]) + Len(handlers[1]) < MaxTasks
          /\ inbox' = [inbox EXCEPT ![1] = Append(@, message)]
    /\ sent' = sent + 1
    /\ UNCHANGED <<mode, modeVersion, setting, shutdown, conn, closing, handlers, registry, outbox,
                   watcher, seen, lastMode, task, disturbances, client, open, webSocket, socketState, wire, timer,
                   attempts, prompt, newest, subscribed, answer, shown, broken, disabled>>

\* The last socket is not lost, so that the page has one to reconnect with.
NetworkFails ==
    \E s \in Socket :
        /\ client = "page" => s < MaxSockets
        /\ \/ LoseConnection(s) /\ UNCHANGED pageVars
           \/ /\ conn[s] = "connecting" /\ Disturb
              /\ conn' = [conn EXCEPT ![s] = "closed"]
              /\ UNCHANGED <<mode, modeVersion, setting, shutdown, closing, inbox, handlers,
                             registry, outbox, watcher, seen, lastMode, task, pageVars>>

PageNext ==
    \/ SocketOpens \/ SocketError \/ SocketCloses \/ ConnectAgain
    \/ Submit \/ TakeFrame \/ LeavePage \/ AnyClientSends \/ NetworkFails

Next == PageNext \/ (ServerNext /\ UNCHANGED pageVars)

\* The browser delivers events, the timer fires; a request of the page ends
\* (Forwarding); one of another client may run for ever.
FairSpec ==
    /\ Init /\ [][Next]_vars
    /\ ServerFairness
    /\ WF_wire(SocketOpens \/ SocketError \/ SocketCloses)
    /\ WF_webSocket(ConnectAgain)
    /\ WF_outbox(TakeFrame)
    /\ \A t \in Task : WF_task(client = "page" /\ Generate(t))

(***************************************************************************)
(* Properties.                                                             *)
(***************************************************************************)
\* Once a frame of the newest request was taken it is that answer the page
\* shows, whatever still arrives for the prompts before.
AnswerBelongsToPrompt ==
    newest # 0 /\ answer[newest] # "empty" /\ socketState = "connected" => shown = newest

\* The notice is up exactly while the cluster generates no tokens, as soon as
\* the watcher has seen the last change and its notifications are taken.
ModeIsShown ==
    \A s \in Socket :
        /\ s = webSocket /\ conn[s] = "open" /\ watcher[s] = "wait"
        /\ seen[s] = modeVersion /\ ~setting
        /\ \A i \in DOMAIN outbox[s] : outbox[s][i].id # 0
        => (disabled <=> mode = "DisabledForEmbeddings")

\* The page gets its socket back.
PageReconnects == Page ~> socketState = "connected" \/ ~open \/ shutdown

\* A prompt is answered although its connection may be lost on the way, unless
\* a frame did not fit the schema.
PromptIsAnswered ==
    Page /\ prompt # 0 ~> (newest # 0 /\ answer[newest] = "over") \/ broken \/ ~open \/ shutdown

\* What the page shows is so: a request of its socket can be stopped exactly while
\* it runs, the answer is the newest prompt's, and the notice is the cluster's mode.
PageIsTrue == TypeOK /\ RunningIsStoppable /\ AnswerBelongsToPrompt /\ ModeIsShown

\* The page does not hang: stopped requests end, lost sockets are replaced and
\* prompts are answered.
PageMovesOn == StopEndsRequest /\ PageReconnects /\ PromptIsAnswered
=============================================================================
